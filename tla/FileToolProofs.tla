--------------------------- MODULE FileToolProofs ---------------------------
(* Theorems about the four tools whose state is files on disk: Reclassification, *)
(* for every set of incidents and number of deaths; SequentialBakeoff, for every  *)
(* grid, growth and number of commands; CalibrationFiles, for every snapshot, set *)
(* of rubrics and number of commands and deaths; and BaselineTree, for every      *)
(* number of edits and freezes.                                                   *)
EXTENDS Reclassification, SequentialBakeoff, CalibrationFiles, BaselineTree,
        FiniteSetTheorems, TLAPS

-----------------------------------------------------------------------------
(* The theorems about Reclassification *)

(* The inductive invariant *)

Wanted == Stage2 \cap Corpus
Recorded == ToSet(checkpoint)
Waiting == DOMAIN ready

\* The sequence of the checkpoint and what the threads hold.
ReclassifyShape ==
    /\ checkpoint \in Seq(Incidents)
    /\ ready = [i \in Waiting |-> ready[i]]
    /\ asked \in [Incidents -> Nat] /\ reclassifyDeaths \in Nat
    /\ reclassify \in {"none", "running", "draining"}

\* Each wanted incident is at one place, and none is lost while a start runs.
Places ==
    /\ Recorded \subseteq Wanted /\ todo \subseteq Wanted
    /\ asking \subseteq Wanted /\ Waiting \subseteq Wanted
    /\ todo \cap asking = {} /\ todo \cap Waiting = {} /\ asking \cap Waiting = {}
    /\ Recorded \cap (todo \cup asking \cup Waiting) = {}
    /\ reclassify # "none" => Wanted = Recorded \cup todo \cup asking \cup Waiting
    /\ reclassify = "none" => todo = {} /\ asking = {} /\ Waiting = {}

\* No line of the checkpoint repeats another.
LinesDiffer == IsInjective(checkpoint)

\* Only the death of a start makes an incident be asked about once more.
AskedOnce ==
    \A i \in Incidents :
      asked[i] <= reclassifyDeaths + (IF i \in Recorded \cup asking \cup Waiting THEN 1 ELSE 0)

RowsComplete ==
    rows # NoRows =>
      /\ IsInjective(rows.stage2) /\ ToSet(rows.stage2) = Wanted
      /\ ToSet(rows.stage1) = {i \in Incidents : Stage1Rows[i] > 0}

ReclassifyInv == ReclassifyShape /\ Places /\ LinesDiffer /\ AskedOnce /\ RowsComplete

-----------------------------------------------------------------------------
(* Sequences and sets *)

\* A set written as a sequence has the same elements.
LEMMA SetToSeqSet ==
    ASSUME NEW S, IsFiniteSet(S) PROVE ToSet(SetToSeq(S)) = S
<1> DEFINE n == Cardinality(S)
<1> DEFINE f == SetToSeq(S)
<1>1. n \in Nat /\ ExistsBijection(1 .. n, S)
  BY FS_CardinalityType
<1>2. PICK g \in Bijection(1 .. n, S) : TRUE
  BY <1>1 DEF ExistsBijection
<1>3. g \in [1 .. n -> S] /\ IsInjective(g)
  BY <1>2 DEF Bijection, Injection, IsInjective
<1>4. f \in [1 .. n -> S] /\ IsInjective(f)
  BY <1>3 DEF SetToSeq
<1>5. f \in Injection(1 .. n, S)
  BY <1>4 DEF Injection, IsInjective
<1>6. IsFiniteSet(1 .. n) /\ Cardinality(1 .. n) = n
  BY <1>1, FS_Interval
<1>7. f \in Surjection(1 .. n, S)
  BY <1>5, <1>6, FS_Injection
<1> QED BY <1>4, <1>7 DEF Surjection, ToSet

\* A line appended is one more element, and differs from the others if it was
\* not among them.
LEMMA AppendLine ==
    ASSUME NEW s \in Seq(Incidents), NEW i \in Incidents
    PROVE  /\ Append(s, i) \in Seq(Incidents)
           /\ ToSet(Append(s, i)) = ToSet(s) \cup {i}
           /\ IsInjective(s) /\ i \notin ToSet(s) => IsInjective(Append(s, i))
<1>1. DOMAIN s = 1 .. Len(s) /\ DOMAIN Append(s, i) = 1 .. Len(s) + 1 /\ Len(s) \in Nat
  OBVIOUS
<1>2. /\ \A k \in 1 .. Len(s) : Append(s, i)[k] = s[k]
      /\ Append(s, i)[Len(s) + 1] = i
  OBVIOUS
<1>3. ToSet(Append(s, i)) = ToSet(s) \cup {i}
  BY <1>1, <1>2 DEF ToSet
<1>4. IsInjective(s) /\ i \notin ToSet(s) => IsInjective(Append(s, i))
  BY <1>1, <1>2 DEF IsInjective, ToSet
<1> QED BY <1>3, <1>4

-----------------------------------------------------------------------------
LEMMA InitReclassifyInv == ASSUME ReclassificationAssumption, ReclassifyInit PROVE ReclassifyInv
<1>1. checkpoint = <<>> /\ Recorded = {} /\ Waiting = {}
  BY DEF ReclassifyInit, Recorded, Waiting, ToSet
<1> QED
  BY <1>1 DEF ReclassifyInit, ReclassifyInv, ReclassifyShape, Places, LinesDiffer, AskedOnce, RowsComplete, IsInjective

\* The wanted incidents are incidents, so that asked has a count for each.
LEMMA WantedAreIncidents == ReclassificationAssumption => Wanted \subseteq Incidents
BY DEF ReclassificationAssumption, Wanted

LEMMA NextReclassifyInv == ASSUME ReclassificationAssumption, ReclassifyInv, [ReclassifyNext]_revars PROVE ReclassifyInv'
<1> USE DEF ReclassifyInv, Wanted
<1>0. Wanted \subseteq Incidents
  BY WantedAreIncidents
<1>1. CASE StartReclassify
  <2>1. Waiting' = Waiting /\ Recorded' = Recorded
    BY <1>1 DEF StartReclassify, Waiting, Recorded
  <2>2. ReclassifyShape' /\ LinesDiffer' /\ RowsComplete'
    BY <1>1, <2>1 DEF StartReclassify, ReclassifyShape, LinesDiffer, RowsComplete
  <2>3. Places'
    BY <1>1, <2>1 DEF StartReclassify, Places, Remaining, Recorded
  <2>4. AskedOnce'
    BY <1>1, <2>1 DEF StartReclassify, AskedOnce
  <2> QED BY <2>2, <2>3, <2>4
<1>2. CASE Mend
  <2>1. Waiting' = Waiting /\ Recorded' = Recorded
    BY <1>2 DEF Mend, Waiting, Recorded
  <2> QED
    BY <1>2, <2>1 DEF Mend, ReclassifyShape, Places, LinesDiffer, AskedOnce, RowsComplete
<1>3. CASE Ask
  <2>1. Waiting' = Waiting /\ Recorded' = Recorded
    BY <1>3 DEF Ask, Waiting, Recorded
  <2>2. PICK i \in todo : /\ todo' = todo \ {i} /\ asking' = asking \cup {i}
                          /\ asked' = [asked EXCEPT ![i] = @ + 1]
    BY <1>3 DEF Ask
  <2>3. i \in Incidents /\ i \notin Recorded \cup asking \cup Waiting
    BY <1>0 DEF Places
  <2>4. ReclassifyShape' /\ LinesDiffer' /\ RowsComplete'
    BY <1>3, <2>1, <2>2, <2>3 DEF Ask, ReclassifyShape, LinesDiffer, RowsComplete
  <2>5. Places'
    BY <1>3, <2>1, <2>2 DEF Ask, Places
  <2>6. ASSUME NEW j \in Incidents
        PROVE  asked'[j] <= reclassifyDeaths' +
                 (IF j \in Recorded' \cup asking' \cup Waiting' THEN 1 ELSE 0)
    <3>1. reclassifyDeaths' = reclassifyDeaths /\ asked \in [Incidents -> Nat] /\ reclassifyDeaths \in Nat
      BY <1>3 DEF Ask, ReclassifyShape
    <3>2. asked[j] <= reclassifyDeaths + (IF j \in Recorded \cup asking \cup Waiting THEN 1 ELSE 0)
      BY DEF AskedOnce
    <3> QED BY <3>1, <3>2, <2>1, <2>2, <2>3
  <2> QED BY <2>4, <2>5, <2>6 DEF AskedOnce
<1>4. CASE Reply
  <2>1. PICK i \in asking, r \in {"record", "raised"} :
          /\ asking' = asking \ {i}
          /\ ready' = [j \in DOMAIN ready \cup {i} |-> IF j = i THEN r ELSE ready[j]]
    BY <1>4 DEF Reply
  <2>2. Waiting' = Waiting \cup {i} /\ Recorded' = Recorded
    BY <1>4, <2>1 DEF Reply, Waiting, Recorded
  <2>3. ReclassifyShape'
    BY <1>4, <2>1, <2>2 DEF Reply, ReclassifyShape, Waiting
  <2>4. LinesDiffer' /\ RowsComplete'
    BY <1>4 DEF Reply, LinesDiffer, RowsComplete
  <2>5. Places'
    BY <1>4, <2>1, <2>2 DEF Reply, Places
  <2>6. Recorded' \cup asking' \cup Waiting' = Recorded \cup asking \cup Waiting
    BY <2>1, <2>2
  <2>7. AskedOnce'
    BY <1>4, <2>6 DEF Reply, AskedOnce
  <2> QED BY <2>3, <2>4, <2>5, <2>7
<1>5. CASE CollectReply
  <2>1. PICK i \in Waiting :
          IF ready[i] = "record"
          THEN /\ checkpoint' = Append(checkpoint, i)
               /\ ready' = [j \in DOMAIN ready \ {i} |-> ready[j]]
               /\ UNCHANGED reclassify
          ELSE reclassify' = "draining" /\ UNCHANGED <<checkpoint, ready>>
    BY <1>5 DEF CollectReply, Waiting
  <2>2. i \in Incidents /\ i \notin Recorded
    BY <1>0 DEF Places
  <2>3. CASE ready[i] = "record"
    <3>1. checkpoint' = Append(checkpoint, i) /\ reclassify' = reclassify
          /\ ready' = [j \in Waiting \ {i} |-> ready[j]]
      BY <2>1, <2>3 DEF Waiting
    <3>2. Waiting' = Waiting \ {i}
      BY <3>1 DEF Waiting
    <3>3. /\ checkpoint' \in Seq(Incidents) /\ Recorded' = Recorded \cup {i}
          /\ LinesDiffer'
      BY <3>1, <2>2, AppendLine DEF ReclassifyShape, Recorded, LinesDiffer
    <3>4. ReclassifyShape'
      BY <1>5, <3>1, <3>2, <3>3 DEF CollectReply, ReclassifyShape
    <3>5. Places'
      BY <1>5, <3>1, <3>2, <3>3 DEF CollectReply, Places
    <3>6. Recorded' \cup asking' \cup Waiting' = Recorded \cup asking \cup Waiting
      BY <1>5, <3>2, <3>3 DEF CollectReply
    <3>7. AskedOnce' /\ RowsComplete'
      BY <1>5, <3>6 DEF CollectReply, AskedOnce, RowsComplete
    <3> QED BY <3>3, <3>4, <3>5, <3>7
  <2>4. CASE ready[i] # "record"
    <3>1. Waiting' = Waiting /\ Recorded' = Recorded /\ checkpoint' = checkpoint /\ ready' = ready
          /\ reclassify' = "draining"
      BY <2>1, <2>4 DEF Waiting, Recorded
    <3>2. reclassify = "running"
      BY <1>5 DEF CollectReply
    <3>3. ReclassifyShape' /\ LinesDiffer' /\ RowsComplete' /\ AskedOnce'
      BY <1>5, <3>1 DEF CollectReply, ReclassifyShape, LinesDiffer, RowsComplete, AskedOnce
    <3>4. Places'
      BY <1>5, <3>1, <3>2 DEF CollectReply, Places
    <3> QED BY <3>3, <3>4
  <2> QED BY <2>3, <2>4
<1>6. ASSUME NoPool, reclassify' = "none", reclassifyDeaths' = reclassifyDeaths + 1,
             UNCHANGED <<checkpoint, rows, asked>>
      PROVE  ReclassifyInv'
  <2>1. Waiting' = {} /\ Recorded' = Recorded
    BY <1>6 DEF NoPool, Waiting, Recorded
  <2>2. ReclassifyShape'
    BY <1>6, <2>1 DEF NoPool, ReclassifyShape
  <2>3. Places' /\ LinesDiffer' /\ RowsComplete'
    BY <1>6, <2>1 DEF NoPool, Places, LinesDiffer, RowsComplete
  <2>4. AskedOnce'
    BY <1>6, <2>1 DEF ReclassifyShape, AskedOnce
  <2> QED BY <2>2, <2>3, <2>4
<1>7. CASE Convert
  <2> DEFINE stage1 == {i \in Incidents : Stage1Rows[i] > 0}
  <2>1. /\ todo = {} /\ asking = {} /\ Waiting = {} /\ reclassify = "running"
        /\ rows' = [stage1 |-> SetToSeq(stage1), stage2 |-> checkpoint]
        /\ reclassify' = "none" /\ UNCHANGED <<checkpoint, torn, todo, asking, ready, asked, reclassifyDeaths>>
    BY <1>7 DEF Convert, Waiting
  <2>2. Waiting' = Waiting /\ Recorded' = Recorded
    BY <2>1 DEF Waiting, Recorded
  <2>3. Recorded = Wanted
    BY <2>1 DEF Places
  <2>4. ToSet(SetToSeq(stage1)) = stage1
    <3>1. IsFiniteSet(stage1)
      BY FS_Subset DEF ReclassificationAssumption
    <3> QED BY <3>1, SetToSeqSet
  <2>5. RowsComplete'
    BY <2>1, <2>3, <2>4 DEF RowsComplete, LinesDiffer, Recorded
  <2>6. ReclassifyShape' /\ Places' /\ LinesDiffer' /\ AskedOnce'
    BY <2>1, <2>2 DEF ReclassifyShape, Places, LinesDiffer, AskedOnce
  <2> QED BY <2>5, <2>6
<1>8. CASE UNCHANGED revars
  <2>1. Waiting' = Waiting /\ Recorded' = Recorded
    BY <1>8 DEF revars, Waiting, Recorded
  <2> QED
    BY <1>8, <2>1 DEF revars, ReclassifyShape, Places, LinesDiffer, AskedOnce, RowsComplete
<1>9. CASE FailReclassify
  BY <1>6, <1>9 DEF FailReclassify
<1>10. CASE ReclassifyDies
  BY <1>6, <1>10 DEF ReclassifyDies
<1> QED BY <1>1, <1>2, <1>3, <1>4, <1>5, <1>7, <1>8, <1>9, <1>10 DEF ReclassifyNext

-----------------------------------------------------------------------------
\* However often the command dies, every Stage-2 incident of the corpus gets one
\* row from one answer, and asking twice takes a death: reclassify.py.
THEOREM LabelledOnce ==
    ASSUME ReclassificationAssumption PROVE ReclassifySpec => []EachIncidentLabelledOnce
<1>1. ReclassifyInv => EachIncidentLabelledOnce
  <2> SUFFICES ASSUME ReclassifyInv PROVE EachIncidentLabelledOnce
    OBVIOUS
  <2>1. \A i \in Incidents : asked[i] <= 1 + reclassifyDeaths
    BY DEF ReclassifyInv, ReclassifyShape, AskedOnce
  <2> QED
    BY <2>1 DEF ReclassifyInv, Places, LinesDiffer, RowsComplete, EachIncidentLabelledOnce, Recorded,
                Waiting, Wanted
<1> QED BY <1>1, InitReclassifyInv, NextReclassifyInv, PTL DEF ReclassifySpec

\* An incident of a start under way is at exactly one place, recorded, to be
\* asked, being asked or answered: none is lost between the pool and the
\* checkpoint, and none is in two hands.
THEOREM NoIncidentLost ==
    ASSUME ReclassificationAssumption PROVE ReclassifySpec => []Places
<1>1. ReclassifyInv => Places
  BY DEF ReclassifyInv
<1> QED BY <1>1, InitReclassifyInv, NextReclassifyInv, PTL DEF ReclassifySpec

-----------------------------------------------------------------------------
(* The theorems about SequentialBakeoff *)

(* The inductive invariant *)

Results == {"passed", "failed", None, TornFile}
ScoreCommand == [name : {"score", "gate"}, config : Configs]
BakeoffCommand ==
    [name : {"bakeoff"}, saved : [Configs -> Saved], gates : [Configs -> Results],
     scored : SUBSET Configs]
SelectedCommand ==
    [name : {"disclose", "check"}, saved : [Configs -> Saved], gates : [Configs -> Results],
     scored : SUBSET Configs, winner : Configs \cup {None}]

Types ==
    /\ gold \in GoldSets
    /\ predictions \in [Configs -> Saved] /\ cached \in [Configs -> GoldSets \cup {None}]
    /\ gates \in [Configs -> Results]
    /\ bakeoff \in {NoCommand} \cup ScoreCommand \cup BakeoffCommand \cup SelectedCommand
    /\ bakeoffRuns \in Nat

\* A gate result is saved after the predictions of its config.
GateFollows ==
    /\ \A c \in Configs : gates[c] # None => predictions[c] # None
    /\ bakeoff.name = "gate" => predictions[bakeoff.config] # None

\* A copy is what is saved, until the config is scored again.
CopiesMatch ==
    \A c \in Configs \ rescored :
      cached[c] # None => predictions[c] \in {cached[c], TornFile}

\* What a bakeoff read when it started is what is saved while it selects.
ReadIsSaved ==
    bakeoff.name = "bakeoff" =>
      /\ bakeoff.saved = predictions /\ bakeoff.gates = gates /\ bakeoff.scored = Scored
      /\ \A c \in Configs : predictions[c] # TornFile

\* After the selection, the provenance is that of this command.
Selected ==
    bakeoff.name \in {"disclose", "check"} =>
      /\ provenance.run = bakeoffRuns /\ provenance.winner = bakeoff.winner
      /\ bakeoff.winner \in bakeoff.scored \cup {None}
      /\ \A c \in bakeoff.scored \ rescored : provenance.on[c] = bakeoff.saved[c]
      /\ Keep \subseteq bakeoff.scored

Disclosed ==
    bakeoff.name = "check" =>
      /\ disclosure.run = bakeoffRuns
      /\ disclosure.keep \subseteq bakeoff.scored \cap disclosure.rates

\* The cross-check is of an earlier command than a bakeoff under way; the rest
\* is the property.
CrossChecked ==
    crosscheck # None =>
      /\ crosscheck.run \in Nat /\ crosscheck.run <= bakeoffRuns
      /\ bakeoff.name \in {"bakeoff", "disclose", "check"} => crosscheck.run < bakeoffRuns

BakeoffInv ==
    /\ Types /\ GateFollows /\ CopiesMatch /\ ReadIsSaved /\ Selected /\ Disclosed
    /\ CrossChecked /\ DisclosureMatchesSelection

-----------------------------------------------------------------------------
(* Commands *)

LEMMA CommandKinds ==
    ASSUME Types
    PROVE  /\ bakeoff.name = "none" <=> bakeoff = NoCommand
           /\ bakeoff.name \in {"score", "gate"} => bakeoff \in ScoreCommand
           /\ bakeoff.name = "bakeoff" => bakeoff \in BakeoffCommand
           /\ bakeoff.name \in {"disclose", "check"} => bakeoff \in SelectedCommand
           /\ bakeoff.name \in {"none", "score", "gate", "bakeoff", "disclose", "check"}
BY DEF Types, NoCommand, ScoreCommand, BakeoffCommand, SelectedCommand

\* A step that leaves the outputs alone and starts nothing of a bakeoff keeps
\* what is said of them.
LEMMA OutputsKept ==
    ASSUME BakeoffInv, UNCHANGED <<provenance, disclosure, crosscheck>>, bakeoffRuns' = bakeoffRuns,
           rescored \subseteq rescored', bakeoff'.name \in {"none", "gate"}
    PROVE  /\ ReadIsSaved' /\ Selected' /\ Disclosed' /\ CrossChecked'
           /\ DisclosureMatchesSelection'
<1>1. ReadIsSaved' /\ Selected' /\ Disclosed'
  BY DEF ReadIsSaved, Selected, Disclosed
<1>2. CrossChecked'
  BY DEF BakeoffInv, CrossChecked
<1>3. DisclosureMatchesSelection'
  BY DEF BakeoffInv, DisclosureMatchesSelection
<1> QED BY <1>1, <1>2, <1>3

-----------------------------------------------------------------------------
LEMMA InitBakeoffInv == ASSUME SequentialAssumption, BakeoffInit PROVE BakeoffInv
<1>1. Types
  BY DEF SequentialAssumption, BakeoffInit, Types, GoldSets, Saved, Results, NoCommand
<1>2. GateFollows /\ CopiesMatch
  BY DEF BakeoffInit, GateFollows, CopiesMatch, NoCommand
<1>3. ReadIsSaved /\ Selected /\ Disclosed
  BY DEF BakeoffInit, ReadIsSaved, Selected, Disclosed, NoCommand
<1>4. CrossChecked /\ DisclosureMatchesSelection
  BY DEF BakeoffInit, CrossChecked, DisclosureMatchesSelection
<1> QED BY <1>1, <1>2, <1>3, <1>4 DEF BakeoffInv

LEMMA BeginScoreIInv == ASSUME SequentialAssumption, BakeoffInv, BeginScore PROVE BakeoffInv'
<1>1. PICK c \in Configs : BeginCommand([name |-> "score", config |-> c])
  BY DEF BeginScore
<1>2. /\ bakeoff' = [name |-> "score", config |-> c] /\ bakeoffRuns' = bakeoffRuns + 1
      /\ UNCHANGED <<gold, predictions, cached, gates, provenance, disclosure, crosscheck,
                     rescored>>
  BY <1>1 DEF BeginCommand, outputs
<1>3. bakeoff'.name = "score"
  BY <1>2
<1>4. Types'
  BY <1>2 DEF BakeoffInv, Types, ScoreCommand
<1>5. GateFollows' /\ CopiesMatch'
  BY <1>2, <1>3 DEF BakeoffInv, GateFollows, CopiesMatch
<1>6. ReadIsSaved' /\ Selected' /\ Disclosed'
  BY <1>3 DEF ReadIsSaved, Selected, Disclosed
<1>7. CrossChecked' /\ DisclosureMatchesSelection'
  BY <1>2, <1>3 DEF BakeoffInv, Types, CrossChecked, DisclosureMatchesSelection
<1> QED BY <1>4, <1>5, <1>6, <1>7 DEF BakeoffInv

LEMMA SavePredictionsIInv == ASSUME SequentialAssumption, BakeoffInv, SavePredictions PROVE BakeoffInv'
<1>1. bakeoff \in ScoreCommand
  BY CommandKinds DEF BakeoffInv, SavePredictions
<1> DEFINE c == bakeoff.config
<1>2. /\ c \in Configs /\ predictions' = [predictions EXCEPT ![c] = gold]
      /\ bakeoff' \in ScoreCommand /\ bakeoff'.name = "gate" /\ bakeoff'.config = c
  BY <1>1 DEF SavePredictions, ScoreCommand
<1>3. UNCHANGED <<gold, cached, gates, provenance, disclosure, crosscheck, bakeoffRuns>>
  BY DEF SavePredictions, outputs
<1>4. /\ rescored \subseteq rescored' /\ (cached[c] # None => c \in rescored')
  BY DEF SavePredictions
<1>5. Types'
  BY <1>2, <1>3 DEF BakeoffInv, Types, Saved
<1>6. GateFollows'
  BY <1>2, <1>3 DEF BakeoffInv, Types, GateFollows, SequentialAssumption
<1>7. CopiesMatch'
  BY <1>2, <1>3, <1>4 DEF BakeoffInv, Types, CopiesMatch
<1> QED BY <1>2, <1>3, <1>4, <1>5, <1>6, <1>7, OutputsKept DEF BakeoffInv

LEMMA SaveGateIInv == ASSUME SequentialAssumption, BakeoffInv, SaveGate PROVE BakeoffInv'
<1>1. bakeoff \in ScoreCommand
  BY CommandKinds DEF BakeoffInv, SaveGate
<1>2. PICK g \in {"passed", "failed"} : gates' = [gates EXCEPT ![bakeoff.config] = g]
  BY DEF SaveGate
<1>3. /\ bakeoff' = NoCommand /\ bakeoff'.name = "none"
      /\ UNCHANGED <<gold, predictions, cached, provenance, disclosure, crosscheck, bakeoffRuns, rescored>>
  BY DEF SaveGate, outputs, NoCommand
<1>4. Types'
  BY <1>1, <1>2, <1>3 DEF BakeoffInv, Types, ScoreCommand, Results
<1>5. predictions[bakeoff.config] # None
  BY DEF BakeoffInv, GateFollows, SaveGate
<1>6. GateFollows' /\ CopiesMatch'
  BY <1>1, <1>2, <1>3, <1>5 DEF BakeoffInv, Types, GateFollows, CopiesMatch, ScoreCommand
<1> QED BY <1>3, <1>4, <1>6, OutputsKept DEF BakeoffInv

LEMMA BeginBakeoffIInv == ASSUME SequentialAssumption, BakeoffInv, BeginBakeoff PROVE BakeoffInv'
<1>1. /\ bakeoff' = [name |-> "bakeoff", saved |-> predictions, gates |-> gates, scored |-> Scored]
      /\ bakeoffRuns' = bakeoffRuns + 1
      /\ UNCHANGED <<gold, predictions, cached, gates, provenance, disclosure, crosscheck,
                     rescored>>
      /\ \A c \in Configs : TornFile \notin {predictions[c], gates[c]}
  BY DEF BeginBakeoff, BeginCommand, outputs
<1>2. bakeoff'.name = "bakeoff"
  BY <1>1
<1>3. Types'
  <2>1. bakeoff' \in BakeoffCommand
    BY <1>1 DEF BakeoffInv, Types, BakeoffCommand, Scored
  <2> QED BY <1>1, <2>1 DEF BakeoffInv, Types
<1>4. GateFollows' /\ CopiesMatch'
  BY <1>1, <1>2 DEF BakeoffInv, GateFollows, CopiesMatch
<1>5. ReadIsSaved'
  BY <1>1 DEF ReadIsSaved, Scored
<1>6. Selected' /\ Disclosed'
  BY <1>2 DEF Selected, Disclosed
<1>7. CrossChecked' /\ DisclosureMatchesSelection'
  BY <1>1, <1>2 DEF BakeoffInv, Types, CrossChecked, DisclosureMatchesSelection
<1> QED BY <1>3, <1>4, <1>5, <1>6, <1>7 DEF BakeoffInv

\* What a bakeoff caches is what is saved, for a config not scored since.
LEMMA UsedIsSaved ==
    ASSUME SequentialAssumption, BakeoffInv, bakeoff.name = "bakeoff", NEW c \in Configs
    PROVE  /\ c \in bakeoff.scored => Used(c) \in GoldSets
           /\ c \in bakeoff.scored \ rescored => Used(c) = predictions[c]
<1>1. predictions[c] \in GoldSets \cup {None} /\ cached[c] \in GoldSets \cup {None}
  BY DEF BakeoffInv, Types, ReadIsSaved, Saved
<1>2. c \in bakeoff.scored => predictions[c] # None
  BY DEF BakeoffInv, ReadIsSaved, Scored
<1>3. predictions[c] # TornFile
  BY DEF BakeoffInv, ReadIsSaved
<1> QED BY <1>1, <1>2, <1>3 DEF Used, BakeoffInv, CopiesMatch

LEMMA SelectWinnerIInv == ASSUME SequentialAssumption, BakeoffInv, SelectWinner PROVE BakeoffInv'
<1>1. /\ bakeoff.name = "bakeoff" /\ bakeoff \in BakeoffCommand
      /\ cached' = [c \in Configs |-> IF c \in bakeoff.scored THEN Used(c) ELSE cached[c]]
      /\ UNCHANGED <<gold, predictions, gates, disclosure, crosscheck, bakeoffRuns, rescored>>
  BY CommandKinds DEF BakeoffInv, SelectWinner
<1>2. cached' \in [Configs -> GoldSets \cup {None}]
  BY <1>1, UsedIsSaved DEF BakeoffInv, Types
<1>3. CopiesMatch'
  <2> SUFFICES ASSUME NEW c \in Configs \ rescored, cached'[c] # None
               PROVE  predictions[c] \in {cached'[c], TornFile}
    BY <1>1 DEF CopiesMatch
  <2>1. CASE c \in bakeoff.scored
    BY <1>1, <2>1, UsedIsSaved
  <2>2. CASE c \notin bakeoff.scored
    BY <1>1, <2>2 DEF BakeoffInv, CopiesMatch
  <2> QED BY <2>1, <2>2
<1>4. CASE bakeoff' = NoCommand /\ UNCHANGED provenance
  <2>1. bakeoff'.name = "none"
    BY <1>4 DEF NoCommand
  <2>2. Types' /\ GateFollows'
    BY <1>1, <1>2, <1>4, <2>1 DEF BakeoffInv, Types, GateFollows
  <2> QED BY <1>1, <1>3, <1>4, <2>1, <2>2, OutputsKept DEF BakeoffInv
<1>5. ASSUME NEW winner \in bakeoff.scored \cup {None},
             provenance' = [run |-> bakeoffRuns, winner |-> winner, on |-> cached'],
             bakeoff' = [name |-> "disclose", saved |-> bakeoff.saved, gates |-> bakeoff.gates,
                         scored |-> bakeoff.scored, winner |-> winner]
      PROVE  BakeoffInv'
  <2>1. /\ bakeoff' \in SelectedCommand /\ bakeoff'.name = "disclose"
        /\ bakeoff'.scored = bakeoff.scored /\ bakeoff'.saved = bakeoff.saved
        /\ bakeoff'.gates = bakeoff.gates /\ bakeoff'.winner = winner
    BY <1>1, <1>5 DEF BakeoffCommand, SelectedCommand
  <2>2. Types'
    BY <1>1, <1>2, <2>1 DEF BakeoffInv, Types
  <2>3. GateFollows' /\ ReadIsSaved' /\ Disclosed'
    BY <1>1, <2>1 DEF BakeoffInv, GateFollows, ReadIsSaved, Disclosed
  <2>4. Selected'
    <3>1. \A c \in bakeoff.scored \ rescored : cached'[c] = bakeoff.saved[c]
      BY <1>1, UsedIsSaved DEF BakeoffInv, ReadIsSaved, BakeoffCommand
    <3>2. Keep' \subseteq bakeoff.scored
      BY <1>1, <2>1 DEF Keep, BakeoffInv, ReadIsSaved, Scored, GateFollows, SequentialAssumption
    <3> QED BY <1>1, <1>5, <2>1, <3>1, <3>2 DEF Selected
  <2>5. CrossChecked'
    BY <1>1, <2>1 DEF BakeoffInv, CrossChecked
  <2>6. DisclosureMatchesSelection'
    BY <1>1, <1>5 DEF BakeoffInv, Types, CrossChecked, DisclosureMatchesSelection
  <2> QED BY <1>3, <2>2, <2>3, <2>4, <2>5, <2>6 DEF BakeoffInv
<1> QED BY <1>4, <1>5 DEF SelectWinner

LEMMA DiscloseIInv == ASSUME SequentialAssumption, BakeoffInv, Disclose PROVE BakeoffInv'
<1>1. /\ bakeoff.name = "disclose" /\ bakeoff \in SelectedCommand
      /\ UNCHANGED <<gold, predictions, cached, gates, provenance, crosscheck, bakeoffRuns, rescored>>
  BY CommandKinds DEF BakeoffInv, Disclose
<1>2. /\ bakeoff' \in SelectedCommand /\ bakeoff'.name = "check"
      /\ bakeoff'.scored = bakeoff.scored /\ bakeoff'.saved = bakeoff.saved
      /\ bakeoff'.gates = bakeoff.gates /\ bakeoff'.winner = bakeoff.winner
  BY <1>1 DEF Disclose, SelectedCommand
<1>3. disclosure'.run = bakeoffRuns /\ disclosure'.keep = Keep
      /\ disclosure'.rates = {c \in Configs : bakeoff.gates[c] # None}
  BY DEF Disclose
<1>4. Types'
  BY <1>1, <1>2 DEF BakeoffInv, Types
<1>5. GateFollows' /\ CopiesMatch' /\ ReadIsSaved'
  BY <1>1, <1>2 DEF BakeoffInv, GateFollows, CopiesMatch, ReadIsSaved
<1>6. Selected'
  BY <1>1, <1>2 DEF BakeoffInv, Selected, Keep
<1>7. Disclosed'
  BY <1>1, <1>2, <1>3 DEF BakeoffInv, Selected, Disclosed, Keep, SequentialAssumption
<1>8. CrossChecked'
  BY <1>1, <1>2 DEF BakeoffInv, CrossChecked
<1>9. DisclosureMatchesSelection'
  BY <1>1 DEF BakeoffInv, Types, CrossChecked, Selected, DisclosureMatchesSelection
<1> QED BY <1>4, <1>5, <1>6, <1>7, <1>8, <1>9 DEF BakeoffInv

LEMMA CrossCheckIInv == ASSUME SequentialAssumption, BakeoffInv, CrossCheck PROVE BakeoffInv'
<1>1. /\ bakeoff.name = "check" /\ bakeoff \in SelectedCommand
      /\ UNCHANGED <<gold, predictions, cached, gates, provenance, disclosure, bakeoffRuns, rescored>>
      /\ bakeoff' = NoCommand /\ bakeoff'.name = "none"
  BY CommandKinds DEF BakeoffInv, CrossCheck, NoCommand
<1>2. /\ crosscheck'.run = bakeoffRuns /\ crosscheck'.winner = bakeoff.winner
      /\ crosscheck'.on = [c \in bakeoff.scored |-> bakeoff.saved[c]]
  BY DEF CrossCheck
<1>3. Types' /\ GateFollows' /\ CopiesMatch'
  BY <1>1 DEF BakeoffInv, Types, GateFollows, CopiesMatch
<1>4. ReadIsSaved' /\ Selected' /\ Disclosed'
  BY <1>1 DEF ReadIsSaved, Selected, Disclosed
<1>5. CrossChecked'
  BY <1>1, <1>2 DEF BakeoffInv, Types, CrossChecked
<1>6. DisclosureMatchesSelection'
  BY <1>1, <1>2 DEF BakeoffInv, Selected, Disclosed, DisclosureMatchesSelection
<1> QED BY <1>3, <1>4, <1>5, <1>6 DEF BakeoffInv

LEMMA SequentialDiesIInv == ASSUME SequentialAssumption, BakeoffInv, BakeoffDies PROVE BakeoffInv'
<1>1. /\ bakeoff' = NoCommand /\ bakeoff'.name = "none"
      /\ UNCHANGED <<gold, provenance, disclosure, crosscheck, bakeoffRuns, rescored>>
  BY DEF BakeoffDies, outputs, NoCommand
<1>2. CASE UNCHANGED <<predictions, cached, gates>>
  BY <1>1, <1>2, OutputsKept DEF BakeoffInv, Types, GateFollows, CopiesMatch
<1>3. CASE /\ bakeoff.name = "score" /\ UNCHANGED <<cached, gates>>
           /\ predictions' = [predictions EXCEPT ![bakeoff.config] = TornFile]
  <2>1. bakeoff.config \in Configs
    BY <1>3, CommandKinds DEF BakeoffInv, ScoreCommand
  <2>2. Types'
    BY <1>1, <1>3, <2>1 DEF BakeoffInv, Types, Saved
  <2>3. GateFollows' /\ CopiesMatch'
    BY <1>1, <1>3, <2>1 DEF BakeoffInv, Types, GateFollows, CopiesMatch, SequentialAssumption
  <2> QED BY <1>1, <2>2, <2>3, OutputsKept DEF BakeoffInv
<1>4. CASE /\ bakeoff.name = "gate" /\ UNCHANGED <<predictions, cached>>
           /\ gates' = [gates EXCEPT ![bakeoff.config] = TornFile]
  <2>1. bakeoff.config \in Configs
    BY <1>4, CommandKinds DEF BakeoffInv, ScoreCommand
  <2>2. Types'
    BY <1>1, <1>4, <2>1 DEF BakeoffInv, Types, Results
  <2>3. GateFollows' /\ CopiesMatch'
    BY <1>1, <1>4, <2>1 DEF BakeoffInv, Types, GateFollows, CopiesMatch
  <2> QED BY <1>1, <2>2, <2>3, OutputsKept DEF BakeoffInv
<1>5. ASSUME bakeoff.name = "bakeoff", UNCHANGED <<predictions, gates>>,
             NEW C \in SUBSET bakeoff.scored,
             cached' = [c \in Configs |-> IF c \in C THEN Used(c) ELSE cached[c]]
      PROVE  BakeoffInv'
  <2>1. Types'
    BY <1>1, <1>5, UsedIsSaved DEF BakeoffInv, Types
  <2>2. GateFollows'
    BY <1>1, <1>5 DEF BakeoffInv, GateFollows
  <2>3. ASSUME NEW c \in Configs \ rescored, cached'[c] # None
        PROVE  predictions[c] \in {cached'[c], TornFile}
    <3>1. CASE c \in C
      BY <1>5, <2>3, <3>1, UsedIsSaved
    <3>2. CASE c \notin C
      BY <1>5, <2>3, <3>2 DEF BakeoffInv, CopiesMatch
    <3> QED BY <3>1, <3>2
  <2>4. CopiesMatch'
    BY <1>1, <1>5, <2>3 DEF CopiesMatch
  <2> QED BY <1>1, <2>1, <2>2, <2>4, OutputsKept DEF BakeoffInv
<1> QED BY <1>2, <1>3, <1>4, <1>5 DEF BakeoffDies

LEMMA GrowIInv == ASSUME SequentialAssumption, BakeoffInv, Grow PROVE BakeoffInv'
<1>1. /\ bakeoff = NoCommand /\ bakeoff' = NoCommand /\ bakeoff'.name = "none"
      /\ gold' \in GoldSets
      /\ UNCHANGED <<predictions, cached, gates, provenance, disclosure, crosscheck, bakeoffRuns, rescored>>
  BY DEF Grow, outputs, NoCommand, BakeoffInv, Types, GoldSets, SequentialAssumption
<1>2. Types' /\ GateFollows' /\ CopiesMatch'
  BY <1>1 DEF BakeoffInv, Types, GateFollows, CopiesMatch
<1> QED BY <1>1, <1>2, OutputsKept DEF BakeoffInv

LEMMA NextBakeoffInv == ASSUME SequentialAssumption, BakeoffInv, [BakeoffNext]_sbvars PROVE BakeoffInv'
<1>1. CASE UNCHANGED sbvars
  BY <1>1 DEF sbvars, BakeoffInv, Types, GateFollows, CopiesMatch, ReadIsSaved, Scored, Selected, Keep,
              Disclosed, CrossChecked, DisclosureMatchesSelection
<1> QED
  BY <1>1, BeginScoreIInv, SavePredictionsIInv, SaveGateIInv, BeginBakeoffIInv, SelectWinnerIInv,
     DiscloseIInv, CrossCheckIInv, SequentialDiesIInv, GrowIInv DEF BakeoffNext

-----------------------------------------------------------------------------
\* The provenance, the disclosure and the cross-check that carry the run of one
\* bakeoff agree on the winner, on who took part and on the predictions,
\* whatever commands died and whatever was scored again in between:
\* run_bakeoff_sequential.py.
THEOREM OneStory ==
    ASSUME SequentialAssumption PROVE BakeoffSpec => []DisclosureMatchesSelection
<1>1. BakeoffInv => DisclosureMatchesSelection
  BY DEF BakeoffInv
<1> QED BY <1>1, InitBakeoffInv, NextBakeoffInv, PTL DEF BakeoffSpec

\* A gate result, torn or whole, is only ever there for a config that has
\* predictions: the disclosure keeps no config that was not scored.
THEOREM GateAfterPredictions ==
    ASSUME SequentialAssumption PROVE BakeoffSpec => []GateFollows
<1>1. BakeoffInv => GateFollows
  BY DEF BakeoffInv
<1> QED BY <1>1, InitBakeoffInv, NextBakeoffInv, PTL DEF BakeoffSpec


-----------------------------------------------------------------------------
(* The theorems about CalibrationFiles *)

(* The inductive invariant *)

Running == calibration # NoStage

\* What a command has left to write: batches, its output, its provenance.
Plan(w) ==
    /\ \E T : w \in Seq(T)
    /\ Len(w) >= 1 /\ w[Len(w)].to = "provenance"
    /\ Len(w) >= 2 => w[Len(w) - 1].to = "output"
    /\ \A k \in 1 .. Len(w) - 2 : w[k].to = "batches"

CalibrationShape ==
    /\ output = [s \in Stages |-> output[s]]
    /\ stageProvenance \in [Stages -> {"absent", "torn", "there"}]
    /\ Running =>
         /\ calibration = [stage |-> calibration.stage, content |-> calibration.content,
                       writes |-> calibration.writes]
         /\ calibration.stage \in Stages /\ Plan(calibration.writes)

\* Only the provenance is left to write when the output is there.
OutputFirst == Running /\ Len(calibration.writes) = 1 => output[calibration.stage] # Absent

\* A running command has the stages before it behind it, and so has every
\* stage with a provenance.
Behind(s) == \A r \in 1 .. s - 1 : stageProvenance[r] # "absent"
Chained ==
    /\ Running => Behind(calibration.stage)
    /\ \A s \in Stages : stageProvenance[s] = "there" => output[s] # Absent /\ Behind(s)

\* A tally counts batches of its own rubric and manifest, wherever it is.
OneLock(tally) ==
    \A k \in DOMAIN tally.counted :
      tally.counted[k].rubric = tally.rubric /\ tally.counted[k].lock = tally.lock
TalliesOfOneLock ==
    /\ Readable(Tally) => OneLock(output[Tally].content)
    /\ Readable(Calibrate) => OneLock(output[Calibrate].content.from)
    /\ Running /\ calibration.stage = Tally => OneLock(calibration.content)
    /\ Running /\ calibration.stage = Calibrate => OneLock(calibration.content.from)

CalibrationInv == CalibrationShape /\ OutputFirst /\ Chained /\ TalliesOfOneLock

LEMMA StageNumbers ==
    /\ Stages = 1 .. 6 /\ Classify = 1 /\ Sample = 2 /\ Generate = 3 /\ Tally = 4
    /\ Calibrate = 5 /\ CvStability = 6
BY DEF Stages, Classify, Sample, Generate, Tally, Calibrate, CvStability

-----------------------------------------------------------------------------
LEMMA InitCalibrationInv == CalibrationInit => CalibrationInv
<1> SUFFICES ASSUME CalibrationInit PROVE CalibrationInv
  OBVIOUS
<1>1. ~Running /\ \A s \in Stages : output[s] = Absent /\ ~Readable(s)
  BY DEF CalibrationInit, Running, Readable, Absent
<1>2. CalibrationShape
  BY <1>1 DEF CalibrationInit, CalibrationShape
<1>3. OutputFirst /\ Chained
  BY <1>1 DEF CalibrationInit, OutputFirst, Chained
<1>4. TalliesOfOneLock
  BY <1>1, StageNumbers DEF TalliesOfOneLock
<1> QED BY <1>2, <1>3, <1>4 DEF CalibrationInv

\* Batches followed by the output and the provenance are a plan.
LEMMA PlanOfBatches ==
    ASSUME NEW T, NEW w \in Seq(T), \A k \in 1 .. Len(w) : w[k].to = "batches"
    PROVE  Plan(w \o <<[to |-> "output"], [to |-> "provenance"]>>)
<1> DEFINE tail == <<[to |-> "output"], [to |-> "provenance"]>>
<1> DEFINE U == T \cup {[to |-> "output"], [to |-> "provenance"]}
<1>1. w \in Seq(U) /\ tail \in Seq(U)
  OBVIOUS
<1>2. w \o tail \in Seq(U) /\ Len(w \o tail) = Len(w) + 2 /\ Len(w) \in Nat
  BY <1>1
<1>3. /\ \A k \in 1 .. Len(w) : (w \o tail)[k] = w[k]
      /\ (w \o tail)[Len(w) + 1] = [to |-> "output"]
      /\ (w \o tail)[Len(w) + 2] = [to |-> "provenance"]
  BY <1>1
<1> QED BY <1>2, <1>3 DEF Plan

\* A command that begins.
LEMMA BeginIInv ==
    ASSUME CalibrationInv, NEW s \in Stages, NEW content, NEW T, NEW w \in Seq(T),
           \A k \in 1 .. Len(w) : w[k].to = "batches",
           BeginStage(s, w, content),
           s = Tally => OneLock(content), s = Calibrate => OneLock(content.from)
    PROVE  CalibrationInv'
<1> DEFINE plan == w \o <<[to |-> "output"], [to |-> "provenance"]>>
<1>1. /\ calibration' = [stage |-> s, content |-> content, writes |-> plan]
      /\ s > Classify => stageProvenance[s - 1] = "there"
      /\ UNCHANGED <<output, stageProvenance>>
  BY DEF BeginStage, files
<1>2. calibration'.stage = s /\ calibration'.content = content /\ calibration'.writes = plan
  BY <1>1
<1>3. Plan(plan)
  BY PlanOfBatches
<1>4. CalibrationShape'
  BY <1>1, <1>2, <1>3 DEF CalibrationInv, CalibrationShape, Plan
<1>5. Len(plan) # 1
  <2>1. Len(w) \in Nat /\ Len(plan) = Len(w) + 2
    OBVIOUS
  <2> QED BY <2>1
<1>6. OutputFirst'
  BY <1>2, <1>5 DEF OutputFirst
<1>7. Behind(s)
  <2>1. CASE s = 1
    BY <2>1 DEF Behind
  <2>2. CASE s > 1
    <3>1. s - 1 \in Stages /\ stageProvenance[s - 1] = "there"
      BY <1>1, <2>2, StageNumbers
    <3>2. Behind(s - 1)
      BY <3>1 DEF CalibrationInv, Chained
    <3>3. \A r \in 1 .. s - 1 : r = s - 1 \/ r \in 1 .. (s - 1) - 1
      BY StageNumbers
    <3> QED BY <3>1, <3>2, <3>3 DEF Behind
  <2> QED BY <2>1, <2>2, StageNumbers
<1>8. Chained'
  BY <1>1, <1>2, <1>7 DEF CalibrationInv, Chained, Behind
<1>9. TalliesOfOneLock'
  BY <1>1, <1>2 DEF CalibrationInv, TalliesOfOneLock, Readable, OneLock
<1> QED BY <1>4, <1>6, <1>8, <1>9 DEF CalibrationInv

\* The batches drawn are written before the output.
LEMMA DrawnAreBatches ==
    ASSUME NEW c
    PROVE  \E T : Drawn(c) \in Seq(T) /\ \A k \in 1 .. Len(Drawn(c)) : Drawn(c)[k].to = "batches"
<1> DEFINE one(frame, pool) ==
      [to |-> "batches", batch |-> Gold!Batch(frame, Entry, Stratum, pool, rubric, manifest)]
<1> DEFINE p == one("precision", Labelled[c.rubric])
<1> DEFINE r == one("recall", SnapshotIncidents)
<1>1. p.to = "batches" /\ r.to = "batches"
  OBVIOUS
<1>2. Drawn(c) = (IF Labelled[c.rubric] = {} THEN <<>> ELSE <<p>>) \o <<r>>
  BY DEF Drawn
<1> HIDE DEF p, r
<1> DEFINE T == {p, r}
<1>3. <<>> \in Seq(T) /\ <<p>> \in Seq(T) /\ <<r>> \in Seq(T)
  OBVIOUS
<1>4. ASSUME NEW w \in Seq(T) PROVE w \o <<r>> \in Seq(T)
  BY <1>3, <1>4
<1>5. Drawn(c) \in Seq(T)
  BY <1>2, <1>3, <1>4
<1>6. \A k \in 1 .. Len(Drawn(c)) : Drawn(c)[k] \in T
  BY <1>5
<1>7. \A x \in T : x.to = "batches"
  BY <1>1
<1> QED BY <1>5, <1>6, <1>7

\* A command that writes no batch.
LEMMA BeginPlainIInv ==
    ASSUME CalibrationInv, NEW s \in Stages, NEW content, BeginStage(s, <<>>, content),
           s = Tally => OneLock(content), s = Calibrate => OneLock(content.from)
    PROVE  CalibrationInv'
<1>1. <<>> \in Seq({}) /\ \A k \in 1 .. Len(<<>>) : <<>>[k].to = "batches"
  OBVIOUS
<1> QED BY <1>1, BeginIInv

LEMMA CommandsIInv ==
    ASSUME CalibrationInv,
           \/ CalClassify \/ CalSample \/ CalGenerateBatches
           \/ CalTally \/ CalCalibrate \/ CalCvStability
    PROVE  CalibrationInv'
<1>1. CASE CalClassify
  BY <1>1, BeginPlainIInv, StageNumbers DEF CalClassify
<1>2. CASE CalSample
  BY <1>2, BeginPlainIInv, StageNumbers DEF CalSample
<1>3. CASE CalGenerateBatches
  <2>1. PICK T : /\ Drawn(output[Classify].content) \in Seq(T)
                 /\ \A k \in 1 .. Len(Drawn(output[Classify].content)) :
                      Drawn(output[Classify].content)[k].to = "batches"
    BY DrawnAreBatches
  <2> QED BY <1>3, <2>1, BeginIInv, StageNumbers DEF CalGenerateBatches
<1>4. CASE CalTally
  <2> DEFINE content == [rubric |-> rubric, lock |-> manifest, counted |-> batches]
  <2>1. OneLock(content)
    BY <1>4 DEF CalTally, BatchesValid, Gold!BatchValid, OneLock
  <2>2. BeginStage(Tally, <<>>, content)
    BY <1>4 DEF CalTally
  <2> HIDE DEF content
  <2> QED BY <2>1, <2>2, BeginPlainIInv, StageNumbers
<1>5. CASE CalCalibrate
  <2> DEFINE content == [from |-> output[Tally].content, entries |-> rubric]
  <2>1. OneLock(content.from)
    BY <1>5 DEF CalCalibrate, CalibrationInv, TalliesOfOneLock
  <2>2. BeginStage(Calibrate, <<>>, content)
    BY <1>5 DEF CalCalibrate
  <2> HIDE DEF content
  <2> QED BY <2>1, <2>2, BeginPlainIInv, StageNumbers
<1>6. CASE CalCvStability
  BY <1>6, BeginPlainIInv, StageNumbers DEF CalCvStability
<1> QED BY <1>1, <1>2, <1>3, <1>4, <1>5, <1>6

-----------------------------------------------------------------------------
\* The next write of a plan, and what is left after it.
LEMMA PlanHead ==
    ASSUME NEW w, Plan(w)
    PROVE  /\ Len(w) = 1 => Head(w).to = "provenance"
           /\ Len(w) = 2 => Head(w).to = "output"
           /\ Len(w) > 2 => Head(w).to = "batches"
           /\ Len(w) # 1 => Plan(Tail(w)) /\ Len(Tail(w)) = Len(w) - 1
           /\ Len(w) \in Nat \ {0}
<1>1. PICK T : w \in Seq(T)
  BY DEF Plan
<1>2. Len(w) \in Nat \ {0} /\ Head(w) = w[1]
  BY <1>1 DEF Plan
<1>3. /\ Len(w) = 1 => Head(w).to = "provenance"
      /\ Len(w) = 2 => Head(w).to = "output"
      /\ Len(w) > 2 => Head(w).to = "batches"
  <2>1. CASE Len(w) = 1
    BY <1>2, <2>1 DEF Plan
  <2>2. CASE Len(w) = 2
    BY <1>2, <2>2 DEF Plan
  <2>3. CASE Len(w) > 2
    <3>1. 1 \in 1 .. Len(w) - 2
      BY <1>2, <2>3
    <3> QED BY <1>2, <2>3, <3>1 DEF Plan
  <2> QED BY <1>2, <2>1, <2>2, <2>3
<1>4. ASSUME Len(w) # 1 PROVE Plan(Tail(w)) /\ Len(Tail(w)) = Len(w) - 1
  <2>1. /\ Tail(w) \in Seq(T) /\ Len(Tail(w)) = Len(w) - 1
        /\ \A k \in 1 .. Len(w) - 1 : Tail(w)[k] = w[k + 1]
    BY <1>1, <1>2, <1>4
  <2>2. Tail(w)[Len(Tail(w))].to = "provenance" /\ Len(Tail(w)) >= 1
    BY <1>2, <1>4, <2>1 DEF Plan
  <2>3. Len(Tail(w)) >= 2 => Tail(w)[Len(Tail(w)) - 1].to = "output"
    BY <1>2, <1>4, <2>1 DEF Plan
  <2>4. \A k \in 1 .. Len(Tail(w)) - 2 : Tail(w)[k].to = "batches"
    BY <1>2, <1>4, <2>1 DEF Plan
  <2> QED BY <2>1, <2>2, <2>3, <2>4 DEF Plan
<1> QED BY <1>2, <1>3, <1>4

LEMMA WriteIInv == ASSUME CalibrationInv, Write PROVE CalibrationInv'
<1> DEFINE s == calibration.stage
<1> DEFINE w == calibration.writes
<1>1. /\ Running /\ s \in Stages /\ Plan(w)
      /\ calibration = [stage |-> s, content |-> calibration.content, writes |-> w]
  BY DEF Write, Running, CalibrationInv, CalibrationShape
<1>2. CASE Len(w) = 1
  <2>1. calibration' = NoStage /\ ~Running'
    BY <1>2 DEF Write, Running
  <2>2. NextWrite.to = "provenance"
    BY <1>1, <1>2, PlanHead DEF NextWrite
  <2>3. stageProvenance' = [stageProvenance EXCEPT ![s] = "there"] /\ UNCHANGED output
    BY <2>2 DEF Write, WriteOutput, WriteBatch, WriteProvenance
  <2>4. CalibrationShape' /\ OutputFirst'
    BY <1>1, <2>1, <2>3 DEF CalibrationInv, CalibrationShape, OutputFirst
  <2>5. Chained'
    BY <1>1, <1>2, <2>1, <2>3, StageNumbers DEF CalibrationInv, CalibrationShape, OutputFirst, Chained, Behind
  <2>6. TalliesOfOneLock'
    BY <2>1, <2>3 DEF CalibrationInv, TalliesOfOneLock, Readable, OneLock
  <2> QED BY <2>4, <2>5, <2>6 DEF CalibrationInv
<1>3. CASE Len(w) # 1
  <2>1. /\ calibration' = [stage |-> s, content |-> calibration.content, writes |-> Tail(w)]
        /\ calibration' = [calibration EXCEPT !.writes = Tail(w)]
    BY <1>1, <1>3 DEF Write
  <2>2. calibration'.stage = s /\ calibration'.content = calibration.content /\ calibration'.writes = Tail(w)
    BY <2>1
  <2>3. Plan(Tail(w)) /\ Len(Tail(w)) = Len(w) - 1 /\ Len(w) \in Nat \ {0}
    BY <1>1, <1>3, PlanHead
  <2>4. CASE Len(w) = 2
    <3>1. NextWrite.to = "output"
      BY <1>1, <2>4, PlanHead DEF NextWrite
    <3>2. output' = [output EXCEPT ![s] = There(calibration.content)] /\ UNCHANGED stageProvenance
      BY <3>1 DEF Write, WriteOutput, WriteBatch, WriteProvenance
    <3>3. /\ output'[s] = There(calibration.content) /\ output'[s] # Absent
          /\ \A r \in Stages : r # s => output'[r] = output[r]
      BY <1>1, <3>2 DEF CalibrationInv, CalibrationShape, There, Absent
    <3>4. CalibrationShape'
      BY <1>1, <2>1, <2>2, <2>3, <3>2 DEF CalibrationInv, CalibrationShape, Plan
    <3>5. OutputFirst'
      BY <2>2, <3>3 DEF OutputFirst
    <3>6. Chained'
      BY <1>1, <2>2, <3>2, <3>3 DEF CalibrationInv, Chained, Behind
    <3>7. TalliesOfOneLock'
      <4>1. Running' => Running
        BY <1>1
      <4>2. /\ Tally \in Stages /\ Calibrate \in Stages
        BY StageNumbers
      <4>3. \A r \in Stages : r # s => output'[r] = output[r] /\ (Readable(r)' <=> Readable(r))
        BY <3>3 DEF Readable
      <4>4. output'[s].content = calibration.content
        BY <3>3 DEF There
      <4>5. Readable(Tally)' => OneLock(output[Tally].content)'
        BY <1>1, <4>2, <4>3, <4>4 DEF CalibrationInv, TalliesOfOneLock, OneLock
      <4>6. Readable(Calibrate)' => OneLock(output[Calibrate].content.from)'
        BY <1>1, <4>2, <4>3, <4>4 DEF CalibrationInv, TalliesOfOneLock, OneLock
      <4> QED BY <1>1, <2>2, <4>5, <4>6 DEF CalibrationInv, TalliesOfOneLock, OneLock
    <3> QED BY <3>4, <3>5, <3>6, <3>7 DEF CalibrationInv
  <2>5. CASE Len(w) > 2
    <3>1. NextWrite.to = "batches"
      BY <1>1, <2>5, PlanHead DEF NextWrite
    <3>2. UNCHANGED <<output, stageProvenance>>
      BY <3>1 DEF Write, WriteOutput, WriteBatch, WriteProvenance
    <3>3. CalibrationShape'
      BY <1>1, <2>1, <2>2, <2>3, <3>2 DEF CalibrationInv, CalibrationShape, Plan
    <3>4. OutputFirst'
      <4> DEFINE n == Len(w)
      <4>1. n \in Nat /\ n > 2
        BY <2>3, <2>5
      <4> HIDE DEF n
      <4>2. n - 1 # 1
        BY <4>1
      <4>3. Len(calibration'.writes) = n - 1
        BY <2>2, <2>3 DEF n
      <4> QED BY <4>2, <4>3 DEF OutputFirst
    <3>5. Chained'
      BY <1>1, <2>2, <3>2 DEF CalibrationInv, Chained, Behind
    <3>6. TalliesOfOneLock'
      BY <1>1, <2>2, <3>2 DEF CalibrationInv, TalliesOfOneLock, Readable, OneLock
    <3> QED BY <3>3, <3>4, <3>5, <3>6 DEF CalibrationInv
  <2>6. Len(w) = 2 \/ Len(w) > 2
    <3> DEFINE n == Len(w)
    <3>1. n \in Nat \ {0} /\ n # 1
      BY <1>3, <2>3
    <3> HIDE DEF n
    <3>2. n = 2 \/ n > 2
      BY <3>1
    <3> QED BY <3>2 DEF n
  <2> QED BY <2>4, <2>5, <2>6
<1> QED BY <1>2, <1>3

LEMMA StageDiesIInv == ASSUME CalibrationInv, StageDies PROVE CalibrationInv'
<1>1. /\ calibration.stage \in Stages /\ calibration' = NoStage /\ ~Running'
  BY DEF StageDies, Running, CalibrationInv, CalibrationShape
<1>2. ASSUME UNCHANGED <<output, stageProvenance>> PROVE CalibrationInv'
  BY <1>1, <1>2 DEF CalibrationInv, CalibrationShape, OutputFirst, Chained, Behind, TalliesOfOneLock, Readable, OneLock
<1>3. ASSUME UNCHANGED stageProvenance, output' = [output EXCEPT ![calibration.stage] = Torn] PROVE CalibrationInv'
  <2>1. \A r \in Stages : output'[r] = output[r] \/ output'[r] = Torn
    BY <1>1, <1>3 DEF CalibrationInv, CalibrationShape
  <2>2. Torn # Absent /\ Torn.is # "there"
    BY DEF Torn, Absent
  <2>3. CalibrationShape' /\ OutputFirst'
    BY <1>1, <1>3 DEF CalibrationInv, CalibrationShape, OutputFirst
  <2>4. Chained'
    BY <1>1, <1>3, <2>1, <2>2 DEF CalibrationInv, Chained, Behind
  <2>5. TalliesOfOneLock'
    BY <1>1, <2>1, <2>2, StageNumbers DEF CalibrationInv, TalliesOfOneLock, Readable, OneLock
  <2> QED BY <2>3, <2>4, <2>5 DEF CalibrationInv
<1>4. ASSUME UNCHANGED output, stageProvenance' = [stageProvenance EXCEPT ![calibration.stage] = "torn"]
      PROVE  CalibrationInv'
  <2>1. CalibrationShape' /\ OutputFirst'
    BY <1>1, <1>4 DEF CalibrationInv, CalibrationShape, OutputFirst
  <2>2. Chained'
    BY <1>1, <1>4, StageNumbers DEF CalibrationInv, CalibrationShape, Chained, Behind
  <2>3. TalliesOfOneLock'
    BY <1>1, <1>4 DEF CalibrationInv, TalliesOfOneLock, Readable, OneLock
  <2> QED BY <2>1, <2>2, <2>3 DEF CalibrationInv
<1> QED BY <1>2, <1>3, <1>4 DEF StageDies

\* Coding and edits touch no output and no provenance, and run between commands.
LEMMA OthersIInv == ASSUME CalibrationInv, Code \/ EditRubric \/ Repin \/ UNCHANGED cfvars PROVE CalibrationInv'
<1>1. UNCHANGED <<output, stageProvenance, calibration>>
  BY DEF Code, EditRubric, Repin, cfvars, files
<1>2. Running' = Running
  BY <1>1 DEF Running
<1> QED
  BY <1>1, <1>2
  DEF CalibrationInv, CalibrationShape, OutputFirst, Chained, Behind, TalliesOfOneLock, Readable, OneLock, Plan

LEMMA NextCalibrationInv == CalibrationInv /\ [CalibrationNext]_cfvars => CalibrationInv'
BY CommandsIInv, WriteIInv, StageDiesIInv, OthersIInv DEF CalibrationNext

-----------------------------------------------------------------------------
\* A provenance vouches for its output and for the stages before it, and the
\* posteriors count batches of the rubric and the manifest of their tally only,
\* whatever died, was edited or was coded in between: cli/calibration.py.
THEOREM ChainHolds == CalibrationSpec => []PosteriorsStandOnTheirChain
<1>1. CalibrationInv => PosteriorsStandOnTheirChain
  BY DEF CalibrationInv, Chained, Behind, TalliesOfOneLock, OneLock, PosteriorsStandOnTheirChain
<1> QED BY <1>1, InitCalibrationInv, NextCalibrationInv, PTL DEF CalibrationSpec

\* Every tally, stored or about to be, counts batches of one rubric and one
\* manifest: calibration.py cal_tally and cal_calibrate.
THEOREM TalliesAreOfOneLock == CalibrationSpec => []TalliesOfOneLock
<1>1. CalibrationInv => TalliesOfOneLock
  BY DEF CalibrationInv
<1> QED BY <1>1, InitCalibrationInv, NextCalibrationInv, PTL DEF CalibrationSpec

-----------------------------------------------------------------------------
(* The theorems about BaselineTree *)

(* The inductive invariant *)

\* A source has no more versions than there were edits.
Counted ==
    /\ source \in [Sources -> Nat] /\ \A s \in Sources : source[s] <= edits
    /\ edits \in 0 .. MaxEdits /\ freezes \in 0 .. MaxFreezes
    /\ at \in 0 .. Provenance + 1
    /\ tree = [f \in Files |-> tree[f]]

\* While the command runs, what it has written is made from the sources as they
\* are; past the pin the figures are theirs as well.
WrittenByThisFreeze ==
    at # 0 =>
      /\ freezes >= 1
      /\ \A f \in Files : f < at => tree[f] = Made(f)
      /\ at > Rankings => Figures[concordance] = Figures[source]

\* Digests that list all files are the digests of one freeze.
SumsOfOneFreeze ==
    sums # NoFile /\ DOMAIN sums = Files =>
      \E v \in Versions, n \in 1 .. MaxFreezes :
        \A f \in Files : sums[f] = Content(f, v, Figures[v], n)

FreezeInv == Counted /\ WrittenByThisFreeze /\ SumsOfOneFreeze

LEMMA SourceIsVersion == ASSUME BaselineAssumption, Counted PROVE source \in Versions
BY DEF BaselineAssumption, Counted, Versions

-----------------------------------------------------------------------------
LEMMA InitFreezeInv == ASSUME BaselineAssumption, FreezeInit PROVE FreezeInv
<1>1. Counted
  BY DEF BaselineAssumption, FreezeInit, Counted, Provenance
<1>2. WrittenByThisFreeze /\ SumsOfOneFreeze
  BY DEF FreezeInit, WrittenByThisFreeze, SumsOfOneFreeze
<1> QED BY <1>1, <1>2 DEF FreezeInv

\* Digests written after the last file, of all files or some, are of this freeze.
LEMMA SumsAtTheEnd ==
    ASSUME BaselineAssumption, FreezeInv, at = Provenance + 1, NEW lines \in SUBSET Files,
           sums' = [f \in lines |-> tree[f]]
    PROVE  SumsOfOneFreeze'
<1> SUFFICES ASSUME DOMAIN sums' = Files
             PROVE  \E v \in Versions, n \in 1 .. MaxFreezes :
                      \A f \in Files : sums'[f] = Content(f, v, Figures[v], n)
  BY DEF SumsOfOneFreeze, Versions, Content, MadeFrom
<1>1. source \in Versions
  BY SourceIsVersion DEF FreezeInv
<1>2. freezes \in 1 .. MaxFreezes
  BY DEF FreezeInv, Counted, WrittenByThisFreeze, Provenance, BaselineAssumption
<1>3. Figures[concordance] = Figures[source]
  BY DEF FreezeInv, WrittenByThisFreeze, Rankings, Provenance
<1>4. lines = Files
  OBVIOUS
<1>5. ASSUME NEW f \in Files PROVE sums'[f] = Content(f, source, Figures[source], freezes)
  <2>1. f < at
    BY DEF Files, Respondents, Provenance
  <2>2. tree[f] = Made(f)
    BY <2>1 DEF FreezeInv, WrittenByThisFreeze, Provenance
  <2> QED BY <2>2, <1>3, <1>4 DEF Made
<1> QED BY <1>1, <1>2, <1>5

LEMMA NextFreezeInv == ASSUME BaselineAssumption, FreezeInv, [FreezeNext]_btvars PROVE FreezeInv'
<1> USE DEF FreezeInv
<1>1. ASSUME NEW force \in BOOLEAN, StartFreeze(force) PROVE FreezeInv'
  <2>1. Counted'
    BY <1>1 DEF StartFreeze, Counted, Respondents, Provenance, BaselineAssumption
  <2>2. WrittenByThisFreeze'
    BY <1>1 DEF StartFreeze, Counted, WrittenByThisFreeze, Files, Respondents, Provenance, Rankings
  <2>3. SumsOfOneFreeze'
    BY <1>1 DEF StartFreeze, SumsOfOneFreeze
  <2> QED BY <2>1, <2>2, <2>3
<1>2. CASE WriteFile
  <2>1. Counted'
    <3>1. at' \in 0 .. Provenance + 1
      BY <1>2 DEF WriteFile, Files, Respondents, Provenance
    <3>2. tree' = [f \in Files |-> tree'[f]]
      BY <1>2 DEF WriteFile, Counted
    <3> QED BY <1>2, <3>1, <3>2 DEF WriteFile, Counted
  <2>2. ASSUME NEW f \in Files, f < at' PROVE tree'[f] = Made(f)'
    <3>1. Made(f)' = Made(f)
      BY <1>2 DEF WriteFile, Made, Content
    <3>2. CASE f = at
      BY <1>2, <3>1, <3>2 DEF WriteFile, Counted
    <3>3. CASE f # at
      <4>1. f < at
        BY <1>2, <2>2, <3>3 DEF WriteFile, Files, Respondents, Provenance
      <4> QED BY <1>2, <3>1, <3>3, <4>1 DEF WriteFile, Counted, WrittenByThisFreeze, Files,
                 Respondents
    <3> QED BY <3>2, <3>3
  <2>3. freezes' >= 1 /\ (at' > Rankings => Figures[concordance'] = Figures[source'])
    BY <1>2 DEF WriteFile, WrittenByThisFreeze, Files, Respondents, Rankings, Provenance, Pinned
  <2>4. SumsOfOneFreeze'
    BY <1>2 DEF WriteFile, SumsOfOneFreeze
  <2> QED BY <2>1, <2>2, <2>3, <2>4 DEF WrittenByThisFreeze
<1>3. CASE PinFails
  BY <1>3 DEF PinFails, Counted, WrittenByThisFreeze, SumsOfOneFreeze, Provenance
<1>4. CASE WriteSums
  <2>1. Counted' /\ WrittenByThisFreeze'
    BY <1>4 DEF WriteSums, Counted, WrittenByThisFreeze, Provenance
  <2>2. SumsOfOneFreeze'
    BY <1>4, SumsAtTheEnd DEF WriteSums, Listed
  <2> QED BY <2>1, <2>2
<1>5. CASE FreezeDies
  <2>1. Counted' /\ WrittenByThisFreeze'
    BY <1>5 DEF FreezeDies, Counted, WrittenByThisFreeze, Provenance
  <2>2. ASSUME sums' = sums PROVE SumsOfOneFreeze'
    BY <2>2 DEF SumsOfOneFreeze
  <2>3. ASSUME at = Provenance + 1, NEW lines \in SUBSET Listed,
               sums' = [f \in lines |-> tree[f]]
        PROVE  SumsOfOneFreeze'
    BY <2>3, SumsAtTheEnd DEF Listed
  <2> QED BY <1>5, <2>1, <2>2, <2>3 DEF FreezeDies
<1>6. CASE ChangeSource
  <2>1. at = 0 /\ at' = 0
    BY <1>6 DEF ChangeSource, Edit
  <2>2. Counted'
    BY <1>6, <2>1 DEF ChangeSource, Edit, Counted, Provenance, BaselineAssumption
  <2>3. SumsOfOneFreeze'
    BY <1>6 DEF ChangeSource, SumsOfOneFreeze
  <2> QED BY <2>1, <2>2, <2>3 DEF WrittenByThisFreeze
<1>7. CASE Decide
  BY <1>7 DEF Decide, Counted, WrittenByThisFreeze, SumsOfOneFreeze
<1>8. CASE Tamper
  <2>1. at = 0 /\ at' = 0
    BY <1>8 DEF Tamper, Edit
  <2>2. Counted'
    BY <1>8, <2>1 DEF Tamper, Edit, Counted, Provenance, BaselineAssumption
  <2>3. SumsOfOneFreeze'
    BY <1>8 DEF Tamper, SumsOfOneFreeze
  <2> QED BY <2>1, <2>2, <2>3 DEF WrittenByThisFreeze
<1>9. CASE UNCHANGED btvars
  BY <1>9 DEF btvars, Counted, WrittenByThisFreeze, SumsOfOneFreeze, Made, Content
<1> QED BY <1>1, <1>2, <1>3, <1>4, <1>5, <1>6, <1>7, <1>8, <1>9 DEF FreezeNext

-----------------------------------------------------------------------------
\* A tree with the digests of all files that a start accepts without --force is
\* of a single freeze, however many freezes, crashes, edits of the sources and
\* edits by hand came before: freeze_baselines.py and baselines/freeze.py.
THEOREM AcceptedTree ==
    ASSUME BaselineAssumption PROVE FreezeSpec => []AcceptedTreeIsOneFreeze
<1>1. FreezeInv => AcceptedTreeIsOneFreeze
  <2> SUFFICES ASSUME FreezeInv, sums # NoFile, DOMAIN sums = Files, Accepted
               PROVE  \E v \in Versions : \A f \in Files : tree[f] # NoFile =>
                        tree[f] \in {Content(f, v, Figures[v], n) : n \in 1 .. MaxFreezes}
    BY DEF AcceptedTreeIsOneFreeze
  <2>1. PICK v \in Versions, n \in 1 .. MaxFreezes :
          \A f \in Files : sums[f] = Content(f, v, Figures[v], n)
    BY DEF FreezeInv, SumsOfOneFreeze
  <2>2. \A f \in Files : tree[f] # NoFile => tree[f] = Content(f, v, Figures[v], n)
    BY <2>1 DEF Accepted, Tampered
  <2> QED BY <2>1, <2>2
<1> QED BY <1>1, InitFreezeInv, NextFreezeInv, PTL DEF FreezeSpec

\* The digests alone say as much: whenever they list all files they are those
\* of one freeze, also while the next one runs: freeze.py _write_sha256sums.
THEOREM DigestsOfOneFreeze ==
    ASSUME BaselineAssumption PROVE FreezeSpec => []SumsOfOneFreeze
<1>1. FreezeInv => SumsOfOneFreeze
  BY DEF FreezeInv
<1> QED BY <1>1, InitFreezeInv, NextFreezeInv, PTL DEF FreezeSpec

=============================================================================
