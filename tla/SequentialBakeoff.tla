-------------------------- MODULE SequentialBakeoff --------------------------
(***************************************************************************)
(* The tool run_bakeoff_sequential (src/tools): "score" asks one model     *)
(* about the gold set and then puts it through the injection gate, one pod *)
(* after the other; "bakeoff" selects a winner from what was saved, and    *)
(* discloses what the gate, which is advisory here, would have excluded.   *)
(* The calls and checkpoints of one sweep are in BakeoffSweep, the choice  *)
(* of the winner is in BakeoffScoring.                                     *)
(***************************************************************************)
EXTENDS Naturals, FiniteSets

CONSTANTS
    Configs,        \* configs of the locked grid
    None,           \* no winner, no prediction or a missing file
    TornFile,       \* a file of which only a part was written
    MaxGrowth,      \* bound: times the gold set grows
    MaxBakeoffRuns  \* bound: commands

\* A gold set is numbered by how often it grew; predictions are known by the
\* gold set they were made for, which they cover with all earlier ones.
GoldSets == 0 .. MaxGrowth

SequentialAssumption ==
    /\ IsFiniteSet(Configs) /\ None \notin Configs
    /\ MaxGrowth \in Nat /\ MaxBakeoffRuns \in Nat
    /\ None # TornFile /\ None \notin GoldSets /\ TornFile \notin GoldSets
    /\ None \notin {"passed", "failed"}

VARIABLES
    gold,           \* the adjudicated gold set
    predictions,    \* predictions_<config>.json
    cached,         \* ckpt/<config>.json, the copy the first bakeoff makes
    gates,          \* gate_<config>.json
    provenance,     \* classify_provenance.json: what the winner was selected on
    disclosure,     \* gate_advisory_disclosure.json
    crosscheck,     \* bakeoff_crosscheck.json
    bakeoff,        \* the command under way, with what it has read
    bakeoffRuns,
    rescored        \* history: configs scored again after a bakeoff cached them

sbvars == <<gold, predictions, cached, gates, provenance, disclosure, crosscheck,
            bakeoff, bakeoffRuns, rescored>>
outputs == <<provenance, disclosure, crosscheck>>

NoCommand == [name |-> "none"]
Saved == GoldSets \cup {None, TornFile}

BakeoffTypeOK ==
    /\ gold \in GoldSets
    /\ predictions \in [Configs -> Saved] /\ cached \in [Configs -> GoldSets \cup {None}]
    /\ gates \in [Configs -> {"passed", "failed", None, TornFile}]
    /\ bakeoff.name \in {"none", "score", "gate", "bakeoff", "disclose", "check"}
    /\ bakeoffRuns \in 0 .. MaxBakeoffRuns /\ rescored \subseteq Configs

BakeoffInit ==
    /\ gold = 0 /\ predictions = [c \in Configs |-> None]
    /\ cached = predictions /\ gates = predictions
    /\ provenance = None /\ disclosure = None /\ crosscheck = None
    /\ bakeoff = NoCommand /\ bakeoffRuns = 0 /\ rescored = {}

BeginCommand(next) ==
    /\ bakeoff = NoCommand /\ bakeoffRuns < MaxBakeoffRuns
    /\ bakeoffRuns' = bakeoffRuns + 1 /\ bakeoff' = next
    /\ UNCHANGED <<gold, predictions, cached, gates, outputs, rescored>>

-----------------------------------------------------------------------------
(* score                                                                   *)

BeginScore == \E c \in Configs : BeginCommand([name |-> "score", config |-> c])

\* Mutant: the gate is run and saved first.
SavePredictions_GateFirst ==
    /\ bakeoff.name = "score"
    /\ \/ /\ gates[bakeoff.config] = None
          /\ gates' = [gates EXCEPT ![bakeoff.config] = "passed"]
          /\ UNCHANGED <<predictions, bakeoff>>
       \/ /\ gates[bakeoff.config] # None
          /\ predictions' = [predictions EXCEPT ![bakeoff.config] = gold]
          /\ bakeoff' = NoCommand /\ UNCHANGED gates
    /\ UNCHANGED <<gold, cached, outputs, bakeoffRuns, rescored>>

\* The sweep of one config may raise, and then saves nothing here.
SavePredictions ==
    /\ bakeoff.name = "score"
    /\ predictions' = [predictions EXCEPT ![bakeoff.config] = gold]
    /\ bakeoff' = [bakeoff EXCEPT !.name = "gate"]
    /\ rescored' = IF cached[bakeoff.config] = None THEN rescored
                   ELSE rescored \cup {bakeoff.config}
    /\ UNCHANGED <<gold, cached, gates, outputs, bakeoffRuns>>

\* The gate counts the errors of the model and has a result in any case.
SaveGate ==
    /\ bakeoff.name = "gate"
    /\ \E g \in {"passed", "failed"} : gates' = [gates EXCEPT ![bakeoff.config] = g]
    /\ bakeoff' = NoCommand
    /\ UNCHANGED <<gold, predictions, cached, outputs, bakeoffRuns, rescored>>

-----------------------------------------------------------------------------
(* bakeoff                                                                 *)

Scored == {c \in Configs : predictions[c] # None}

\* run_bakeoff takes the copy an earlier bakeoff cached before what is saved.
Used(c) == IF cached[c] # None THEN cached[c] ELSE predictions[c]

\* Predictions have to cover the lockbox; older ones may, when what the gold
\* set grew by is not in it.
BeginBakeoff ==
    /\ Scored # {}
    /\ \A c \in Configs : TornFile \notin {predictions[c], gates[c]}
    /\ BeginCommand([name |-> "bakeoff", saved |-> predictions, gates |-> gates, scored |-> Scored])

\* Every config is cached before the coverage is looked at, so also when the
\* command fails there.
SelectWinner ==
    /\ bakeoff.name = "bakeoff"
    /\ cached' = [c \in Configs |-> IF c \in bakeoff.scored THEN Used(c) ELSE cached[c]]
    /\ \/ /\ \E c \in bakeoff.scored : Used(c) # gold
          /\ bakeoff' = NoCommand /\ UNCHANGED provenance
       \/ \E winner \in bakeoff.scored \cup {None} :
            /\ provenance' = [run |-> bakeoffRuns, winner |-> winner, on |-> cached']
            /\ bakeoff' = [name |-> "disclose", saved |-> bakeoff.saved, gates |-> bakeoff.gates,
                           scored |-> bakeoff.scored, winner |-> winner]
    /\ UNCHANGED <<gold, predictions, gates, disclosure, crosscheck, bakeoffRuns, rescored>>

\* filter_eligible_by_gate: a config without a gate result is excluded.
Keep == {c \in Configs : bakeoff.gates[c] = "passed"}

Disclose ==
    /\ bakeoff.name = "disclose"
    /\ disclosure' = [run |-> bakeoffRuns, keep |-> Keep, exclude |-> Configs \ Keep,
                      rates |-> {c \in Configs : bakeoff.gates[c] # None}]
    /\ bakeoff' = [bakeoff EXCEPT !.name = "check"]
    /\ UNCHANGED <<gold, predictions, cached, gates, provenance, crosscheck, bakeoffRuns, rescored>>

\* The split that was not selected on is scored from what was saved.
CrossCheck ==
    /\ bakeoff.name = "check"
    /\ crosscheck' = [run |-> bakeoffRuns, winner |-> bakeoff.winner,
                      on |-> [c \in bakeoff.scored |-> bakeoff.saved[c]]]
    /\ bakeoff' = NoCommand
    /\ UNCHANGED <<gold, predictions, cached, gates, provenance, disclosure, bakeoffRuns, rescored>>

-----------------------------------------------------------------------------
\* A command raises or dies: a score may tear the file it writes, a bakeoff
\* have cached some configs.  Torn copies are the matter of BakeoffSweep.
BakeoffDies ==
    /\ bakeoff # NoCommand /\ bakeoff' = NoCommand
    /\ \/ UNCHANGED <<predictions, cached, gates>>
       \/ /\ bakeoff.name = "score" /\ UNCHANGED <<cached, gates>>
          /\ predictions' = [predictions EXCEPT ![bakeoff.config] = TornFile]
       \/ /\ bakeoff.name = "gate" /\ UNCHANGED <<predictions, cached>>
          /\ gates' = [gates EXCEPT ![bakeoff.config] = TornFile]
       \/ /\ bakeoff.name = "bakeoff" /\ UNCHANGED <<predictions, gates>>
          /\ \E C \in SUBSET bakeoff.scored :
               cached' = [c \in Configs |-> IF c \in C THEN Used(c) ELSE cached[c]]
    /\ UNCHANGED <<gold, outputs, bakeoffRuns, rescored>>

\* More incidents are adjudicated.
Grow ==
    /\ bakeoff = NoCommand /\ gold < MaxGrowth /\ gold' = gold + 1
    /\ UNCHANGED <<predictions, cached, gates, outputs, bakeoff, bakeoffRuns, rescored>>

BakeoffNext ==
    \/ BeginScore \/ SavePredictions \/ SaveGate
    \/ BeginBakeoff \/ SelectWinner \/ Disclose \/ CrossCheck
    \/ BakeoffDies \/ Grow

BakeoffSpec == BakeoffInit /\ [][BakeoffNext]_sbvars

-----------------------------------------------------------------------------
\* The three files of one bakeoff tell the same story: the winner is among the
\* configs cross-checked, the strict gate is said to keep only configs that
\* took part and that have a gate result, whatever scores died in between, and
\* both splits were scored on the same predictions.  That last promise of
\* split_balanced_accuracy holds for a config only until it is scored again:
\* the selection then still uses the copy, the cross-check what is saved.
\* run_bakeoff_sequential.py cmd_score and cmd_bakeoff, bakeoff.py run_bakeoff.
DisclosureMatchesSelection ==
    crosscheck # None /\ provenance.run = crosscheck.run =>
      /\ disclosure.run = crosscheck.run
      /\ provenance.winner = crosscheck.winner
      /\ crosscheck.winner \in DOMAIN crosscheck.on \cup {None}
      /\ disclosure.keep \subseteq DOMAIN crosscheck.on \cap disclosure.rates
      /\ \A c \in DOMAIN crosscheck.on \ rescored : provenance.on[c] = crosscheck.on[c]
=============================================================================
