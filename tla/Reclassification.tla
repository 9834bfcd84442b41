--------------------------- MODULE Reclassification ---------------------------
(***************************************************************************)
(* The command reclassify (engine/cli/reclassify.py): the incidents that   *)
(* Stage 2 labelled are asked again of several models, with a checkpoint   *)
(* that gets one line per incident and lets a later start go on where an   *)
(* earlier one died.  At the end the checkpoint is converted to labels.    *)
(* How the votes of the models become a consensus is in Classification.    *)
(***************************************************************************)
EXTENDS Naturals, FiniteSets, Sequences, SequencesExt

CONSTANTS
    Incidents,           \* the incidents of labeled_incidents.json
    Stage2,              \* those of them that Stage 2 labelled
    Corpus,              \* incidents of the vendored snapshot
    Stage1Rows,          \* Stage-1 rows of each incident: it may have several labels
    MaxConcurrent,       \* threads of the pool
    MaxReclassifyDeaths  \* bound: starts that die

ReclassificationAssumption ==
    /\ IsFiniteSet(Incidents) /\ Stage2 \subseteq Incidents
    /\ Stage1Rows \in [Incidents -> Nat]
    /\ MaxConcurrent \in Nat \ {0} /\ MaxReclassifyDeaths \in Nat

VARIABLES
    checkpoint,     \* the ids of the lines of reclassify_checkpoint.jsonl
    torn,           \* its last line was written only in part
    todo,           \* incidents of this start that no thread has taken
    asking,         \* incidents the models are asked about
    ready,          \* incidents whose future is done but not collected: by how
    reclassify,     \* what the command is at
    rows,           \* incidents of the rows in labeled_incidents_multimodel.json
    asked,          \* history: how often an incident was asked about
    reclassifyDeaths

revars == <<checkpoint, torn, todo, asking, ready, reclassify, rows, asked, reclassifyDeaths>>

NoRows == [stage1 |-> <<>>, stage2 |-> <<>>]

ReclassifyTypeOK ==
    /\ checkpoint \in Seq(Incidents) /\ torn \in BOOLEAN
    /\ todo \subseteq Incidents /\ asking \subseteq Incidents
    /\ ready \in [DOMAIN ready -> {"record", "raised"}] /\ DOMAIN ready \subseteq Incidents
    /\ reclassify \in {"none", "running", "draining"}
    /\ rows \in [stage1 : Seq(Incidents), stage2 : Seq(Incidents)]
    /\ asked \in [Incidents -> Nat] /\ reclassifyDeaths \in 0 .. MaxReclassifyDeaths

ReclassifyInit ==
    /\ checkpoint = <<>> /\ torn = FALSE
    /\ todo = {} /\ asking = {} /\ ready = [i \in {} |-> "record"]
    /\ reclassify = "none" /\ rows = NoRows
    /\ asked = [i \in Incidents |-> 0] /\ reclassifyDeaths = 0

\* Mutant: the checkpoint is appended to but not read.
Remaining_All == Stage2 \cap Corpus

\* The incidents still to be asked about, as the checkpoint has it.
Remaining == (Stage2 \cap Corpus) \ ToSet(checkpoint)

\* A start reads the whole checkpoint first; a torn line is a JSON error.
StartReclassify ==
    /\ reclassify = "none" /\ ~torn
    /\ todo' = Remaining /\ reclassify' = "running"
    /\ UNCHANGED <<checkpoint, torn, asking, ready, rows, asked, reclassifyDeaths>>

\* The operator removes the torn line.
Mend ==
    /\ reclassify = "none" /\ torn /\ torn' = FALSE
    /\ UNCHANGED <<checkpoint, todo, asking, ready, reclassify, rows, asked, reclassifyDeaths>>

\* A thread takes an incident; which one is first is not kept, as the set of
\* Stage-2 ids has no order.
Ask ==
    /\ reclassify # "none" /\ Cardinality(asking) < MaxConcurrent
    /\ \E i \in todo :
         /\ todo' = todo \ {i} /\ asking' = asking \cup {i}
         /\ asked' = [asked EXCEPT ![i] = @ + 1]
    /\ UNCHANGED <<checkpoint, torn, ready, reclassify, rows, reclassifyDeaths>>

\* pre_label turns the errors of a model into a vote out of scope, but lets
\* some pass: a reply that is JSON and no object raises.
Reply ==
    /\ \E i \in asking, r \in {"record", "raised"} :
         /\ asking' = asking \ {i}
         /\ ready' = [j \in DOMAIN ready \cup {i} |-> IF j = i THEN r ELSE ready[j]]
    /\ UNCHANGED <<checkpoint, torn, todo, reclassify, rows, asked, reclassifyDeaths>>

\* The main thread writes the line of a done future, and flushes it; at the
\* first that raised it leaves the loop and waits for the pool, which goes on
\* asking, and nothing of what is answered then is written.
CollectReply ==
    /\ reclassify = "running"
    /\ \E i \in DOMAIN ready :
         IF ready[i] = "record"
         THEN /\ checkpoint' = Append(checkpoint, i)
              /\ ready' = [j \in DOMAIN ready \ {i} |-> ready[j]]
              /\ UNCHANGED reclassify
         ELSE reclassify' = "draining" /\ UNCHANGED <<checkpoint, ready>>
    /\ UNCHANGED <<torn, todo, asking, rows, asked, reclassifyDeaths>>

NoPool == todo' = {} /\ asking' = {} /\ ready' = [i \in {} |-> "record"]

FailReclassify ==
    /\ reclassify = "draining" /\ todo = {} /\ asking = {} /\ reclassifyDeaths < MaxReclassifyDeaths
    /\ reclassify' = "none" /\ reclassifyDeaths' = reclassifyDeaths + 1 /\ NoPool
    /\ UNCHANGED <<checkpoint, torn, rows, asked>>

\* The process dies at any point, in the middle of a line as well.
ReclassifyDies ==
    /\ reclassify # "none" /\ reclassifyDeaths < MaxReclassifyDeaths
    /\ reclassify' = "none" /\ reclassifyDeaths' = reclassifyDeaths + 1 /\ NoPool
    /\ torn' \in {FALSE, reclassify = "running" /\ \E i \in DOMAIN ready : ready[i] = "record"}
    /\ UNCHANGED <<checkpoint, rows, asked>>

\* _convert_to_labeled: of the Stage-1 rows one is left per incident, as they
\* are kept in a dictionary; every line of the checkpoint becomes a row, also
\* one whose models did not agree, which is out of scope.
Convert ==
    LET stage1 == {i \in Incidents : Stage1Rows[i] > 0}
    IN  /\ reclassify = "running" /\ todo = {} /\ asking = {} /\ ready = [i \in {} |-> "record"]
        /\ rows' = [stage1 |-> SetToSeq(stage1), stage2 |-> checkpoint]
        /\ reclassify' = "none"
        /\ UNCHANGED <<checkpoint, torn, todo, asking, ready, asked, reclassifyDeaths>>

ReclassifyNext ==
    \/ StartReclassify \/ Mend \/ Ask \/ Reply \/ CollectReply
    \/ FailReclassify \/ ReclassifyDies \/ Convert

ReclassifySpec == ReclassifyInit /\ [][ReclassifyNext]_revars

-----------------------------------------------------------------------------
\* However often the command died, the labels it writes have one row for each
\* Stage-2 incident of the corpus, from a single answer; an incident that is
\* in the checkpoint is never asked about again, and one was asked about more
\* often than once only if a start died with its answer.  reclassify.py.
EachIncidentLabelledOnce ==
    /\ \A i \in Incidents : asked[i] <= 1 + reclassifyDeaths
    /\ IsInjective(checkpoint)
    /\ ToSet(checkpoint) \cap (todo \cup asking \cup DOMAIN ready) = {}
    /\ rows # NoRows =>
         /\ IsInjective(rows.stage2) /\ ToSet(rows.stage2) = Stage2 \cap Corpus
         /\ ToSet(rows.stage1) = {i \in Incidents : Stage1Rows[i] > 0}
=============================================================================
