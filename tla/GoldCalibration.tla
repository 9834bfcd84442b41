--------------------------- MODULE GoldCalibration ---------------------------
(***************************************************************************)
(* How the precision and recall of the classifier are measured             *)
(* (engine/calibrate): samples are drawn, coded in batches and tallied,    *)
(* the gold set is loaded and merged into the tally, and the tally becomes *)
(* posteriors, adequacy flags and the leakage matrix.  The commands that   *)
(* call these rules, and the files between them, are in CalibrationFiles.  *)
(*                                                                         *)
(* A cell is <<entry, stratum>>; its counts are [tp, fp] or [tp, fn].      *)
(***************************************************************************)
EXTENDS Integers, FiniteSets, FiniteSetsExt, Functions, Sequences, SequencesExt, Selection

OutOfScope == "out-of-scope"
GoldStratum == "security"

(* ---- sampling: two_frame_sampler.py ---- *)

\* The samples a request for n incidents may draw.  Of a small pool of the
\* precision frame everything is taken; small is 20 in the code.
PrecisionSamples(pool, n, small) ==
    IF Cardinality(pool) < small \/ Cardinality(pool) <= n
    THEN {pool} ELSE kSubset(n, pool)

RecallSamples(pool, n) == kSubset(Min({n, Cardinality(pool)}), pool)

\* The pools: the incidents of the stratum, with the entry among their labels.
PrecisionPool(labels, stratum, e, s) ==
    {i \in DOMAIN stratum : stratum[i] = s /\ <<i, e>> \in labels}
RecallPool(stratum, s) == {i \in DOMAIN stratum : stratum[i] = s}

(* ---- batches: batch.py ---- *)

\* generate_batch: no incident is coded yet.
Batch(frame, e, s, sample, rubric, lock) ==
    [frame |-> frame, entry |-> e, stratum |-> s, hash |-> sample,
     rubric |-> rubric, lock |-> lock,
     coded |-> {}, labels |-> [i \in sample |-> {}], rollups |-> [i \in sample |-> {}]]

\* code_synthetic(_with_ground_truth): native labels the taxonomy knows; an
\* incident that is not in the lookup gets none.
CodeSynthetic(batch, native, entries) ==
    [batch EXCEPT !.coded = DOMAIN batch.labels,
                  !.labels = [i \in DOMAIN batch.labels |->
       IF i \in DOMAIN native THEN native[i] \cap entries ELSE {}]]

Coded(batch) == batch.coded

\* validate_coded_batch as validate_and_tally uses it: an uncoded incident is
\* no hard error.  The sample hash is compared with what the caller expects,
\* never with the incidents of the batch; ids is every incident for a caller
\* that gives none.
BatchValid(batch, expected, entries, ids) ==
    /\ batch.hash = expected.hash
    /\ batch.rubric = expected.rubric /\ batch.lock = expected.lock
    /\ DOMAIN batch.labels \subseteq ids
    /\ \A i \in Coded(batch) : batch.labels[i] \subseteq entries

(* ---- the tally: tally.py ---- *)

\* Mutant: a later batch of a cell takes the place of an earlier one.
SumOver_Last(f) == IF DOMAIN f = {} THEN 0 ELSE f[CHOOSE x \in DOMAIN f : TRUE]

SumOver(f) == SumFunction(f)

\* tally_batches over a list of batches, told apart by their places in it.
\* Precision and rollup cells appear when something was counted in them, recall
\* cells for every entry of a stratum.
Tally(batches, entries, children) ==
    LET precision == {k \in DOMAIN batches : batches[k].frame = "precision"}
        recall    == {k \in DOMAIN batches : batches[k].frame = "recall"}
        in(K, s)  == {k \in K : batches[k].stratum = s}
        ofCell(c) == {k \in in(precision, c[2]) : batches[k].entry = c[1]}
        coded(k)  == Coded(batches[k])
        marked(k, e) == {i \in coded(k) : e \in batches[k].labels[i]}
        rolled(k, e) == {i \in coded(k) : e \in batches[k].rollups[i]}
        offered(k, e) == IF e \in children[batches[k].entry] THEN coded(k) ELSE rolled(k, e)
        strata == {batches[k].stratum : k \in DOMAIN batches}
        pCells == {<<batches[k].entry, batches[k].stratum>> : k \in {j \in precision : coded(j) # {}}}
        rCells == {<<e, batches[k].stratum>> : e \in entries, k \in recall}
        uCells == {c \in entries \X strata : \E k \in in(precision, c[2]) : offered(k, c[1]) # {}}
        size(K, f(_)) == SumOver([k \in K |-> Cardinality(f(k))])
    IN  [precision |-> [c \in pCells |->
           LET tp == size(ofCell(c), LAMBDA k : marked(k, c[1]))
           IN  [tp |-> tp, fp |-> size(ofCell(c), coded) - tp]],
         recall |-> [c \in rCells |->
           LET tp == size(in(recall, c[2]), LAMBDA k : marked(k, c[1]))
           IN  [tp |-> tp, fn |-> size(in(recall, c[2]), coded) - tp]],
         rollup |-> [c \in uCells |->
           LET tp == size(in(precision, c[2]), LAMBDA k : rolled(k, c[1]))
           IN  [tp |-> tp, fp |-> size(in(precision, c[2]), LAMBDA k : offered(k, c[1])) - tp]]]

(* ---- the gold set: gold_loader.py ---- *)

\* Recall and precision labels are sequences: a file may repeat an incident.
RecallLabel(i, true, predicted) == [id |-> i, true |-> true, predicted |-> predicted]
PrecisionLabel(i, claimed, correct) == [id |-> i, claimed |-> claimed, correct |-> correct]

\* _load_recall_from_curation: what the base corpus has is left out.
CurationLabels(records, base) ==
    LET new == Kept(records, {k \in DOMAIN records : records[k].id \notin base})
    IN  [k \in DOMAIN new |-> RecallLabel(new[k].id, new[k].entries, "none")]

\* The prediction scored for a record: the classifier's label, out-of-scope if
\* it gave none; without a classifier the consensus stored with the record.
\* A classifier is [given, labels].
Predicted(r, classifier) ==
    IF ~classifier.given THEN r.consensus
    ELSE IF r.id \in DOMAIN classifier.labels THEN classifier.labels[r.id] ELSE OutOfScope

\* load_classifier_labels: the last of an incident's rows.
ClassifierLabels(rows) ==
    [i \in {rows[k].id : k \in DOMAIN rows} |->
       rows[Max({k \in DOMAIN rows : rows[k].id = i})].entry]

\* _load_recall_from_adjudicated: records marked uncertain are skipped.
Usable(records) ==
    Kept(records, {k \in DOMAIN records : records[k].adjudicated # "uncertain"})

AdjudicatedRecall(records, classifier) ==
    LET used == Usable(records)
    IN  [k \in DOMAIN used |->
           RecallLabel(used[k].id, used[k].labels, Predicted(used[k], classifier))]

AdjudicatedPrecision(records, classifier) ==
    LET all == Usable(records)
        used == Kept(all, {k \in DOMAIN all :
                             /\ Predicted(all[k], classifier) \notin {OutOfScope, "none"}
                             /\ all[k].labels # {}})
        claim(k) == Predicted(used[k], classifier)
    IN  [k \in DOMAIN used |->
           PrecisionLabel(used[k].id, claim(k), claim(k) \in used[k].labels)]

\* load_gold_calibration; it refuses an entry the rubric does not know.
GoldLoads(gold, classifier, entries) ==
    /\ \A k \in DOMAIN gold.curation : gold.curation[k].entries \subseteq entries
    /\ \A k \in DOMAIN Usable(gold.adjudicated) :
         LET r == Usable(gold.adjudicated)[k]
         IN  /\ r.labels \subseteq entries
             /\ classifier.given => Predicted(r, classifier) \in entries \cup {OutOfScope}

LoadGold(gold, classifier, base) ==
    [recall |-> CurationLabels(gold.curation, base)
                  \o AdjudicatedRecall(gold.adjudicated, classifier),
     precision |-> AdjudicatedPrecision(gold.adjudicated, classifier) \o gold.verified]

(* ---- merging: tally.py calibrate_with_gold ---- *)

\* The recall labels that are scored, and the false positives derived from
\* them: a wrong in-scope claim that has no verdict of its own.
Scored(gold, base) ==
    {k \in DOMAIN gold.recall : /\ gold.recall[k].id \notin base
                                /\ gold.recall[k].predicted # "none"}

\* Mutant: also those with a verdict of their own.
DerivedFalse_Always(gold, base) ==
    {k \in Scored(gold, base) :
       gold.recall[k].predicted \notin gold.recall[k].true \cup {OutOfScope}}

DerivedFalse(gold, base) ==
    {k \in Scored(gold, base) :
       LET l == gold.recall[k]
       IN  /\ l.predicted \notin l.true \cup {OutOfScope}
           /\ \A j \in DOMAIN gold.precision :
                ~(gold.precision[j].id = l.id /\ gold.precision[j].claimed = l.predicted)}

\* Precision is added to the tally under the gold stratum; recall is replaced.
MergeGold(tally, gold, base) ==
    LET verdicts(e, correct) == {j \in DOMAIN gold.precision :
                                   /\ gold.precision[j].claimed = e
                                   /\ gold.precision[j].correct = correct}
        derived(e) == {k \in DerivedFalse(gold, base) : gold.recall[k].predicted = e}
        truly(e) == {k \in Scored(gold, base) : e \in gold.recall[k].true}
        found(e) == {k \in truly(e) : gold.recall[k].predicted = e}
        claimed == {gold.precision[j].claimed : j \in DOMAIN gold.precision}
                     \cup {gold.recall[k].predicted : k \in DerivedFalse(gold, base)}
        old(c) == IF c \in DOMAIN tally.precision THEN tally.precision[c]
                  ELSE [tp |-> 0, fp |-> 0]
        new(c) == IF c[2] # GoldStratum \/ c[1] \notin claimed THEN old(c)
                  ELSE [tp |-> old(c).tp + Cardinality(verdicts(c[1], TRUE)),
                        fp |-> old(c).fp + Cardinality(verdicts(c[1], FALSE))
                                 + Cardinality(derived(c[1]))]
        known == UNION {gold.recall[k].true : k \in Scored(gold, base)}
    IN  [precision |-> [c \in DOMAIN tally.precision \cup (claimed \X {GoldStratum}) |-> new(c)],
         recall |-> [c \in known \X {GoldStratum} |->
                       [tp |-> Cardinality(found(c[1])),
                        fn |-> Cardinality(truly(c[1]) \ found(c[1]))]],
         rollup |-> tally.rollup]

(* ---- posteriors and flags: calibrate.py, beta.py ---- *)

\* Beta(1 + successes, 1 + failures), kept as the counts.
Posterior(successes, failures) == [s |-> successes, f |-> failures, of |-> 1]

\* apply_empirical_precision_prior: a cell without observations borrows the
\* mean of the measured ones, here their sum over how many they are.
EmpiricalPrior(precision, blind) ==
    LET empty(p) == p.s = 0 /\ p.f = 0
        measured == {c \in DOMAIN precision : c[1] \notin blind /\ ~empty(precision[c])}
        mean == [s |-> SumOver([c \in measured |-> precision[c].s]),
                 f |-> SumOver([c \in measured |-> precision[c].f]),
                 of |-> Cardinality(measured)]
    IN  [c \in DOMAIN precision |->
           IF measured # {} /\ c[1] \notin blind /\ empty(precision[c])
           THEN mean ELSE precision[c]]

\* compute_calibration: a rollup cell takes the place of a precision cell.
CountedPosteriors(tally) ==
    LET counted(c) == IF c \in DOMAIN tally.rollup THEN tally.rollup[c]
                      ELSE tally.precision[c]
    IN  [recall |-> [c \in DOMAIN tally.recall |->
                       Posterior(tally.recall[c].tp, tally.recall[c].fn)],
         precision |-> [c \in DOMAIN tally.precision \cup DOMAIN tally.rollup |->
                          Posterior(counted(c).tp, counted(c).fp)]]
Posteriors(tally, blind) ==
    [CountedPosteriors(tally) EXCEPT !.precision = EmpiricalPrior(@, blind)]

\* The flag of an entry; K is recall_min_denominator, tight the posteriors
\* whose 90% interval is narrower than 0.30.  The intervals are those from before
\* an empty cell borrows.
Flag(tally, e, blind, ruled, K, tight) ==
    LET post == CountedPosteriors(tally)
        cells(f) == {c \in DOMAIN f : c[1] = e}
        p == cells(post.precision)  r == cells(post.recall)
        thin == \E c \in cells(tally.recall) :
                  tally.recall[c].tp + tally.recall[c].fn < K
        missed == \E c \in cells(tally.recall) :
                    tally.recall[c].tp = 0 /\ tally.recall[c].fn > 0
        narrow == /\ \A c \in p : post.precision[c] \in tight
                  /\ \A c \in r : post.recall[c] \in tight
    IN  IF e \in blind \/ e \notin ruled \/ (p = {} /\ r = {}) THEN "no-data"
        ELSE IF p # {} /\ r # {} /\ narrow /\ (K > 0 => ~thin /\ ~missed)
        THEN "adequate" ELSE "wide"

\* _load_calibration reads "entry::stratum" keys back; a key that does not
\* split in two is dropped.
Stored(posteriors, odd) ==
    Restrict(posteriors, {c \in DOMAIN posteriors : c[1] \notin odd /\ c[2] \notin odd})

(* ---- leakage and stability: confusion.py, cv.py ---- *)

\* build_overlap_from_confusion: of the true entries other than the predicted
\* one, over the incidents predicted as a source, the share of a target, as a
\* pair <<count, of>>.  A source with fewer than the minimum leaks nothing.
Leakage(recall, entries, minimum) ==
    LET leaks(s, t) == Cardinality({k \in DOMAIN recall :
                         recall[k].predicted = s /\ t \in recall[k].true})
        total(s) == SumOver([t \in entries \ {s} |-> leaks(s, t)])
    IN  [st \in {p \in entries \X entries : /\ p[1] # p[2] /\ leaks(p[1], p[2]) > 0
                                            /\ total(p[1]) >= minimum}
           |-> <<leaks(st[1], st[2]), total(st[1])>>]

\* cross_validate_calibration: the sizes of the folds of n labels that are not
\* empty, and the reading of their variance.
FoldSizes(n, folds) ==
    LET size(k) == (n \div folds) + (IF k <= n % folds THEN 1 ELSE 0)
    IN  SelectSeq([k \in 1 .. folds |-> size(k)], LAMBDA m : m > 0)

Interpretation(n, folds, variance) ==
    IF Min(Range(FoldSizes(n, folds))) < 5 THEN "unstable" ELSE variance
=============================================================================
