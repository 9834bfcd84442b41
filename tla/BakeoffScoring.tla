--------------------------- MODULE BakeoffScoring ---------------------------
(***************************************************************************)
(* How the bake-off scores its configs against the gold set and selects a  *)
(* winner: engine/classify/bakeoff.py and bakeoff_inputs.py.  Predictions  *)
(* are functions from incidents to entries, the truth a function from      *)
(* incidents to sets of classes.  A recall is counted in RecallParts.      *)
(***************************************************************************)
EXTENDS Classification, SequencesExt

CONSTANTS RecallParts,  \* which every cell size divides
          CriticalAt    \* CriticalAt[m][r] is the chi-square, in thousandths, whose
                        \* p-value is r/m of alpha

(* ---- inputs ---- *)

\* load_bakeoff_truth: a record whose model consensus is out-of-scope is out of
\* scope, the labels of the adjudicator notwithstanding.
Truth(gold) ==
    [i \in DOMAIN gold |-> IF gold[i].consensus = OOS \/ gold[i].labels = {}
                           THEN {OOS} ELSE gold[i].labels]

\* load_floor_predictions: one entry per incident, the last of its rows; an
\* incident without a row has no prediction.
Floor(rows) ==
    [i \in {rows[k].id : k \in DOMAIN rows} |->
       rows[Max({k \in DOMAIN rows : rows[k].id = i})].entry]

\* compute_corpus_class_counts: rows, not incidents.
CorpusCounts(rows) ==
    [e \in {rows[k].entry : k \in DOMAIN rows} |->
       Cardinality({k \in DOMAIN rows : rows[k].entry = e})]

CellSize(truth, ids, c) == Cardinality({i \in ids \cap DOMAIN truth : c \in truth[i]})

Classes(truth) == UNION Range(truth)

\* goldset_corpus_divergence, in RecallParts, for totals that divide them.
Divergence(truth, counts) ==
    LET share(n, total) == (n * RecallParts) \div total
        gold(c) == CellSize(truth, DOMAIN truth, c)
        goldTotal == MapThenSumSet(gold, Classes(truth))
        total == SumFunction(counts)
        gap(c) == LET d == share(gold(c), goldTotal)
                           - share(IF c \in DOMAIN counts THEN counts[c] ELSE 0, total)
                  IN  IF d < 0 THEN -d ELSE d
    IN  IF goldTotal = 0 \/ total = 0 THEN 0
        ELSE MapThenSumSet(gap, Classes(truth) \cup DOMAIN counts) \div 2

\* lockbox_split: of every primary class (the least name, here a rank) a rounded
\* share of its incidents; draw gives the seeded permutation of each class.
\* Python rounds a half to the even number.
RoundHalfEven(n, d) ==
    LET q == n \div d  r == 2 * (n % d)
    IN  IF r > d \/ (r = d /\ q % 2 = 1) THEN q + 1 ELSE q

Lockbox(truth, rank, draw, percent) ==
    LET primary(i) == CHOOSE c \in truth[i] : \A d \in truth[i] : rank[c] <= rank[d]
        members(c) == {i \in DOMAIN truth : primary(i) = c}
        size(c) == RoundHalfEven(Cardinality(members(c)) * percent, 100)
        before(i) == Cardinality({j \in members(primary(i)) : draw[j] < draw[i]})
    IN  {i \in DOMAIN truth : before(i) < size(primary(i))}

(* ---- scores ---- *)

\* Only the incidents that have a prediction count for a recall.
Cell(preds, truth, c) == {i \in DOMAIN preds \cap DOMAIN truth : c \in truth[i]}
Hits(preds, truth, c) == Cardinality({i \in Cell(preds, truth, c) : preds[i] = c})

Recall(preds, truth, c) ==
    LET n == Cardinality(Cell(preds, truth, c))
    IN  IF n = 0 THEN 0 ELSE (Hits(preds, truth, c) * RecallParts) \div n

\* The balanced accuracy, times the number of selection classes.
Accuracy(preds, truth, classes) ==
    SumFunction([c \in classes |-> Recall(preds, truth, c)])

\* The chi-square of the pooled test for two proportions, in thousandths; 0
\* stands for a p-value of one.
ChiSquare(a, m, b, n) ==
    LET d == a * n - b * m  N == m + n  h == a + b
    IN  IF m = 0 \/ n = 0 \/ h = 0 \/ h = N THEN 0
        ELSE (1000 * d * d * N) \div (m * n * h * (N - h))

\* Mutant: stops at the first rank outside its bound.
Rejected_StepDown(stat) ==
    LET m == Len(stat)
        rank(k) == Cardinality({j \in 1 .. m : stat[j] > stat[k]
                                  \/ (stat[j] = stat[k] /\ j <= k)})
    IN  {k \in 1 .. m : \A j \in 1 .. m :
           rank(j) <= rank(k) => stat[j] >= CriticalAt[m][rank(j)]}

\* benjamini_hochberg over statistics in a fixed order of tests: a stable sort,
\* the last rank within its bound, and all ranks up to it are rejected.
Rejected(stat) ==
    LET m == Len(stat)
        rank(k) == Cardinality({j \in 1 .. m : stat[j] > stat[k]
                                  \/ (stat[j] = stat[k] /\ j <= k)})
        within == {k \in 1 .. m : stat[k] >= CriticalAt[m][rank(k)]}
        last == IF within = {} THEN 0 ELSE Max({rank(k) : k \in within})
    IN  {k \in 1 .. m : rank(k) <= last}

(* ---- selection: select_winner ---- *)

\* The classes that are not sparse in the gold set and occur in the lockbox.
Selection(truth, lockbox, minCell) ==
    {c \in Classes(truth) : /\ CellSize(truth, DOMAIN truth, c) >= minCell
                            /\ CellSize(truth, lockbox, c) > 0}

\* The configs in the order of their names, configs a sequence of names.  The
\* outcome is a refusal, or the winner ("none" when no config is eligible).
SelectWinner(configs, preds, floor, truth, lockbox, minCell) ==
    LET selection == SetToSeq(Selection(truth, lockbox, minCell))
        in(p) == Restrict(p, DOMAIN p \cap lockbox)
        score(p) == Accuracy(in(p), truth, Range(selection))
        width == Len(selection)
        config(k) == configs[1 + ((k - 1) \div width)]
        class(k) == selection[1 + ((k - 1) % width)]
        statOf(p, c) == ChiSquare(Hits(p, truth, c), Cardinality(Cell(p, truth, c)),
                                  Hits(in(floor), truth, c), Cardinality(Cell(in(floor), truth, c)))
        rejected == Rejected([k \in 1 .. Len(configs) * width |->
                                statOf(in(preds[config(k)]), class(k))])
        up(k) == Recall(in(preds[config(k)]), truth, class(k)) > Recall(in(floor), truth, class(k))
        moved(c, better) == \E k \in rejected : config(k) = c /\ up(k) = better
        eligible == {n \in DOMAIN configs :
                       /\ score(preds[configs[n]]) > score(floor)
                       /\ moved(configs[n], TRUE) /\ ~moved(configs[n], FALSE)}
        best == {n \in eligible : \A j \in eligible :
                   score(preds[configs[n]]) >= score(preds[configs[j]])}
        foreign(p) == ~(Range(in(p)) \subseteq Classes(truth))
    IN  IF foreign(floor) \/ \E n \in DOMAIN configs : foreign(preds[configs[n]])
        THEN "refused"
        ELSE IF best = {} THEN "none" ELSE configs[Min(best)]
=============================================================================
