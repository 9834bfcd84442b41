--------------------------- MODULE PublicationRules ---------------------------
(***************************************************************************)
(* What is computed from frozen results after a cycle: the baselines       *)
(* (engine/baselines), the prospective power and the blended ranking       *)
(* (engine/decide), the moves the report shows (engine/report), the        *)
(* robustness validation of the classifiers (tools), and the synthetic     *)
(* cycle that runs every phase in one process (engine/cli/synthetic.py).   *)
(***************************************************************************)
EXTENDS DecisionRules

(* ---- baselines: engine/baselines ---- *)

\* One kappa per draw over the listed entries of a subset, from the incidence
\* ranks of each draw.  The vote ranks are those among all entries voted on.
Kappas(ranks, votes, list) ==
    [d \in 1 .. Min({Len(ranks), Len(votes)}) |->
       Kappa(ranks[d], Restrict(votes[d], Range(list)))]

\* The ranks of each draw; ties is a listing for each, as in Concordance.
DrawRanks(lambda, ties, subset, strata, sizes) ==
    [d \in DOMAIN lambda |-> IncidenceRanks(lambda[d], Common(ties[d], subset), strata, sizes)]
BareRanks(lambda, ties, subset) ==
    [d \in DOMAIN lambda |-> Ordinal(Common(ties[d], subset), lambda[d])]

\* compute_previous_ranking over the entries voted on, and
\* compute_measurable_subset_kappa over those of them that are measurable.
PreviousKappas(lambda, votes, list, ties, voted, strata, sizes) ==
    Kappas(DrawRanks(lambda, ties, voted, strata, sizes), votes, Common(list, voted))
MeasurableKappas(lambda, votes, list, ties, voted, measurable, strata, sizes) ==
    PreviousKappas(lambda, votes, list, ties, voted \cap measurable, strata, sizes)

\* compute_bare_lambda_sensitivity: the same without the exposure.  It sorts a
\* second time, so its ties are listings of their own.
BareKappas(lambda, votes, list, ties, voted) ==
    Kappas(BareRanks(lambda, ties, voted), votes, Common(list, voted))
DrawsDiffering(lambda, votes, ties, bare, voted, strata, sizes) ==
    {d \in 1 .. Min({Len(lambda), Len(votes)}) :
       BareRanks(lambda, bare, voted)[d] # DrawRanks(lambda, ties, voted, strata, sizes)[d]}
MethodDelta2(lambda, votes, list, ties, bare, voted, strata, sizes) ==
    Median2(BareKappas(lambda, votes, list, bare, voted))
      - Median2(PreviousKappas(lambda, votes, list, ties, voted, strata, sizes))

(* ---- prospective power: decide/prospective_power.py, in thousandths ---- *)

\* The variance of kappa under a joint model, a matrix of counts over three
\* tiers, by the Fleiss-Cohen-Everitt formula; weights are quartered.
Sigma2(joint) ==
    LET T == 1 .. 3
        sum(f(_, _)) == SumFunction([p \in T \X T |-> f(p[1], p[2])])
        total == sum(LAMBDA i, j : joint[i][j])
        w(i, j) == 4 - (i - j) * (i - j)
        row(i) == SumFunction([j \in T |-> joint[i][j]])
        col(j) == SumFunction([i \in T |-> joint[i][j]])
        chance == 4 * total * total - sum(LAMBDA i, j : w(i, j) * row(i) * col(j))
        missed == 4 * total - sum(LAMBDA i, j : w(i, j) * joint[i][j])
        byRow(i) == SumFunction([j \in T |-> w(i, j) * col(j)])
        byCol(j) == SumFunction([i \in T |-> w(i, j) * row(i)])
        g(i, j) == (10 * (w(i, j) * chance - missed * (byRow(i) + byCol(j)))) \div chance
        mean == sum(LAMBDA i, j : joint[i][j] * g(i, j))
        square == sum(LAMBDA i, j : joint[i][j] * g(i, j) * g(i, j))
    IN  ((total * square - mean * mean) * 10 * total * total) \div (chance * chance)

\* kappa_sample_size_required; z2 is the square of the sum of the two normal
\* quantiles, kappa2 the square of the target.
SampleSize(sigma2, z2, kappa2) == ((sigma2 * z2) \div kappa2 + 999) \div 1000
\* _excludes_zero_at_n, with the quantile of the level alone.
ExcludesZero(sigma2, z2, kappa2, n) == n > 0 /\ 1000 * n * kappa2 > sigma2 * z2

(* ---- the blend: decide/blend.py ---- *)

\* load_inputs: every input as pinned, one list of entries in all of them, the
\* rollups and the frame-blind entries the code expects.
BlendLoads(files, pinned, ids, rollup, blind, expected) ==
    /\ \A f \in DOMAIN pinned : files[f] = pinned[f]
    /\ Cardinality(Range(ids)) = 1
    /\ rollup = expected.rollup /\ blind = expected.blind

\* Mutant: a parent keeps its own vote rank.
Fold_OwnVote(draw, ranks, incumbents, rollup) ==
    LET children(e) == {c \in DOMAIN rollup : rollup[c] = e}
    IN  [e \in Range(incumbents) |->
           [data |-> draw[e] + SumFunctionOnSet(draw, children(e)), vote |-> ranks[e]]]

\* _fold: a parent adds the rates of its rollups and takes their best vote rank.
Fold(draw, ranks, incumbents, rollup) ==
    LET children(e) == {c \in DOMAIN rollup : rollup[c] = e}
    IN  [e \in Range(incumbents) |->
           [data |-> draw[e] + SumFunctionOnSet(draw, children(e)),
            vote |-> Min({ranks[c] : c \in children(e) \cup {e}})]]

\* The two rows of a folded draw that are standardised.
DataRow(folded) == [e \in DOMAIN folded |-> folded[e].data]
VoteRow(folded) == [e \in DOMAIN folded |-> -folded[e].vote]

\* _positions of one draw, from the standardised rows.  Three quarters vote and
\* one quarter data, a frame-blind entry by its vote alone.
Positions(data, vote, incumbents, blind) ==
    Ordinal(incumbents, [e \in Range(incumbents) |->
      IF e \in blind THEN 4 * vote[e] ELSE 3 * vote[e] + data[e]])

\* _summarize: the published order by mean position, then name, and its tiers.
Published(positions, incumbents) ==
    LET total == [e \in Range(incumbents) |-> SumFunction([d \in DOMAIN positions |-> -positions[d][e]])]
        place == Ordinal(incumbents, total)
    IN  [r \in DOMAIN incumbents |-> CHOOSE e \in Range(incumbents) : place[e] = r]
PublishedTiers(order) ==
    [pair |-> {order[k] : k \in 1 .. 2}, band |-> {order[k] : k \in 3 .. 5},
     tail |-> {order[k] : k \in 6 .. Len(order)}]

(* ---- the report's blend: report/blend_2025_2026.py ---- *)

\* load_entries: the group of a taxonomy entry.
Group(entry) == IF entry.incumbent THEN "incumbent" ELSE IF entry.rollup THEN "rollup" ELSE "new"

\* blended_ranking, for lists in the order of names; an entry that was voted on
\* and has no data rank raises.
BlendedRanking(list, vote, data) ==
    LET place == Ordinal(list, [e \in Range(list) |-> -(3 * vote[e] + data[e])])
    IN  [r \in DOMAIN list |-> CHOOSE e \in Range(list) : place[e] = r]

\* rank_moves: up is positive.
RankMoves(published, blended) ==
    LET place(s, e) == CHOOSE k \in DOMAIN s : s[k] = e
    IN  [e \in Range(published) |-> place(published, e) - place(blended, e)]

(* ---- robustness validation: tools/compute_robustness_validation.py ---- *)

\* The ensemble of the configs, a sequence of names: the entry with the most
\* votes; of several the tie breaker's, or the one voted first.
Ensemble(configs, preds, breaker, i) ==
    LET voting == Kept(configs, {k \in DOMAIN configs : i \in DOMAIN preds[configs[k]]})
        tally(v) == Cardinality({k \in DOMAIN voting : preds[voting[k]][i] = v})
        leads(v) == \A k \in DOMAIN voting : tally(preds[voting[k]][i]) <= tally(v)
        first == CHOOSE k \in DOMAIN voting :
                   /\ leads(preds[voting[k]][i])
                   /\ \A j \in 1 .. k - 1 : ~leads(preds[voting[j]][i])
    IN  IF voting = <<>> THEN "none"
        ELSE IF breaker \in Range(voting) /\ leads(preds[breaker][i])
        THEN preds[breaker][i] ELSE preds[voting[first]][i]

\* Spearman's correlation with the truth as <<covariance, variance>> of the
\* centred doubled ranks, and when one is above another of the same truth.
Fidelity(truth, counts) ==
    LET n == Cardinality(DOMAIN truth)
        centred(f, c) == TiedRanks2(f)[c] - (n + 1)
        over(f, g) == SumFunction([c \in DOMAIN truth |-> centred(f, c) * centred(g, c)])
    IN  <<over(truth, counts), over(counts, counts)>>
FidelityAbove(a, b) ==
    LET sign(x) == IF x[2] = 0 \/ x[1] = 0 THEN 0 ELSE IF x[1] > 0 THEN 1 ELSE -1
    IN  \/ sign(a) > sign(b)
        \/ /\ sign(a) = sign(b) /\ sign(a) # 0
           /\ sign(a) * a[1] * a[1] * b[2] > sign(a) * b[1] * b[1] * a[2]
Improves(truth, counts, floor) ==
    {c \in DOMAIN counts : FidelityAbove(Fidelity(truth, counts[c]), Fidelity(truth, floor))}

\* The folds of a class: round robin over a permutation of its incidents.
FoldOf(draw, class, folds) ==
    [i \in DOMAIN class |->
       Cardinality({j \in DOMAIN class : class[j] = class[i] /\ draw[j] < draw[i]}) % folds]

\* Mutant: precision and recall change places.
Corrected_Swapped(class, pred, train, test, c, floor) ==
    LET tp == Cardinality({i \in train : class[i] = c /\ pred[i] = c})
        fn == Cardinality({i \in train : class[i] = c /\ pred[i] # c})
        fp == Cardinality({i \in train : class[i] # c /\ pred[i] = c})
        seen == Cardinality({i \in test : pred[i] = c})
    IN  IF tp = 0 THEN 0 ELSE (seen * (tp + fp)) \div (tp + fn)

\* The observed count of a class on one set, times the precision and over the
\* recall (at least a floor, in hundredths) measured on another.
Corrected(class, pred, train, test, c, floor) ==
    LET tp == Cardinality({i \in train : class[i] = c /\ pred[i] = c})
        fn == Cardinality({i \in train : class[i] = c /\ pred[i] # c})
        fp == Cardinality({i \in train : class[i] # c /\ pred[i] = c})
        seen == Cardinality({i \in test : pred[i] = c})
    IN  IF tp = 0 THEN 0
        ELSE IF 100 * tp < floor * (tp + fn) THEN (seen * tp * 100) \div ((tp + fp) * floor)
        ELSE (seen * (tp + fn)) \div (tp + fp)

(* ---- the synthetic cycle: engine/cli/synthetic.py ---- *)

\* Mutant: the least observed entry is voted first.
SyntheticBallot_Ascending(list, total, shift) ==
    Ordinal(list, [e \in Range(list) |-> -(10 * total[e] + shift[e])])

\* The votes follow the order of the observed totals, which a stable sort finds;
\* shift is the noise of one respondent, in tenths of a place of that order.  No
\* two scores are equal, the noise being Gaussian.
SyntheticBallot(list, total, shift) ==
    LET place == Ordinal(list, total)
        score == [e \in Range(list) |-> -(10 * place[e] + shift[e])]
    IN  Ordinal(list, score)

\* execute_synthetic_pipeline.  There is no gold set, so every entry that is not
\* frame-blind is measurable; when the chains fail their diagnostics (fits is
\* FALSE) there is no concordance and no twin.  It never publishes.  seen holds the
\* counts of the cells and the sizes of the strata, ties for each draw a listing of
\* the measurable entries for the sort of the votes and one for that of the rates.
SyntheticCycle(list, blind, seen, lambda, shifts, picks, ties, fits, thresholds) ==
    LET counts == seen.counts
        measurable == Common(list, Range(list) \ blind)
        cells(e) == {c \in DOMAIN counts : c[1] = e}
        strata == [e \in {c[1] : c \in DOMAIN counts} |-> {c[2] : c \in cells(e)}]
        total == [e \in Range(measurable) |-> SumFunctionOnSet(counts, cells(e))]
        ballots == [k \in DOMAIN shifts |-> SyntheticBallot(measurable, total, shifts[k])]
        votes == [d \in DOMAIN picks |-> Replicate(ballots, ties.votes[d], picks[d])]
    IN  [published |-> FALSE, fitted |-> fits,
         concordance |->
           IF ~fits THEN [status |-> "n/a", below |-> Len(measurable) < thresholds.minimum]
           ELSE Concordance(lambda, measurable, ties.rates, votes, Range(measurable),
                            Len(measurable), thresholds.meaningful, thresholds.minimum,
                            thresholds.tau, strata, seen.sizes)]
=============================================================================
