--------------------------- MODULE DecisionRules ---------------------------
(***************************************************************************)
(* What the decide phase computes from posterior draws and ballots: the    *)
(* bootstrap of the vote (engine/vote), the incidence ranking, the tiers,  *)
(* kappa and flags (engine/decide), the measurability map, the point twin  *)
(* of the model (engine/model/twin.py) and the independent oracle          *)
(* (engine/verify).                                                        *)
(*                                                                         *)
(* The order in which entries are listed is a sequence of entries; lower   *)
(* ranks are better.  A draw is a function from entries to rates or ranks. *)
(* Medians are doubled, so that they are integers.                         *)
(***************************************************************************)
EXTENDS Integers, FiniteSets, FiniteSetsExt, Functions, Sequences, SequencesExt, Selection

Scale == 60
Abs(n) == IF n < 0 THEN -n ELSE n

\* Twice the median of a non-empty sequence of integers.
Median2(s) ==
    LET n == Len(s)
    IN  IF n % 2 = 1 THEN 2 * NthValue(s, (n + 1) \div 2)
        ELSE NthValue(s, n \div 2) + NthValue(s, n \div 2 + 1)

\* Ordinal ranks of the listed entries, the highest value first; of two equal
\* values the one listed first is ranked first, as a stable sort leaves them.
\* numpy's argsort promises nothing of equal values unless it is asked to be
\* stable: where the code does not ask, the list is any listing of the entries.
Ordinal(list, value) ==
    LET ahead(j, k) == value[list[j]] > value[list[k]]
                         \/ (value[list[j]] = value[list[k]] /\ j < k)
    IN  [e \in Range(list) |->
           LET k == CHOOSE i \in DOMAIN list : list[i] = e
           IN  1 + Cardinality({j \in DOMAIN list : ahead(j, k)})]

(* ---- the vote: engine/vote/loader.py and bootstrap.py ---- *)

\* Mutant: tied scores share the best of their ranks.
TiedRanks2_Least(score) ==
    [e \in DOMAIN score |->
       2 * (1 + Cardinality({f \in DOMAIN score : score[f] > score[e]}))]

\* _importance_to_ranks: tied scores share their mean rank, here doubled.
TiedRanks2(score) ==
    [e \in DOMAIN score |->
       LET above == Cardinality({f \in DOMAIN score : score[f] > score[e]})
           same  == Cardinality({f \in DOMAIN score : score[f] = score[e]})
       IN  2 * above + 1 + same]

\* load_vote_data: of several columns of an entry the first that was answered;
\* a respondent who left an entry out is left out.  A row lists the cells.
Blank == 0
Ballot(row, columns) ==
    [e \in Range(columns) |->
       LET given == {c \in DOMAIN columns : columns[c] = e /\ row[c] # Blank}
       IN  IF given = {} THEN Blank ELSE row[Min(given)]]
Ballots(rows, columns) ==
    LET full == Kept(rows, {k \in DOMAIN rows : Blank \notin Range(Ballot(rows[k], columns))})
    IN  [k \in DOMAIN full |-> TiedRanks2(Ballot(full[k], columns))]

\* bootstrap_vote_ranks: one replicate, of the respondents in picks; the listing
\* tells where its argsort leaves equal mean ranks.
Replicate(ballots, listing, picks) ==
    Ordinal(listing, [e \in Range(listing) |->
                     -SumFunction([k \in DOMAIN picks |-> ballots[picks[k]][e]])])

(* ---- measurability: model/censoring.py, decide/measurability.py ---- *)

\* partition_entries; recall gives the posterior means of an entry's strata.
Verdict(e, blind, recall, floor) ==
    IF e \in blind THEN "frame_blind"
    ELSE IF recall[e] # {} /\ \A r \in recall[e] : r >= floor THEN "measurable"
    ELSE "classifier_blind"

\* build_measurability_map: the gate moves thin entries; the coverage and the
\* verdicts are those from before it.
Measurability(entries, blind, recall, floor, thin, gate, minimum) ==
    LET verdict == [e \in entries |-> Verdict(e, blind, recall, floor)]
        before(v) == {e \in entries : verdict[e] = v}
        moved == IF gate THEN before("measurable") \cap thin ELSE {}
    IN  [verdict    |-> verdict,
         measurable |-> before("measurable") \ moved,
         classifier_blind |-> before("classifier_blind") \cup moved,
         frame_blind |-> before("frame_blind"),
         coverage   |-> <<Cardinality(before("measurable")), Cardinality(entries)>>,
         below      |-> Cardinality(before("measurable") \ moved) < minimum]

(* ---- concordance: decide/concordance.py, kappa.py ---- *)

\* An entry's exposure is the size of all strata it was observed in.
Exposure(e, strata, sizes) == SumFunctionOnSet(sizes, strata[e])
\* Mutant: ranks by the rate, without the exposure.
IncidenceRanks_Rate(draw, list, strata, sizes) == Ordinal(list, draw)

\* _compute_incidence_ranks, whose argsort may leave equal incidences in any
\* order, here that of the list.
IncidenceRanks(draw, list, strata, sizes) ==
    Ordinal(list, [e \in Range(list) |-> draw[e] * Exposure(e, strata, sizes)])

\* The tiers of n entries: thirds, or a tier for each of up to three.
Boundaries(n) == IF n <= 3 THEN 1 .. n - 1 ELSE {n \div 3, 2 * (n \div 3)}
Tier(rank, n) == Cardinality({b \in Boundaries(n) : rank > b})
\* The same for a doubled median.
Tier2(rank2, n) == Cardinality({b \in Boundaries(n) : rank2 > 2 * b})

\* quadratic_weighted_kappa in parts of Scale: one, less the squared tier
\* distances over those of all pairs.
Kappa(a, b) ==
    LET common == DOMAIN a  n == Cardinality(common)
        gap(e, f) == LET d == Tier(a[e], n) - Tier(b[f], n) IN d * d
        observed == SumFunction([e \in common |-> gap(e, e)])
        expected == SumFunction([p \in common \X common |-> gap(p[1], p[2])])
    IN  IF expected = 0 THEN Scale ELSE Scale - (Scale * n * observed) \div expected

\* permutation_null: the share of permuted votes with a kappa as high, in parts
\* of Scale.
PermutationP(incidence, votes, observed) ==
    LET as_high == {p \in votes : Kappa(incidence, p) >= observed}
    IN  (Cardinality(as_high) * Scale) \div Cardinality(votes)

FlagDraws == 100   \* the draws a flag's direction is read from

\* A vote rank counts among all entries voted on, an incidence rank among the
\* common ones only.
Direction(vote2, incidence2) ==
    CASE vote2 < incidence2 - 1 -> "vote_over_ranks"
      [] vote2 > incidence2 + 1 -> "vote_under_ranks"
      [] Abs(vote2 - incidence2) <= 1 -> "indeterminate"

\* The row of an entry among n, from its doubled median ranks.
Comparison(vote2, incidence2, n) ==
    LET distance == Abs(Tier2(incidence2, n) - Tier2(vote2, n))
    IN  [direction |-> IF Abs(incidence2 - vote2) < 1 THEN "concordant"
                       ELSE IF vote2 < incidence2 THEN "votes-over-lambda"
                       ELSE "lambda-over-votes",
         action |-> CASE distance = 0 -> "confirmed"
                      [] distance = 1 -> "note"
                      [] distance > 1 -> "review"]

Common(list, subset) == Kept(list, {k \in DOMAIN list : list[k] \in subset})

\* compute_concordance.  lambda and votes are sequences of draws, ties the
\* listings in which the argsort of each draw finds its ties, voted the entries
\* voted on, tau a share in parts of Scale.
Concordance(lambda, list, ties, votes, voted, measurable, meaningful, minimum, tau, strata, sizes) ==
    LET common == Common(list, voted)
        n == Len(common)
        draws == Min({Len(lambda), Len(votes)})
        ranks == [d \in 1 .. draws |-> IncidenceRanks(lambda[d], Common(ties[d], voted), strata, sizes)]
        voteOf(d) == Restrict(votes[d], Range(common))
        differs(e) == {d \in 1 .. draws : Tier(ranks[d][e], n) # Tier(votes[d][e], n)}
        inc2(e, k) == Median2([d \in 1 .. Min({draws, k}) |-> ranks[d][e]])
        vote2(e, k) == Median2([d \in 1 .. k |-> votes[d][e]])
        flagged == {e \in Range(common) : Cardinality(differs(e)) * Scale > tau * draws}
    IN  IF \E e \in Range(common) : e \notin DOMAIN strata
             \/ ~(strata[e] \subseteq DOMAIN sizes) THEN [status |-> "refused"]
        ELSE IF measurable < meaningful \/ n < meaningful
        THEN [status |-> "n/a", below |-> measurable < minimum]
        ELSE [status |-> "computed", below |-> measurable < minimum,
              kappa2 |-> Median2([d \in 1 .. draws |-> Kappa(ranks[d], voteOf(d))]),
              flags |-> [e \in flagged |->
                           Direction(vote2(e, Len(votes)), inc2(e, FlagDraws))],
              rows |-> [e \in Range(common) |-> Comparison(vote2(e, draws), inc2(e, draws), n)]]

\* RobustnessSpread.is_consistent_in_direction over the flags of all specs.
Consistent(specs) ==
    \A e \in UNION {DOMAIN f : f \in specs} :
       Cardinality({f[e] : f \in {g \in specs : e \in DOMAIN g}} \ {"indeterminate"}) <= 1

\* compute_rollup_subtest: in how many draws the child exceeds a hundredth of
\* its parent; supported from 0.8, contradicted up to 0.2 of them.
Rollup(parent, child) ==
    LET draws == 1 .. Min({Len(parent), Len(child)})
        above == Cardinality({d \in draws : 100 * child[d] > parent[d]})
    IN  IF 5 * above >= 4 * Cardinality(draws) THEN "supported"
        ELSE IF 5 * above <= Cardinality(draws) THEN "contradicted" ELSE "indeterminate"

\* compute_selection_bias: severity is that of the test's p-value.
SelectionBias(verdict, ranked, severity) ==
    LET group(v) == {e \in DOMAIN verdict : verdict[e] = v /\ e \in ranked}
    IN  IF Cardinality({v \in Range(verdict) : Cardinality(group(v)) >= 2}) < 2
        THEN "low" ELSE severity

(* ---- the point twin: model/twin.py, decide/twin_agreement.py ---- *)

\* compute_twin with recalls and leakages in parts of Scale: the false positives
\* that leak in are taken off, what is left is scaled up by the recall (at
\* least a hundredth), over the size of all strata.
TwinEstimate(e, strata, counts, sizes, recall, leak) ==
    LET adjusted(s) == (Max({0, Scale * counts[<<e, s>>] - leak[<<e, s>>]}) * Scale)
                         \div Max({1, recall[<<e, s>>]})
    IN  SumFunction([s \in strata |-> adjusted(s)]) \div Max({1, SumFunctionOnSet(sizes, strata)})

\* compare_twin_nuts: pairs of the best top entries of either; a tie counts as
\* the second one ahead.
TwinDisagreements(list, nuts, twin, top) ==
    LET best(value) == {e \in Range(list) : Ordinal(list, value)[e] <= top}
        place(e) == CHOOSE k \in DOMAIN list : list[k] = e
        pairs == {p \in (best(nuts) \cup best(twin)) \X (best(nuts) \cup best(twin))
                    : place(p[1]) < place(p[2])}
    IN  {p \in pairs : (nuts[p[1]] > nuts[p[2]]) # (twin[p[1]] > twin[p[2]])}

(* ---- the oracle: verify/oracle.py, strata_guard.py, check.py ---- *)

\* The strata and sizes both sides count from the labelled rows (_build_strata).
EntryStrata(rows) ==
    [e \in {r.entry : r \in Range(rows)} |-> {r.stratum : r \in {q \in Range(rows) : q.entry = e}}]
StratumSizes(rows) ==
    [s \in {r.stratum : r \in Range(rows)} |-> Cardinality({k \in DOMAIN rows : rows[k].stratum = s})]

NoId == 0
\* check_strata_disjoint: a row without an id is not checked; a multi-stratum entry needs
\* every stratum to occur.
StrataDisjoint(rows, strata) ==
    /\ \A j, k \in DOMAIN rows :
         rows[j].id = rows[k].id /\ rows[j].id # NoId => rows[j].stratum = rows[k].stratum
    /\ \A e \in DOMAIN strata : Cardinality(strata[e]) > 1 =>
         strata[e] \subseteq {r.stratum : r \in Range(rows)}

\* The engine's deliverable ranks the median rates, in any listing of the entries.
MedianDraw2(lambda, list) ==
    [e \in Range(list) |-> Median2([d \in DOMAIN lambda |-> lambda[d][e]])]
EngineRanking(lambda, list, strata, sizes) ==
    LET rank == IncidenceRanks(MedianDraw2(lambda, list), list, strata, sizes)
    IN  [r \in DOMAIN list |-> CHOOSE e \in Range(list) : rank[e] = r]

\* The oracle's own: incidence descending, then the entry's name; the entries
\* are given in the order of their names.
OracleRanking(lambda, names, strata, sizes) ==
    LET med == MedianDraw2(lambda, names)
        incidence(e) == med[e] * Exposure(e, strata, sizes)
        before(e, f) == \E j, k \in DOMAIN names : j < k /\ names[j] = e /\ names[k] = f
    IN  Sorted(Range(names), LAMBDA a, b :
          incidence(a) > incidence(b) \/ (incidence(a) = incidence(b) /\ before(a, b)))

TopTier(ranking) ==
    LET n == Len(ranking)
    IN  {ranking[k] : k \in 1 .. (IF n <= 3 THEN Min({1, n}) ELSE n \div 3)}

\* Kendall's tau is (pairs - 2 * swapped) / pairs, and not a number for a single
\* entry, which no floor is below; the floor in hundredths.
Swapped(a, b) ==
    LET at(s, e) == CHOOSE k \in DOMAIN s : s[k] = e
    IN  {p \in Range(a) \X Range(a) : at(a, p[1]) < at(a, p[2]) /\ at(b, p[1]) > at(b, p[2])}
CompareRanking(engine, oracle, floor) ==
    LET pairs == (Len(engine) * (Len(engine) - 1)) \div 2
    IN  IF Range(engine) # Range(oracle) THEN "FAIL"
        ELSE IF /\ pairs > 0
                /\ 100 * (pairs - 2 * Cardinality(Swapped(engine, oracle))) >= floor * pairs
                /\ TopTier(engine) = TopTier(oracle)
        THEN "PASS" ELSE "FAIL"

\* compare_sigma_u, in hundredths.
CompareSigma(engine, oracle, band) ==
    IF Abs(engine - oracle) <= band THEN "PASS" ELSE "FAIL"

\* OracleVerdict.provisional: a deliverable without inputs is skipped.
Provisional(deliverables) == "FAIL" \in Range(deliverables)
=============================================================================
