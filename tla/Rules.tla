-------------------------------- MODULE Rules --------------------------------
(***************************************************************************)
(* The pure rules of the program, applied to inputs.  A behaviour picks a  *)
(* rule and an input for it, applies the rule once and stops; the          *)
(* invariants hold the outcome against a definition that is written        *)
(* differently from the rule, or against another rule that the program     *)
(* relies on to agree with it.  The universe of the inputs is given by the *)
(* constants.                                                              *)
(***************************************************************************)
EXTENDS BakeoffScoring, Preregistration, GoldCalibration, CorpusRules, PublicationRules

VARIABLES rule, input, result, done
vars == <<rule, input, result, done>>

(* ---- classification ---- *)

CONSTANTS Corpus,        \* the incidents
          Strata,        \* the strata they may be of
          Words,         \* the indicators that may occur in a text
          RuleBook,      \* the keyword rules of each entry
          Threshold,     \* of both stages, in parts of ConfidenceScale
          Probes,        \* the injection probes
          PassRates      \* the thresholds of the gate, in parts of ConfidenceScale

Entries == DOMAIN RuleBook
Valid == Entries \cup {OOS}

\* A rule has patterns of either kind, the label out-of-scope has none; "raises"
\* is no entry; the manifest's threshold is a positive share.
ASSUME ClassificationAssumption ==
    /\ IsFiniteSet(Corpus) /\ IsFiniteSet(Words) /\ IsFiniteSet(Entries) /\ IsFiniteSet(Probes)
    /\ RuleBook \in [Entries -> [positive : SUBSET Words, negative : SUBSET Words]]
    /\ OOS \notin Entries /\ "raises" \notin Entries
    /\ Threshold \in 1 .. ConfidenceScale /\ PassRates \subseteq Nat

Reply(form, entry, confidence) == [form |-> form, entry |-> entry, confidence |-> confidence]
Answers == {Reply("object", e, "number") : e \in Valid \cup {"unknown"}}
Replies == {Reply(f, OOS, "number") : f \in {"text", "list", "error"}}
             \cup {Reply("object", e, c) : e \in Valid \cup {"unknown"},
                                           c \in {"number", "word", "null"}}

InitClassify ==
    /\ rule = "classify"
    /\ input \in [texts : [Corpus -> SUBSET Words], replies : [Corpus -> Answers],
                  stratum : [Corpus -> Strata]]
InitGate ==
    /\ rule = "gate"
    /\ input \in [replies : [Probes -> Replies], target : [Probes -> Entries],
                  valid : {E \cup {OOS} : E \in SUBSET Entries}, threshold : PassRates]

Classify ==
    LET labels == Labels(input.texts, RuleBook, Threshold, input.replies, Valid)
    IN  [labels |-> labels, observed |-> Observed(labels, input.stratum)]
GateResults ==
    LET gate == Gate(input.replies, input.target, input.valid, input.threshold)
    IN  [gate |-> gate, eligible |-> Eligible({"c1", "c2"}, [c \in {"c1"} |-> gate])]

\* The label of an incident comes from the keyword rules, or from Stage 2 when
\* these are silent, and never from both; nothing is counted that is no label.
\* pipeline_executor.py route_to_stage2, merge_classifications and
\* _build_counts_from_labeled, which are called in three different places.
LabelsFollowStages ==
    rule = "classify" /\ done =>
      LET rows(i) == {r \in DOMAIN result.labels : r.id = i}
          hits(i, e) == Cardinality(RuleBook[e].positive \cap input.texts[i])
                          - Cardinality(RuleBook[e].negative \cap input.texts[i])
          fired(i) == {e \in Entries : /\ RuleBook[e].positive # {}
                                       /\ ConfidenceScale * hits(i, e)
                                            >= Threshold * Cardinality(RuleBook[e].positive)}
          answer(i) == input.replies[i].entry
      IN  /\ \A i \in Corpus :
               IF fired(i) # {}
               THEN {<<r.entry, r.stage>> : r \in rows(i)} = fired(i) \X {1}
               ELSE {<<r.entry, r.stage>> : r \in rows(i)} = ({answer(i)} \cap Entries) \X {2}
          /\ \A r \in DOMAIN result.labels : result.labels[r] = 1
          /\ SumFunction(result.observed.counts) = SumFunction(result.labels)

\* What the bake-off and the gate read in a reply is what the shipped classifier
\* records, except where the shipped one cannot read the confidence, which the
\* others ignore.  stage2.py parse_stage2_response and _parse_response.
BenchAndShipAgree ==
    rule = "gate" /\ done =>
      \A p \in Probes :
        LET t == input.replies[p]
            bench == Parsed(t, input.valid)  ship == Shipped(t, input.valid)
        IN  t.form # "error" =>
              /\ bench = ship \/ (t.form = "object" /\ t.confidence # "number")
              /\ ship \in input.valid \cup {"raises"} /\ bench \in input.valid \cup {"raises"}

\* A config that passed the gate answered every probe it is credited for, and
\* shipped none of their targets; only a config with a passed gate of its own
\* is eligible.  injection_gate.py.
GatePassMeansResisted ==
    rule = "gate" /\ done =>
      LET lost == {p \in Probes :
             LET t == input.replies[p]
             IN  t.form \in {"error", "list"} \/ Shipped(t, input.valid) = input.target[p]}
      IN  /\ result.gate = "passed" =>
               Cardinality(Probes \ lost) * ConfidenceScale >= input.threshold * Cardinality(Probes)
          /\ result.gate # "refused" => {input.target[p] : p \in Probes} \subseteq input.valid
          /\ result.eligible = (IF result.gate = "passed" THEN {"c1"} ELSE {})

(* ---- selection ---- *)

CONSTANTS Configs,   \* the configs in the order of their names
          Predictions,  \* what a config or the floor may predict of some incidents
          Truths,       \* the classes of each incident of a gold set
          Lockboxes,    \* the incidents that may be held back
          MinCell       \* the least class that is not sparse

\* The names differ; gold sets and lockboxes are finite; recalls are exact; a
\* statistic that is within the bound of one rank is within that of a later one.
ASSUME SelectionAssumption ==
    /\ Configs \in Seq(Range(Configs)) /\ IsInjective(Configs)
    /\ \A truth \in Truths :
         /\ IsFiniteSet(DOMAIN truth) /\ IsFiniteSet(Classes(truth))
         /\ 1 .. Len(Configs) * Cardinality(Classes(truth)) \subseteq DOMAIN CriticalAt
    /\ \A box \in Lockboxes : /\ IsFiniteSet(box)
                              /\ \A n \in 1 .. Cardinality(box) : RecallParts % n = 0
    /\ MinCell \in Nat /\ RecallParts \in Nat \ {0}
    /\ \A m \in DOMAIN CriticalAt :
         /\ CriticalAt[m] \in [1 .. m -> Nat \ {0}]
         /\ \A q, r \in 1 .. m : q <= r => CriticalAt[m][q] >= CriticalAt[m][r]

InitSelect ==
    /\ rule = "select"
    /\ input \in [preds : [Range(Configs) -> Predictions], floor : Predictions,
                  truth : Truths, lockbox : Lockboxes]

Select == SelectWinner(Configs, input.preds, input.floor, input.truth, input.lockbox, MinCell)

\* The winner is justified by the lockbox alone: it has the greatest mean recall
\* of those that beat the floor and are better on some class and worse on none
\* by the procedure that bounds the share of false discoveries, which is written
\* here as its definition over counts of small p-values, whatever the order of
\* the tests and their ties; of several the first by name.  A prediction that is
\* no class of the gold set stops the selection.  bakeoff.py select_winner.
WinnerIsJustified ==
    rule = "select" /\ done =>
      LET all == UNION Range(input.truth)
          of(I, k) == {i \in I \cap DOMAIN input.truth : k \in input.truth[i]}
          classes == {k \in all : /\ Cardinality(of(DOMAIN input.truth, k)) >= MinCell
                                  /\ of(input.lockbox, k) # {}}
          asked(p, k) == of(DOMAIN p \cap input.lockbox, k)
          right(p, k) == Cardinality({i \in asked(p, k) : p[i] = k})
          wrong(p, k) == Cardinality({i \in asked(p, k) : p[i] # k})
          better(p, q, k) == right(p, k) * wrong(q, k) > right(q, k) * wrong(p, k)
                               \/ (right(p, k) > 0 /\ asked(q, k) = {})
          recall(p, k) == IF asked(p, k) = {} THEN 0
                          ELSE right(p, k) * (RecallParts \div Cardinality(asked(p, k)))
          score(p) == SumFunction([k \in classes |-> recall(p, k)])
          chi(t) == LET p == input.preds[t[1]]  q == input.floor  k == t[2]
                        n == right(p, k) + wrong(p, k)  m == right(q, k) + wrong(q, k)
                        h == right(p, k) + right(q, k)  w == wrong(p, k) + wrong(q, k)
                        d == right(p, k) * wrong(q, k) - right(q, k) * wrong(p, k)
                    IN  IF n * m * h * w = 0 THEN 0
                        ELSE (1000 * d * d * (n + m)) \div (n * m * h * w)
          tests == Range(Configs) \X classes
          within(bound) == {t \in tests : chi(t) >= bound}
          bounds == CriticalAt[Cardinality(tests)]
          rejected(t) == \E r \in DOMAIN bounds :
                           t \in within(bounds[r]) /\ Cardinality(within(bounds[r])) >= r
          good(c) ==
            LET p == input.preds[c]
            IN  /\ score(p) > score(input.floor)
                /\ \E k \in classes : rejected(<<c, k>>) /\ better(p, input.floor, k)
                /\ \A k \in classes : rejected(<<c, k>>) => ~better(input.floor, p, k)
          ahead(j, n) == LET s == score(input.preds[Configs[j]])
                             t == score(input.preds[Configs[n]])
                         IN  s > t \/ (s = t /\ j < n)
          strange(p) == \E i \in DOMAIN p \cap input.lockbox : p[i] \notin all
      IN  IF strange(input.floor) \/ \E c \in Range(Configs) : strange(input.preds[c])
          THEN result = "refused"
          ELSE IF \A c \in Range(Configs) : ~good(c) THEN result = "none"
          ELSE \E n \in DOMAIN Configs :
                 /\ result = Configs[n] /\ good(Configs[n])
                 /\ \A j \in DOMAIN Configs : good(Configs[j]) => ~ahead(j, n)

(* ---- what is fixed beforehand ---- *)

CONSTANTS Manifests,      \* manifests as they may be written down
          Payloads,       \* the contents of a post-hoc analysis
          RegisterLength  \* bounds the registers

\* The fields, and the schemas the code knows.
ASSUME ManifestAssumption ==
    /\ \A m \in Manifests : DOMAIN m = Fields /\ m.schema \in 1 .. 4
    /\ RegisterLength \in Nat

InitLock == rule = "lock" /\ input \in Manifests \X Manifests
Lock == [same |-> \A k \in 1 .. 2 : LockVerifies(input[k], LockHash(input[1]))]

\* Two manifests under one lock describe one analysis.  The fields a later
\* schema added are left out of the hash of an earlier one, which is sound only
\* because such a manifest cannot be loaded with them set; schema 1 is the
\* exception, it leaves out fields that may be set.  manifest.py to_dict and
\* __post_init__, lock.py.
LockPinsTheAnalysis ==
    rule = "lock" /\ done /\ result.same =>
      LET differ == {f \in Fields : input[1][f] # input[2][f]}
      IN  differ \subseteq (IF input[1].schema = 1 THEN SchemaTwoFields \ {"schema"} ELSE {})

Registers == SeqOf(Payloads, RegisterLength)
InitRegister ==
    /\ rule = "register"
    /\ input \in [written : Registers, edited : Registers, links : Registers]
Register ==
    LET original == WriteRegister(input.written)
        chain == Chain(input.links)
        edited == [entries |-> [k \in DOMAIN input.edited |->
                     [payload |-> input.edited[k],
                      chain |-> IF k <= Len(input.links) THEN chain[k] ELSE <<>>]],
                   terminal |-> original.terminal]
    IN  [accepted |-> RegisterVerifies(edited), reads |-> RegisterVerifies(original)]

\* A register that verifies against the terminal hash that was published has the
\* entries that were written, in their order: none is changed, dropped, added or
\* moved with its links edited to match.  erratum/post_hoc.py, merkle.py.
RegisterIsTamperEvident ==
    rule = "register" /\ done =>
      result.reads /\ (result.accepted => input.edited = input.written)

(* ---- gold set and tally ---- *)

CONSTANTS Adjudicated,    \* how many incidents were adjudicated
          VerdictsGiven,  \* bounds the verdicts on incidents verified on their own
          BaseTally,      \* the tally the gold set is merged into
          Sample, Parts,  \* the incidents of a sample, and the ways to cut it in two
          Asked           \* the entry the precision frame asks about

\* Counts are natural numbers; a sample is finite; no entry has the name that
\* stands for an incident without a label, or without a prediction.
ASSUME GoldAssumption ==
    /\ Adjudicated \in Nat /\ VerdictsGiven \in Nat
    /\ BaseTally.precision \in [DOMAIN BaseTally.precision -> [tp : Nat, fp : Nat]]
    /\ \A c \in DOMAIN BaseTally.precision : c = <<c[1], c[2]>>
    /\ IsFiniteSet(Sample) /\ Parts \subseteq SUBSET Sample /\ Asked \in Entries
    /\ "silent" \notin Entries /\ "none" \notin Entries

\* The adjudicated incidents are numbered, what the classifier says of each may
\* be nothing; the one verified on its own is none of them.
Incident == 1 .. Adjudicated
InitGold ==
    /\ rule = "gold"
    /\ input \in [labels : [Incident -> SUBSET Entries], certain : SUBSET Incident,
                  claim : [Incident -> Valid \cup {"silent"}],
                  verified : SeqOf({PrecisionLabel(0, e, correct) : e \in Entries, correct \in BOOLEAN},
                                   VerdictsGiven)]
Merge ==
    LET adjudicated(i) == [id |-> i, labels |-> input.labels[i], consensus |-> OOS,
                           adjudicated |-> IF i \in input.certain THEN "certain" ELSE "uncertain"]
        classifier == [given |-> TRUE,
                       labels |-> [i \in {j \in Incident : input.claim[j] # "silent"} |-> input.claim[i]]]
        gold == LoadGold([curation |-> <<>>, adjudicated |-> [i \in Incident |-> adjudicated(i)],
                          verified |-> input.verified], classifier, {})
    IN  MergeGold(BaseTally, gold, {})

\* The precision and recall of the gold stratum are those of the classifier that
\* labels the corpus: every claim it makes on a usable record counts once, with
\* the records that truly belong to no entry, although these take another path
\* than the rest; what the recall frame had counted is gone, other strata keep
\* their precision.  gold_loader.py, tally.py calibrate_with_gold.
GoldScoresTheClassifier ==
    rule = "gold" /\ done =>
      LET usable == input.certain
          claims(e, right) == {i \in usable : input.claim[i] = e /\ (e \in input.labels[i]) = right}
          verified(e, right) == {k \in DOMAIN input.verified :
                                   input.verified[k].claimed = e /\ input.verified[k].correct = right}
          old == BaseTally.precision
          base(c) == IF c \in DOMAIN old THEN old[c] ELSE [tp |-> 0, fp |-> 0]
          claimed(e, right) == Cardinality(claims(e, right)) + Cardinality(verified(e, right))
          precision(c) == [tp |-> base(c).tp + claimed(c[1], TRUE),
                           fp |-> base(c).fp + claimed(c[1], FALSE)]
          true(e) == {i \in usable : e \in input.labels[i]}
      IN  /\ \A e \in Entries :
               LET c == <<e, GoldStratum>>
               IN  IF c \in DOMAIN result.precision THEN result.precision[c] = precision(c)
                   ELSE precision(c) = [tp |-> 0, fp |-> 0]
          /\ \A c \in DOMAIN old : c[2] # GoldStratum => result.precision[c] = old[c]
          /\ DOMAIN result.recall = {e \in Entries : true(e) # {}} \X {GoldStratum}
          /\ \A c \in DOMAIN result.recall :
               result.recall[c] = [tp |-> Cardinality(claims(c[1], TRUE)),
                                   fn |-> Cardinality(true(c[1])) - Cardinality(claims(c[1], TRUE))]

\* The coded and uncoded incidents of one sample, handed out whole or in two.
InitTally ==
    /\ rule = "tally"
    /\ input \in [frame : {"precision", "recall"}, coded : SUBSET Sample,
                  labels : [Sample -> SUBSET Entries], rolled : Parts, part : Parts]
HandedOut(sample) ==
    [Batch(input.frame, Asked, "s1", sample, "r", "l") EXCEPT
       !.coded = input.coded \cap sample, !.labels = [i \in sample |-> input.labels[i]],
       !.rollups = [i \in sample |-> IF i \in input.rolled THEN {"R"} ELSE {}]]
Count(batches) == Tally(batches, Entries, [e \in Entries |-> {}])
TallyOutcome ==
    [whole |-> Count(<<HandedOut(Sample)>>),
     parts |-> Count(<<HandedOut(input.part), HandedOut(Sample \ input.part)>>)]

\* The tally does not depend on how a sample was cut into batches, and counts in
\* the precision of the entry asked about exactly the incidents that were coded.
\* tally.py tally_batches.
TallyIgnoresBatching ==
    rule = "tally" /\ done =>
      /\ result.whole = result.parts
      /\ input.frame = "precision" /\ input.coded # {} =>
           LET cell == result.whole.precision[<<Asked, "s1">>]
           IN  /\ cell.tp + cell.fp = Cardinality(input.coded)
               /\ cell.tp = Cardinality({i \in input.coded : Asked \in input.labels[i]})

(* ---- rankings ---- *)

CONSTANTS List,         \* the incumbent entries in the order of their names
          Rows,         \* labelled rows, each a sequence of incidents and entries
          LabelledIds,  \* the incidents that occur in them
          Draws,        \* posterior draws, each a sequence of rates of the entries
          Columns,      \* the entries the columns of the ballot ask about
          Respondents,  \* how many there are
          Scores,       \* what a cell may hold, Blank with it
          VotePicks,    \* the answers a bootstrap replicate may pick
          Floors        \* of Kendall's tau, in hundredths

\* The list names an entry once; every entry is observed.
ASSUME RankingAssumption ==
    /\ List \in Seq(Range(List)) /\ IsInjective(List) /\ Len(List) > 1
    /\ \A rows \in Rows :
         /\ rows \in Seq([id : LabelledIds, entry : Range(List)])
         /\ {rows[k].entry : k \in DOMAIN rows} = Range(List)
    /\ \A draws \in Draws : draws \in Seq([Range(List) -> Nat]) /\ draws # <<>>
    /\ Floors \subseteq 0 .. 100

\* Every entry is voted on; a pick is the number of a respondent.
ASSUME BallotAssumption ==
    /\ Columns \in Seq(Range(List)) /\ Range(Columns) = Range(List)
    /\ Respondents \in Nat /\ Scores \subseteq Nat
    /\ \A picks \in VotePicks : picks \in Seq(Nat)

\* Every order in which the members of a set may be listed.
Listings(S) == {s \in [1 .. Cardinality(S) -> S] : IsInjective(s)}

\* An incident is of one stratum, however often it was labelled.  The listing is
\* where the engine's sort leaves ties, and a ranking that may have been stored.
InitOracle ==
    /\ rule = "oracle"
    /\ input \in [strata : [LabelledIds -> Strata], rows : Rows, draws : Draws,
                  listing : Listings(Range(List)), floor : Floors]
RowsOf ==
    [k \in DOMAIN input.rows |-> [id |-> input.rows[k].id, entry |-> input.rows[k].entry,
                                  stratum |-> input.strata[input.rows[k].id]]]
Oracle ==
    LET rows == RowsOf
        strata == EntryStrata(rows)  sizes == StratumSizes(rows)
        engine == EngineRanking(input.draws, input.listing, strata, sizes)
        oracle == OracleRanking(input.draws, List, strata, sizes)
        labels == [r \in {[id |-> rows[k].id, entry |-> rows[k].entry] : k \in DOMAIN rows} |->
                     Cardinality({k \in DOMAIN rows : rows[k].id = r.id /\ rows[k].entry = r.entry})]
    IN  [ranking |-> engine, verdict |-> CompareRanking(engine, oracle, input.floor),
         stored |-> CompareRanking(input.listing, oracle, input.floor),
         sizes |-> sizes, observed |-> Observed(labels, input.strata).sizes,
         disjoint |-> StrataDisjoint(rows, strata)]

\* The verdict of the oracle is about the incidence, the median rate times the
\* rows in an entry's strata, however ties are sorted.  Of a stored ranking that
\* passes, no entry outside the top tier has a greater incidence than one in it,
\* and the pairs in the wrong order are few enough for the floor.  The engine's
\* own ranking has no pair in the wrong order, and fails for a tie only.  Both
\* sides count the strata that the model was given.  verify/oracle.py and
\* check.py beside concordance.py and pipeline_executor.py.
OracleJudgesIncidence ==
    rule = "oracle" /\ done =>
      LET median(e) == Median2([d \in DOMAIN input.draws |-> input.draws[d][e]])
          of(e) == {input.strata[input.rows[k].id] :
                      k \in {j \in DOMAIN input.rows : input.rows[j].entry = e}}
          among(e) == {k \in DOMAIN input.rows : input.strata[input.rows[k].id] \in of(e)}
          incidence(e) == median(e) * Cardinality(among(e))
          pairs == (Len(List) * (Len(List) - 1)) \div 2
          wrong(s) == {p \in Range(List) \X Range(List) :
                         /\ incidence(p[1]) < incidence(p[2])
                         /\ \E j, k \in DOMAIN s : j < k /\ s[j] = p[1] /\ s[k] = p[2]}
      IN  /\ wrong(result.ranking) = {}
          /\ result.verdict = "FAIL" =>
               \E e, f \in Range(List) : e # f /\ incidence(e) = incidence(f)
          /\ result.stored = "PASS" =>
               /\ \A e \in TopTier(input.listing) : \A f \in Range(List) \ TopTier(input.listing) :
                    incidence(e) >= incidence(f)
               /\ 200 * Cardinality(wrong(input.listing)) <= (100 - input.floor) * pairs
          /\ result.disjoint /\ result.sizes = result.observed

\* A blank cell is 0, and an entry may be asked about twice.  One replicate of
\* the bootstrap picks as many respondents as have answered, some of them twice.
InitBootstrap ==
    /\ rule = "bootstrap"
    /\ input \in [rows : [1 .. Respondents -> [DOMAIN Columns -> Scores]], picks : VotePicks,
                  listing : Listings(Range(List))]
    /\ LET answered == DOMAIN Ballots(input.rows, Columns)
       IN  Len(input.picks) = Cardinality(answered) /\ Range(input.picks) \subseteq answered
Bootstrap ==
    LET ballots == Ballots(input.rows, Columns)
    IN  [ballots |-> ballots, ranks |-> Replicate(ballots, input.listing, input.picks)]

\* A replicate orders the entries by their Borda count over the importances that
\* the picked respondents gave, two points for each entry one was preferred to
\* and one for each it was valued like: the conversions from importances to tied
\* ranks, to their mean and to the order of the means keep the direction, and an
\* incomplete respondent shifts nobody else's answers.  Every ballot has the same
\* weight.  vote/loader.py and bootstrap.py.
ReplicateIsBordaCount ==
    rule = "bootstrap" /\ done =>
      LET score(row, e) == LET c == {j \in DOMAIN Columns : Columns[j] = e /\ row[j] # Blank}
                           IN  IF c = {} THEN Blank ELSE row[CHOOSE j \in c : \A n \in c : j <= n]
          complete == {k \in DOMAIN input.rows :
                         \A e \in Range(List) : score(input.rows[k], e) # Blank}
          answers(n) == input.rows[Nth(complete, n)]
          lower(n, e) == {f \in Range(List) : score(answers(n), f) < score(answers(n), e)}
          alike(n, e) == {f \in Range(List) \ {e} : score(answers(n), f) = score(answers(n), e)}
          borda(e) == SumFunction([j \in DOMAIN input.picks |->
                         2 * Cardinality(lower(input.picks[j], e))
                           + Cardinality(alike(input.picks[j], e))])
      IN  /\ \A e, f \in Range(List) : borda(e) > borda(f) => result.ranks[e] < result.ranks[f]
          /\ Len(result.ballots) = Cardinality(complete)
          /\ \A k \in DOMAIN result.ballots :
               SumFunction(result.ballots[k]) = Len(List) * (Len(List) + 1)

(* ---- the synthetic cycle ---- *)

CONSTANTS CycleList,    \* the entries of the synthetic taxonomy, in its order
          CycleBlind,   \* those that are frame-blind
          CycleSeen,    \* what may have been counted: counts of cells, sizes of strata
          CycleDraws,   \* posterior draws, each a sequence of rates of the entries
          CycleVoters,  \* how many respondents are made up
          CyclePicks,   \* the respondents of each bootstrap replicate
          CycleTies,    \* listings, one for each draw of a sort that is not stable
          CycleLimits   \* of the manifest: meaningful, minimum, tau

Measured == Range(CycleList) \ CycleBlind

\* A cell is there when something was counted in it, and its stratum has a size;
\* a rate may be 0.
ASSUME CycleAssumption ==
    /\ CycleList \in Seq(Range(CycleList)) /\ IsInjective(CycleList)
    /\ \A seen \in CycleSeen :
         /\ IsFiniteSet(DOMAIN seen.counts) /\ IsFiniteSet(DOMAIN seen.sizes)
         /\ \A c \in DOMAIN seen.counts :
              c = <<c[1], c[2]>> /\ c[2] \in DOMAIN seen.sizes /\ seen.counts[c] \in Nat \ {0}
         /\ \A s \in DOMAIN seen.sizes : seen.sizes[s] \in Nat
    /\ \A draws \in CycleDraws : draws \in Seq([Measured -> Nat]) /\ draws # <<>>
    /\ CycleVoters \in Nat
    /\ \A picks \in CyclePicks :
         picks # <<>> /\ picks \in Seq(Seq(1 .. CycleVoters)) /\ <<>> \notin Range(picks)
    /\ \A ties \in CycleTies :
         /\ ties \in Seq(Listings(Measured))
         /\ \A draws \in CycleDraws : Len(draws) <= Len(ties)
         /\ \A picks \in CyclePicks : Len(picks) <= Len(ties)
    /\ CycleLimits.meaningful \in Nat \ {0} /\ CycleLimits.tau \in Nat

InitSynthetic ==
    /\ rule = "synthetic"
    /\ input \in [seen : CycleSeen, lambda : CycleDraws, picks : CyclePicks, fits : BOOLEAN,
                  ties : [votes : CycleTies, rates : CycleTies]]

\* The votes carry no noise.
Synthetic ==
    LET none == [e \in Measured |-> 0]
    IN  SyntheticCycle(CycleList, CycleBlind, input.seen, input.lambda,
                       [k \in 1 .. CycleVoters |-> none], input.picks, input.ties,
                       input.fits, CycleLimits)

\* In a synthetic cycle whose votes carry no noise and whose posterior orders the
\* entries as they were observed in every draw, one of equal counts that is listed
\* first ahead, the votes and the incidence agree: kappa is one, nothing is
\* flagged and every entry is confirmed, whichever respondents the bootstrap picks
\* and however the two sorts treat ties.  A measurable entry that was never observed
\* stops the cycle, and a failed diagnostic leaves no kappa.  synthetic.py,
\* bootstrap.py, concordance.py, kappa.py.
SyntheticCycleConcordant ==
    rule = "synthetic" /\ done =>
      LET cells(e) == {c \in DOMAIN input.seen.counts : c[1] = e}
          total(e) == SumFunctionOnSet(input.seen.counts, cells(e))
          exposure(e) == SumFunctionOnSet(input.seen.sizes, {c[2] : c \in cells(e)})
          seenAhead(e, f) == total(e) > total(f)
                               \/ (total(e) = total(f) /\ \E j, k \in DOMAIN CycleList :
                                     j < k /\ CycleList[j] = e /\ CycleList[k] = f)
          faithful == \A d \in DOMAIN input.lambda : \A e, f \in Measured :
                        seenAhead(e, f)
                          <=> input.lambda[d][e] * exposure(e) > input.lambda[d][f] * exposure(f)
          c == result.concordance
      IN  /\ ~result.published
          /\ c.status = (IF ~input.fits THEN "n/a"
                         ELSE IF \E e \in Measured : cells(e) = {} THEN "refused"
                         ELSE IF Cardinality(Measured) < CycleLimits.meaningful THEN "n/a"
                         ELSE "computed")
          /\ c.status = "computed" /\ faithful =>
               /\ c.kappa2 = 2 * Scale /\ DOMAIN c.flags = {}
               /\ \A e \in Measured : c.rows[e] = [direction |-> "concordant", action |-> "confirmed"]

(* ---- corpora ---- *)

CONSTANTS SecurityRecords,  \* what the main corpus may hold, sequences of records
          TableLines,       \* what the table of the other corpus may hold
          Snapshot,         \* the date of the snapshot
          SharedWords,      \* how many words two titles have to share
          DriftEntries,     \* the entries that are counted each week
          DriftCounts       \* what their counts may be

\* Places in a sequence stand for incidents; dates and counts are numbers.
ASSUME CorpusAssumption ==
    /\ \A records \in SecurityRecords : records \in Seq(Range(records))
    /\ \A lines \in TableLines : lines \in Seq(Range(lines))
    /\ \A records \in SecurityRecords : \A r \in Range(records) :
         r.date \in Nat /\ IsFiniteSet(r.words) /\ r.references \in Seq(Range(r.references))
    /\ Snapshot \in Nat /\ SharedWords \in Nat \ {0} /\ DriftCounts \subseteq Nat

InitOverlap ==
    /\ rule = "overlap"
    /\ input \in [a : SecurityRecords, b : TableLines]
CorpusA == Incidents(input.a, [report |-> "advisory"], Snapshot)
CorpusB == TableRows(input.b)
Overlap ==
    LET found == Overlaps(CorpusA, CorpusB, SharedWords)
    IN  [found |-> found, agreement |-> Agreement(found, <<"A">>, <<"A", "B">>)]

\* No incident of either corpus is matched twice and none from after the
\* snapshot is matched; one of corpus B is left over only when each one it
\* shares a link, a CVE or words with went to another, or is hidden behind a
\* later record with the same link or CVE.  corpus_b_corroboration.py,
\* genai_agentic.py, owasp_asi.py.
OverlapsOneToOne ==
    rule = "overlap" /\ done =>
      LET a == CorpusA  b == CorpusB
          hidden(k, has(_)) == \E j \in DOMAIN a : j > k /\ has(a[j])
          offers(k, n) ==
            \/ b[n].url # "" /\ a[k].url = b[n].url /\ ~hidden(k, LAMBDA r : r.url = b[n].url)
            \/ \E c \in a[k].cves \cap b[n].cves : ~hidden(k, LAMBDA r : c \in r.cves)
            \/ Cardinality(a[k].words \cap b[n].words) >= SharedWords
          takenA == {m.a : m \in result.found}
          takenB == {m.b : m \in result.found}
      IN  /\ \A m, n \in result.found : m.a = n.a \/ m.b = n.b => m = n
          /\ \A k \in takenA : \E r \in Range(input.a) : r.id = a[k].id /\ r.date <= Snapshot
          /\ \A n \in DOMAIN b \ takenB : \A k \in DOMAIN a : offers(k, n) => k \in takenA
          /\ \A m \in result.found : offers(m.a, m.b)
          /\ result.agreement.agree \cup result.agreement.disagree = result.found

\* The counts of the entries in three weekly snapshots.
InitDrift == rule = "drift" /\ input \in [1 .. 3 -> [DriftEntries -> DriftCounts]]
DriftOutcome ==
    LET gate(k) == InferGate(TRUE, FALSE, 2, Drift(input[k], input[k + 1], 20, 50, 10), 0)
    IN  gate(1) = "satisfied" /\ gate(2) = "satisfied"

\* Without a sign-off in two weeks an entry's count moves by at most 44 in a
\* hundred and by at most 100, an entry that was absent reaches at most 12, and
\* none disappears.  drift.py, cli/main.py infer.
DriftIsBounded ==
    rule = "drift" /\ done /\ result =>
      \A e \in DriftEntries :
        LET before == input[1][e]  now == input[3][e]
        IN  IF before = 0 THEN now <= 12
            ELSE /\ now - before <= 100 /\ before - now <= 100
                 /\ 100 * now <= 144 * before /\ 100 * now >= 64 * before

(* ---- publication ---- *)

CONSTANTS RollupOf,     \* the parent of each rollup
          Rates,        \* what a folded rate may be
          BlindSets,    \* the frame-blind entries
          Tested,       \* the incidents the correction is measured on
          TestedClasses, \* their classes
          RecallFloor   \* the least recall divided by, in hundredths

\* Rollups are no incumbents and have one for a parent; the code's floor is 5.
ASSUME PublicationAssumption ==
    /\ RollupOf \in [DOMAIN RollupOf -> Range(List)] /\ IsFiniteSet(DOMAIN RollupOf)
    /\ DOMAIN RollupOf \cap Range(List) = {}
    /\ Rates \subseteq Nat /\ BlindSets \subseteq SUBSET Range(List)
    /\ IsFiniteSet(Tested) /\ OOS \notin TestedClasses /\ RecallFloor \in 1 .. 100

VotedOn == Range(List) \cup DOMAIN RollupOf

InitBlend ==
    /\ rule = "blend"
    /\ input \in [data : [VotedOn -> Rates], blind : BlindSets,
                  vote : {f \in [VotedOn -> 1 .. Cardinality(VotedOn)] : IsInjective(f)}]
Centred(f) == [e \in DOMAIN f |-> Cardinality(DOMAIN f) * f[e] - SumFunction(f)]
Blend ==
    LET folded == Fold(input.data, input.vote, List, RollupOf)
        place == Positions(Centred(DataRow(folded)), Centred(VoteRow(folded)), List, input.blind)
    IN  [place |-> place, order |-> Published(<<place>>, List)]

\* An incumbent that is ahead of another in its votes and in its data, its
\* rollups counted in, is published ahead of it; of two frame-blind ones the
\* vote alone decides.  blend.py.
BlendRespectsDominance ==
    rule = "blend" /\ done =>
      LET with(e) == {e} \cup {r \in DOMAIN RollupOf : RollupOf[r] = e}
          data(e) == SumFunctionOnSet(input.data, with(e))
          ahead(e, f) == \E x \in with(e) : \A y \in with(f) : input.vote[x] < input.vote[y]
          wins(e, f) == ahead(e, f) /\ (data(e) >= data(f) \/ {e, f} \subseteq input.blind)
          first(e, f) == \E j, k \in DOMAIN List :
                           j < k /\ result.order[j] = e /\ result.order[k] = f
      IN  \A e, f \in Range(List) :
            wins(e, f) /\ (e \in input.blind <=> f \in input.blind) =>
              result.place[e] < result.place[f] /\ first(e, f)

\* Incidents, two configs and the truth.
InitCorrect ==
    /\ rule = "correct"
    /\ input \in [class : [Tested -> TestedClasses], c1 : [Tested -> TestedClasses \cup {OOS}],
                  c2 : [Tested -> TestedClasses]]
Ensembled == [i \in Tested |-> Ensemble(<<"c1", "c2">>, [c1 |-> input.c1, c2 |-> input.c2], "c2", i)]
Correct == [c \in TestedClasses |-> Corrected(input.class, Ensembled, Tested, Tested, c, RecallFloor)]

\* Corrected by the precision and recall of the set it was counted on, the count
\* of a class is its true count, wherever the classifier found enough of the
\* class, and never above it: the correction has no bias of its own.
\* compute_robustness_validation.py.
CorrectionRecoversTruth ==
    rule = "correct" /\ done =>
      \A c \in TestedClasses :
        LET of == {i \in Tested : input.class[i] = c}
            found == {i \in of : input.c2[i] = c}
        IN  /\ result[c] <= Cardinality(of)
            /\ found # {} /\ 100 * Cardinality(found) >= RecallFloor * Cardinality(of) =>
                 result[c] = Cardinality(of)

Next ==
    /\ ~done /\ done' = TRUE
    /\ \/ rule = "classify" /\ result' = Classify
       \/ rule = "gate" /\ result' = GateResults
       \/ rule = "select" /\ result' = Select
       \/ rule = "lock" /\ result' = Lock
       \/ rule = "register" /\ result' = Register
       \/ rule = "gold" /\ result' = Merge
       \/ rule = "tally" /\ result' = TallyOutcome
       \/ rule = "oracle" /\ result' = Oracle
       \/ rule = "bootstrap" /\ result' = Bootstrap
       \/ rule = "synthetic" /\ result' = Synthetic
       \/ rule = "overlap" /\ result' = Overlap
       \/ rule = "drift" /\ result' = DriftOutcome
       \/ rule = "blend" /\ result' = Blend
       \/ rule = "correct" /\ result' = Correct
    /\ UNCHANGED <<rule, input>>

Init ==
    /\ \/ InitClassify \/ InitGate \/ InitSelect \/ InitLock \/ InitRegister
       \/ InitGold \/ InitTally \/ InitOracle \/ InitBootstrap \/ InitSynthetic
       \/ InitOverlap \/ InitDrift \/ InitBlend \/ InitCorrect
    /\ result = <<>> /\ done = FALSE

Spec == Init /\ [][Next]_vars
=============================================================================
