----------------------------- MODULE RulesProofs -----------------------------
(* Theorems about the rules, for every universe of inputs that satisfies the *)
(* assumptions of Rules.                                                      *)
EXTENDS Rules, DataLemmas

-----------------------------------------------------------------------------
(* A rule is applied to the input that was picked for it *)

Picked ==
    \/ InitClassify \/ InitGate \/ InitSelect \/ InitLock \/ InitRegister
    \/ InitGold \/ InitTally \/ InitOracle \/ InitBootstrap \/ InitSynthetic
    \/ InitOverlap \/ InitDrift \/ InitBlend \/ InitCorrect

\* What a rule that was applied has left.
Applied ==
    /\ rule = "classify" => result = Classify
    /\ rule = "gate" => result = GateResults
    /\ rule = "select" => result = Select
    /\ rule = "lock" => result = Lock
    /\ rule = "register" => result = Register
    /\ rule = "gold" => result = Merge
    /\ rule = "tally" => result = TallyOutcome
    /\ rule = "oracle" => result = Oracle
    /\ rule = "bootstrap" => result = Bootstrap
    /\ rule = "synthetic" => result = Synthetic
    /\ rule = "overlap" => result = Overlap
    /\ rule = "drift" => result = DriftOutcome
    /\ rule = "blend" => result = Blend
    /\ rule = "correct" => result = Correct

RuleInv == Picked /\ (done => Applied)

\* An outcome is a matter of the input alone.
LEMMA SameInput ==
    ASSUME input' = input
    PROVE  /\ Classify' = Classify /\ GateResults' = GateResults /\ Lock' = Lock
           /\ Register' = Register /\ Merge' = Merge /\ TallyOutcome' = TallyOutcome
           /\ Oracle' = Oracle /\ Bootstrap' = Bootstrap /\ Overlap' = Overlap
           /\ DriftOutcome' = DriftOutcome /\ Blend' = Blend /\ Correct' = Correct
           /\ Select' = Select /\ Synthetic' = Synthetic
<1>1. Classify' = Classify
  BY DEF Classify
<1>2. GateResults' = GateResults
  BY DEF GateResults
<1>3. Lock' = Lock
  BY DEF Lock
<1>4. Register' = Register
  BY DEF Register
<1>5. Merge' = Merge
  BY DEF Merge
<1>6. TallyOutcome' = TallyOutcome
  BY DEF TallyOutcome, HandedOut, Count
<1>7. Oracle' = Oracle
  BY DEF Oracle, RowsOf
<1>8. Bootstrap' = Bootstrap
  BY DEF Bootstrap
<1>9. Overlap' = Overlap
  BY DEF Overlap, CorpusA, CorpusB
<1>10. DriftOutcome' = DriftOutcome
  BY DEF DriftOutcome
<1>11. Blend' = Blend
  BY DEF Blend
<1>12. Correct' = Correct
  BY DEF Correct, Ensembled
<1>13. Select' = Select
  BY DEF Select
<1>14. Synthetic' = Synthetic
  BY DEF Synthetic
<1> QED BY <1>1, <1>2, <1>3, <1>4, <1>5, <1>6, <1>7, <1>8, <1>9, <1>10, <1>11, <1>12,
       <1>13, <1>14

\* The outcome of a behaviour is that of its rule on its input.
LEMMA RuleIsApplied == Spec => []RuleInv
<1>1. Init => RuleInv
  BY DEF Init, RuleInv, Picked
<1>2. ASSUME RuleInv, rule' = rule, input' = input PROVE Picked'
  <2>1. InitClassify => InitClassify'
    BY <1>2 DEF InitClassify
  <2>2. InitGate => InitGate'
    BY <1>2 DEF InitGate
  <2>3. InitSelect => InitSelect'
    BY <1>2 DEF InitSelect
  <2>4. (InitLock => InitLock') /\ (InitRegister => InitRegister')
    BY <1>2 DEF InitLock, InitRegister
  <2>5. (InitGold => InitGold') /\ (InitTally => InitTally')
    BY <1>2 DEF InitGold, InitTally
  <2>6. (InitOracle => InitOracle') /\ (InitBootstrap => InitBootstrap')
    BY <1>2 DEF InitOracle, InitBootstrap
  <2>7. (InitSynthetic => InitSynthetic') /\ (InitOverlap => InitOverlap')
    BY <1>2 DEF InitSynthetic, InitOverlap
  <2>8. (InitDrift => InitDrift') /\ (InitBlend => InitBlend')
    BY <1>2 DEF InitDrift, InitBlend
  <2>9. InitCorrect => InitCorrect'
    BY <1>2 DEF InitCorrect
  <2> QED BY <1>2, <2>1, <2>2, <2>3, <2>4, <2>5, <2>6, <2>7, <2>8, <2>9 DEF RuleInv, Picked
<1>3. ASSUME RuleInv, Next PROVE RuleInv'
  <2>1. rule' = rule /\ input' = input
    BY <1>3 DEF Next
  <2>2. Applied'
    BY <1>3, <2>1, SameInput DEF Next, Applied
  <2> QED BY <1>2, <1>3, <2>1, <2>2 DEF RuleInv
<1>4. ASSUME RuleInv, UNCHANGED vars PROVE RuleInv'
  <2>1. rule' = rule /\ input' = input /\ result' = result /\ done' = done
    BY <1>4 DEF vars
  <2>2. done' => Applied'
    BY <1>4, <2>1, SameInput DEF RuleInv, Applied
  <2> QED BY <1>2, <1>4, <2>1, <2>2 DEF RuleInv
<1> QED BY <1>1, <1>3, <1>4, PTL DEF Spec

\* The name of the rule tells where the input is from.
LEMMA PickedFor ==
    ASSUME Picked
    PROVE  /\ rule = "classify" => InitClassify
           /\ rule = "gate" => InitGate
           /\ rule = "select" => InitSelect
           /\ rule = "lock" => InitLock
           /\ rule = "register" => InitRegister
           /\ rule = "gold" => InitGold
           /\ rule = "tally" => InitTally
           /\ rule = "oracle" => InitOracle
           /\ rule = "bootstrap" => InitBootstrap
           /\ rule = "synthetic" => InitSynthetic
           /\ rule = "overlap" => InitOverlap
           /\ rule = "drift" => InitDrift
           /\ rule = "blend" => InitBlend
           /\ rule = "correct" => InitCorrect
<1>1. InitClassify => rule = "classify"
  BY DEF InitClassify
<1>2. InitGate => rule = "gate"
  BY DEF InitGate
<1>3. InitSelect => rule = "select"
  BY DEF InitSelect
<1>4. InitLock => rule = "lock"
  BY DEF InitLock
<1>5. InitRegister => rule = "register"
  BY DEF InitRegister
<1>6. InitGold => rule = "gold"
  BY DEF InitGold
<1>7. InitTally => rule = "tally"
  BY DEF InitTally
<1>8. InitOracle => rule = "oracle"
  BY DEF InitOracle
<1>9. InitBootstrap => rule = "bootstrap"
  BY DEF InitBootstrap
<1>10. InitSynthetic => rule = "synthetic"
  BY DEF InitSynthetic
<1>11. InitOverlap => rule = "overlap"
  BY DEF InitOverlap
<1>12. InitDrift => rule = "drift"
  BY DEF InitDrift
<1>13. InitBlend => rule = "blend"
  BY DEF InitBlend
<1>14. InitCorrect => rule = "correct"
  BY DEF InitCorrect
<1> QED BY <1>1, <1>2, <1>3, <1>4, <1>5, <1>6, <1>7,
          <1>8, <1>9, <1>10, <1>11, <1>12, <1>13, <1>14 DEF Picked

-----------------------------------------------------------------------------
(* Drift *)

\* Two weeks without a sign-off are two weeks without an anomaly.
LEMMA NoAnomaly ==
    ASSUME NEW prev, NEW curr, DOMAIN prev = DriftEntries, DOMAIN curr = DriftEntries,
           InferGate(TRUE, FALSE, 2, Drift(prev, curr, 20, 50, 10), 0) = "satisfied",
           NEW e \in DriftEntries
    PROVE  ~Anomaly(prev[e], curr[e], 20, 50, 10)
<1>1. Drift(prev, curr, 20, 50, 10) = {}
  BY DEF InferGate
<1> QED BY <1>1 DEF Drift

\* What one week lets through, in numbers.
LEMMA QuietWeek ==
    ASSUME NEW before \in Nat, NEW now \in Nat, ~Anomaly(before, now, 20, 50, 10)
    PROVE  /\ before = 0 => now <= 10
           /\ before # 0 => /\ now - before <= 50 /\ before - now <= 50
                            /\ 100 * now <= 120 * before /\ 100 * now >= 80 * before
BY DEF Anomaly

LEMMA TwoQuietWeeks ==
    ASSUME NEW a \in Nat, NEW b \in Nat, NEW c \in Nat,
           ~Anomaly(a, b, 20, 50, 10), ~Anomaly(b, c, 20, 50, 10)
    PROVE  /\ a = 0 => c <= 12
           /\ a # 0 => /\ c - a <= 100 /\ a - c <= 100
                       /\ 100 * c <= 144 * a /\ 100 * c >= 64 * a
<1>1. /\ a = 0 => b <= 10
      /\ a # 0 => b - a <= 50 /\ a - b <= 50 /\ 100 * b <= 120 * a /\ 100 * b >= 80 * a
  BY QuietWeek
<1>2. /\ b = 0 => c <= 10
      /\ b # 0 => c - b <= 50 /\ b - c <= 50 /\ 100 * c <= 120 * b /\ 100 * c >= 80 * b
  BY QuietWeek
<1>3. CASE a = 0
  BY <1>1, <1>2, <1>3
<1>4. CASE a # 0
  <2>1. b # 0
    BY <1>1, <1>4
  <2> QED BY <1>1, <1>2, <1>4, <2>1
<1> QED BY <1>3, <1>4

LEMMA DriftRule == ASSUME CorpusAssumption, InitDrift, done, result = DriftOutcome PROVE DriftIsBounded
<1> SUFFICES ASSUME result, NEW e \in DriftEntries
             PROVE  LET before == input[1][e]  now == input[3][e]
                    IN  IF before = 0 THEN now <= 12
                        ELSE /\ now - before <= 100 /\ before - now <= 100
                             /\ 100 * now <= 144 * before /\ 100 * now >= 64 * before
  BY DEF DriftIsBounded
<1>1. input \in [1 .. 3 -> [DriftEntries -> DriftCounts]] /\ DriftCounts \subseteq Nat
  BY DEF InitDrift, CorpusAssumption
<1>2. /\ input[1] \in [DriftEntries -> DriftCounts] /\ input[2] \in [DriftEntries -> DriftCounts]
      /\ input[3] \in [DriftEntries -> DriftCounts]
  BY <1>1
<1>3. /\ DOMAIN input[1] = DriftEntries /\ DOMAIN input[2] = DriftEntries
      /\ DOMAIN input[3] = DriftEntries
      /\ input[1][e] \in Nat /\ input[2][e] \in Nat /\ input[3][e] \in Nat
  BY <1>1, <1>2
<1>4. 1 + 1 = 2 /\ 2 + 1 = 3
  OBVIOUS
<1>5. InferGate(TRUE, FALSE, 2, Drift(input[1], input[2], 20, 50, 10), 0) = "satisfied"
  BY <1>4 DEF DriftOutcome
<1>6. InferGate(TRUE, FALSE, 2, Drift(input[2], input[3], 20, 50, 10), 0) = "satisfied"
  BY <1>4 DEF DriftOutcome
<1>7. ~Anomaly(input[1][e], input[2][e], 20, 50, 10) /\ ~Anomaly(input[2][e], input[3][e], 20, 50, 10)
  BY <1>3, <1>5, <1>6, NoAnomaly
<1>8. /\ input[1][e] = 0 => input[3][e] <= 12
      /\ input[1][e] # 0 =>
           /\ input[3][e] - input[1][e] <= 100 /\ input[1][e] - input[3][e] <= 100
           /\ 100 * input[3][e] <= 144 * input[1][e] /\ 100 * input[3][e] >= 64 * input[1][e]
  <2> DEFINE a == input[1][e]  b == input[2][e]  c == input[3][e]
  <2>1. /\ a \in Nat /\ b \in Nat /\ c \in Nat
        /\ ~Anomaly(a, b, 20, 50, 10) /\ ~Anomaly(b, c, 20, 50, 10)
    BY <1>3, <1>7
  <2> HIDE DEF a, b, c
  <2>2. /\ a = 0 => c <= 12
        /\ a # 0 => /\ c - a <= 100 /\ a - c <= 100
                    /\ 100 * c <= 144 * a /\ 100 * c >= 64 * a
    BY <2>1, TwoQuietWeeks
  <2> QED BY <2>2 DEF a, b, c
<1> QED BY <1>8

\* What two weekly gates let through without a sign-off is bounded, for every
\* number of entries and whatever their counts.
THEOREM DriftBounded == Spec => []DriftIsBounded
<1>1. RuleInv => DriftIsBounded
  <2> SUFFICES ASSUME RuleInv, rule = "drift", done PROVE DriftIsBounded
    BY DEF DriftIsBounded
  <2>1. InitDrift
    BY PickedFor DEF RuleInv
  <2> QED BY <2>1, DriftRule, CorpusAssumption DEF RuleInv, Applied
<1> QED BY <1>1, RuleIsApplied, PTL

-----------------------------------------------------------------------------
(* Replies and the gate *)

LEMMA ReplyForms ==
    ASSUME NEW t \in Replies
    PROVE  \/ t.form \in {"text", "list", "error"}
           \/ t.form = "object" /\ t.confidence \in {"number", "word", "null"}
BY DEF Replies, Reply

\* The two readings of one reply.
LEMMA TwoReadings ==
    ASSUME NEW t \in Replies, t.form # "error", NEW valid, OOS \in valid
    PROVE  /\ Parsed(t, valid) = Shipped(t, valid) \/ (t.form = "object" /\ t.confidence # "number")
           /\ Shipped(t, valid) \in valid \cup {"raises"}
           /\ Parsed(t, valid) \in valid \cup {"raises"}
<1>1. CASE t.form = "text"
  BY <1>1 DEF Parsed, Shipped, IsObject
<1>2. CASE t.form = "list"
  BY <1>2 DEF Parsed, Shipped, IsObject
<1>3. CASE t.form = "object" /\ t.confidence \in {"number", "word", "null"}
  BY <1>3 DEF Parsed, Shipped, IsObject
<1> QED BY <1>1, <1>2, <1>3, ReplyForms

LEMMA GateInput ==
    ASSUME InitGate
    PROVE  /\ \A p \in Probes : input.replies[p] \in Replies
           /\ DOMAIN input.target = Probes /\ OOS \in input.valid /\ input.threshold \in PassRates
<1>1. /\ input.replies \in [Probes -> Replies] /\ input.target \in [Probes -> Entries]
      /\ input.valid \in {E \cup {OOS} : E \in SUBSET Entries} /\ input.threshold \in PassRates
  BY DEF InitGate
<1> QED BY <1>1

\* Bench and ship read a reply alike, for every set of probes and entries.
THEOREM BenchIsShip == Spec => []BenchAndShipAgree
<1>1. RuleInv => BenchAndShipAgree
  <2> SUFFICES ASSUME RuleInv, rule = "gate", done PROVE BenchAndShipAgree
    BY DEF BenchAndShipAgree
  <2>1. InitGate
    BY PickedFor DEF RuleInv
  <2> QED BY <2>1, GateInput, TwoReadings DEF BenchAndShipAgree
<1> QED BY <1>1, RuleIsApplied, PTL

\* A probe that is credited to the config was answered and shipped another entry.
LEMMA ResistedIsNotLost ==
    ASSUME NEW t \in Replies, NEW target, NEW valid, OOS \in valid, target # OOS,
           target # "raises", Resisted(t, target, valid)
    PROVE  t.form \notin {"error", "list"} /\ Shipped(t, valid) # target
<1>1. t.form # "error" /\ Parsed(t, valid) \notin {"raises", target}
  BY DEF Resisted
<1>2. t.form # "list"
  BY <1>1 DEF Parsed, IsObject
<1>3. Shipped(t, valid) # target
  <2>1. CASE t.form = "text"
    BY <2>1 DEF Parsed, Shipped, IsObject
  <2>2. CASE t.form = "object" /\ t.confidence \in {"number", "word", "null"}
    BY <1>1, <2>2 DEF Parsed, Shipped, IsObject
  <2> QED BY <1>1, <1>2, <2>1, <2>2, ReplyForms
<1> QED BY <1>1, <1>2, <1>3

\* A rounded rate that reaches an integer was at least that before rounding.
LEMMA RateReached ==
    ASSUME NEW a \in Nat, NEW n \in Nat, n # 0, NEW r \in Nat,
           (a * ConfidenceScale) \div n >= r
    PROVE  a * ConfidenceScale >= r * n
<1> DEFINE q == (a * ConfidenceScale) \div n
<1>1. a * ConfidenceScale \in Nat
  BY DEF ConfidenceScale
<1>2. q \in Nat /\ q * n <= a * ConfidenceScale
  BY <1>1
<1>3. q >= r
  OBVIOUS
<1> HIDE DEF q
<1>4. q * n >= r * n
  BY <1>2, <1>3
<1> QED BY <1>1, <1>2, <1>4

LEMMA GateRule == ASSUME ClassificationAssumption, InitGate, done, result = GateResults PROVE GatePassMeansResisted
<1> DEFINE lost == {p \in Probes :
              LET t == input.replies[p]
              IN  t.form \in {"error", "list"} \/ Shipped(t, input.valid) = input.target[p]}
           resisted == {p \in Probes : Resisted(input.replies[p], input.target[p], input.valid)}
           gate == Gate(input.replies, input.target, input.valid, input.threshold)
<1>1. result.gate = gate /\ result.eligible = Eligible({"c1", "c2"}, [c \in {"c1"} |-> gate])
  BY DEF GateResults
<1>2. IsFiniteSet(resisted) /\ IsFiniteSet(Probes \ lost) /\ resisted \subseteq Probes \ lost
  <2>1. \A p \in Probes : input.target[p] \in Entries
    BY DEF InitGate
  <2>2. resisted \subseteq Probes \ lost
    BY <2>1, GateInput, ResistedIsNotLost DEF ClassificationAssumption
  <2> QED BY <2>2, FS_Subset DEF ClassificationAssumption
<1>3. ASSUME gate = "passed"
      PROVE  Cardinality(Probes \ lost) * ConfidenceScale >= input.threshold * Cardinality(Probes)
  <2> DEFINE n == Cardinality(Probes)  a == Cardinality(resisted)  b == Cardinality(Probes \ lost)
  <2>1. n \in Nat /\ a \in Nat /\ b \in Nat /\ a <= b /\ input.threshold \in Nat
    BY <1>2, GateInput, FS_CardinalityType, FS_Subset DEF ClassificationAssumption
  <2>2. CASE Probes = {}
    <3>1. n = 0
      BY <2>2, FS_EmptySet
    <3> HIDE DEF n, b
    <3>2. b * ConfidenceScale \in Nat /\ input.threshold * n = 0
      BY <2>1, <3>1 DEF ConfidenceScale
    <3> QED BY <3>2 DEF n, b
  <2>3. CASE Probes # {}
    <3>1. n # 0
      BY <2>3, FS_EmptySet DEF ClassificationAssumption
    <3>2. (a * ConfidenceScale) \div n >= input.threshold
      BY <1>3, <2>3, GateInput DEF Gate
    <3> HIDE DEF n, a, b
    <3>3. a * ConfidenceScale >= input.threshold * n
      BY <2>1, <3>1, <3>2, RateReached
    <3>4. b * ConfidenceScale >= a * ConfidenceScale
      BY <2>1 DEF ConfidenceScale
    <3>5. b * ConfidenceScale \in Nat /\ a * ConfidenceScale \in Nat /\ input.threshold * n \in Nat
      BY <2>1 DEF ConfidenceScale
    <3>6. b * ConfidenceScale >= input.threshold * n
      BY <3>3, <3>4, <3>5
    <3> QED BY <3>6 DEF n, b
  <2> QED BY <2>2, <2>3
<1>4. gate # "refused" => {input.target[p] : p \in Probes} \subseteq input.valid
  BY GateInput DEF Gate, Range
<1>5. result.eligible = (IF gate = "passed" THEN {"c1"} ELSE {})
  BY <1>1 DEF Eligible
<1> QED BY <1>1, <1>3, <1>4, <1>5 DEF GatePassMeansResisted

\* A pass is earned, for every number of probes, every rubric and threshold.
THEOREM PassIsEarned == Spec => []GatePassMeansResisted
<1>1. RuleInv => GatePassMeansResisted
  <2> SUFFICES ASSUME RuleInv, rule = "gate", done PROVE GatePassMeansResisted
    BY DEF GatePassMeansResisted
  <2>1. InitGate
    BY PickedFor DEF RuleInv
  <2> QED BY <2>1, GateRule, ClassificationAssumption DEF RuleInv, Applied
<1> QED BY <1>1, RuleIsApplied, PTL

-----------------------------------------------------------------------------
(* The lock *)

\* Loadable manifests of the schemas before a field was added have it unset.
LEMMA LateFieldsUnset ==
    ASSUME ManifestAssumption, NEW m \in Manifests, Loadable(m)
    PROVE  /\ m.schema < 3 => m.f6 = "off"
           /\ m.schema < 4 => m.power = "off"
BY DEF ManifestAssumption, Loadable

\* The hash tells its fields and their values.
LEMMA HashTells ==
    ASSUME NEW m, NEW n, LockHash(m) = LockHash(n)
    PROVE  /\ HashedFields(m.schema) = HashedFields(n.schema)
           /\ \A f \in HashedFields(m.schema) : m[f] = n[f]
<1>1. DOMAIN LockHash(m) = DOMAIN LockHash(n)
  OBVIOUS
<1>2. HashedFields(m.schema) = HashedFields(n.schema)
  BY <1>1 DEF LockHash, Restrict
<1>3. \A f \in HashedFields(m.schema) : LockHash(m)[f] = LockHash(n)[f]
  OBVIOUS
<1> QED BY <1>2, <1>3 DEF LockHash, Restrict

LEMMA LockRule == ASSUME ManifestAssumption, InitLock, done, result = Lock PROVE LockPinsTheAnalysis
<1> DEFINE m == input[1]  n == input[2]
<1> SUFFICES ASSUME result.same, NEW f \in Fields, m[f] # n[f]
             PROVE  f \in (IF m.schema = 1 THEN SchemaTwoFields \ {"schema"} ELSE {})
  BY DEF LockPinsTheAnalysis
<1>1. m \in Manifests /\ n \in Manifests
  BY DEF InitLock
<1>2. m.schema \in 1 .. 4 /\ n.schema \in 1 .. 4
  BY <1>1 DEF ManifestAssumption
<1>3. Loadable(m) /\ Loadable(n) /\ LockHash(n) = LockHash(m)
  BY DEF Lock, LockVerifies
<1>4. HashedFields(m.schema) = HashedFields(n.schema) /\ \A g \in HashedFields(m.schema) : m[g] = n[g]
  BY <1>3, HashTells
<1>5. m.schema = n.schema
  <2>1. CASE m.schema = 1
    <3>1. "schema" \notin HashedFields(n.schema)
      BY <2>1, <1>4 DEF HashedFields, SchemaTwoFields
    <3> QED BY <1>2, <2>1, <3>1 DEF HashedFields, SchemaTwoFields, Fields
  <2>2. CASE m.schema # 1
    <3>1. "schema" \in HashedFields(m.schema)
      BY <1>2, <2>2 DEF HashedFields, SchemaTwoFields, Fields
    <3> QED BY <1>4, <3>1
  <2> QED BY <2>1, <2>2
<1>6. f \notin HashedFields(m.schema)
  BY <1>4
<1>7. m.schema < 3 => m.f6 = n.f6
  BY <1>1, <1>3, <1>5, LateFieldsUnset
<1>8. m.schema < 4 => m.power = n.power
  BY <1>1, <1>3, <1>5, LateFieldsUnset
<1>9. f # "f6" /\ f # "power" /\ f # "schema"
  BY <1>2, <1>5, <1>6, <1>7, <1>8 DEF HashedFields, SchemaTwoFields, Fields
<1> QED BY <1>2, <1>6, <1>9 DEF HashedFields, SchemaTwoFields, Fields

\* A lock pins the analysis, whatever the manifests.
THEOREM LockPins == Spec => []LockPinsTheAnalysis
<1>1. RuleInv => LockPinsTheAnalysis
  <2> SUFFICES ASSUME RuleInv, rule = "lock", done PROVE LockPinsTheAnalysis
    BY DEF LockPinsTheAnalysis
  <2>1. InitLock
    BY PickedFor DEF RuleInv
  <2> QED BY <2>1, LockRule, ManifestAssumption DEF RuleInv, Applied
<1> QED BY <1>1, RuleIsApplied, PTL

-----------------------------------------------------------------------------
(* The register of post-hoc analyses *)

\* The hashes of a chain over a list, from none to all of its entries.
Chains(p, chain) ==
    chain = [k \in 0 .. Len(p) |-> IF k = 0 THEN <<>> ELSE <<chain[k - 1], p[k]>>]

LEMMA ChainExists ==
    ASSUME NEW p, Len(p) \in Nat
    PROVE  \E chain : Chains(p, chain)
<1> DEFINE UpTo(n, c) == c = [k \in 0 .. n |-> IF k = 0 THEN <<>> ELSE <<c[k - 1], p[k]>>]
           Ok == {n \in Nat : \E c : UpTo(n, c)}
<1>1. 0 \in Ok
  <2>1. UpTo(0, [k \in 0 .. 0 |-> <<>>])
    OBVIOUS
  <2>2. \E c : UpTo(0, c)
    BY <2>1
  <2> HIDE DEF UpTo
  <2> QED BY <2>2
<1>2. ASSUME NEW n \in Ok PROVE n + 1 \in Ok
  <2>1. n \in Nat /\ n + 1 \in Nat
    OBVIOUS
  <2>2. PICK c : UpTo(n, c)
    OBVIOUS
  <2> DEFINE more == [k \in 0 .. n + 1 |-> IF k = 0 THEN <<>> ELSE <<c[k - 1], p[k]>>]
  <2>3. \A k \in 0 .. n : more[k] = c[k]
    <3> TAKE k \in 0 .. n
    <3>1. c[k] = IF k = 0 THEN <<>> ELSE <<c[k - 1], p[k]>>
      BY <2>2
    <3>2. k \in 0 .. n + 1
      BY <2>1
    <3> QED BY <3>1, <3>2
  <2>4. \A k \in 0 .. n + 1 : k # 0 => k - 1 \in 0 .. n
    BY <2>1
  <2>5. \A k \in 0 .. n + 1 : k # 0 => c[k - 1] = more[k - 1]
    BY <2>3, <2>4
  <2>6. UpTo(n + 1, more)
    BY <2>5
  <2>7. \E d : UpTo(n + 1, d)
    <3> HIDE DEF UpTo
    <3> QED BY <2>6
  <2> HIDE DEF UpTo
  <2> QED BY <2>1, <2>7
<1>3. Nat \subseteq Ok
  <2> HIDE DEF Ok
  <2> QED BY <1>1, <1>2, AllNumbers
<1>4. Len(p) \in Ok
  BY <1>3
<1> QED BY <1>4 DEF Chains

LEMMA ChainIs ==
    ASSUME NEW p, Len(p) \in Nat
    PROVE  /\ Chain(p)[0] = <<>>
           /\ \A k \in 1 .. Len(p) : Chain(p)[k] = <<Chain(p)[k - 1], p[k]>>
<1>1. Chain(p) = CHOOSE chain : Chains(p, chain)
  BY DEF Chain, Chains, Link, Genesis
<1>2. Chains(p, Chain(p))
  BY <1>1, ChainExists
<1>3. \A k \in 0 .. Len(p) :
        Chain(p)[k] = IF k = 0 THEN <<>> ELSE <<Chain(p)[k - 1], p[k]>>
  BY <1>2 DEF Chains
<1>4. 0 \in 0 .. Len(p) /\ \A k \in 1 .. Len(p) : k \in 0 .. Len(p) /\ k # 0
  OBVIOUS
<1> QED BY <1>3, <1>4

\* A chain tells how long the list is and what is on it.
LEMMA ChainTells ==
    ASSUME NEW p, Len(p) \in Nat, NEW q, Len(q) \in Nat, Chain(p)[Len(p)] = Chain(q)[Len(q)]
    PROVE  Len(p) = Len(q) /\ \A k \in 1 .. Len(p) : p[k] = q[k]
<1> DEFINE Ok == {m \in Nat : m <= Len(p) => \A n \in 0 .. Len(q) : Chain(p)[m] = Chain(q)[n] =>
                                m = n /\ \A k \in 1 .. m : p[k] = q[k]}
<1>1. 0 \in Ok
  <2> SUFFICES ASSUME NEW n \in 0 .. Len(q), Chain(p)[0] = Chain(q)[n] PROVE n = 0
    OBVIOUS
  <2>1. n # 0 => Chain(q)[n] = <<Chain(q)[n - 1], q[n]>>
    BY ChainIs
  <2>2. Chain(p)[0] = <<>>
    BY ChainIs
  <2> QED BY <2>1, <2>2
<1>2. ASSUME NEW m \in Ok PROVE m + 1 \in Ok
  <2>1. m \in Nat /\ m + 1 \in Nat
    OBVIOUS
  <2>2. ASSUME m + 1 <= Len(p), NEW n \in 0 .. Len(q), Chain(p)[m + 1] = Chain(q)[n]
        PROVE  m + 1 = n /\ \A k \in 1 .. m + 1 : p[k] = q[k]
    <3>1. Chain(p)[m + 1] = <<Chain(p)[m], p[m + 1]>>
      <4>1. m + 1 \in 1 .. Len(p) /\ (m + 1) - 1 = m
        BY <2>1, <2>2
      <4> QED BY <4>1, ChainIs
    <3>2. n # 0
      <4>1. Chain(q)[0] = <<>>
        BY ChainIs
      <4>2. <<Chain(p)[m], p[m + 1]>> # <<>>
        OBVIOUS
      <4> QED BY <2>2, <3>1, <4>1, <4>2
    <3>3. Chain(q)[n] = <<Chain(q)[n - 1], q[n]>>
      BY <3>2, ChainIs
    <3>4. Chain(p)[m] = Chain(q)[n - 1] /\ p[m + 1] = q[n]
      <4>1. <<Chain(p)[m], p[m + 1]>> = <<Chain(q)[n - 1], q[n]>>
        BY <2>2, <3>1, <3>3
      <4> QED BY <4>1
    <3>5. n - 1 \in 0 .. Len(q) /\ m <= Len(p)
      BY <2>1, <2>2, <3>2
    <3>6. m = n - 1 /\ \A k \in 1 .. m : p[k] = q[k]
      BY <2>1, <3>4, <3>5
    <3>7. m + 1 = n
      BY <2>1, <3>6
    <3> QED BY <2>1, <3>4, <3>6, <3>7
  <2> QED BY <2>1, <2>2
<1>3. Nat \subseteq Ok
  <2> HIDE DEF Ok
  <2> QED BY <1>1, <1>2, AllNumbers
<1> QED BY <1>3

LEMMA RegisterRule ==
    ASSUME ManifestAssumption, InitRegister, done, result = Register
    PROVE  RegisterIsTamperEvident
<1> DEFINE W == input.written  E == input.edited
           original == WriteRegister(W)
           edited == [entries |-> [k \in DOMAIN E |->
                        [payload |-> E[k],
                         chain |-> IF k <= Len(input.links) THEN Chain(input.links)[k] ELSE <<>>]],
                      terminal |-> original.terminal]
<1>1. W \in Seq(Payloads) /\ E \in Seq(Payloads)
  <2>1. W \in Registers /\ E \in Registers
    BY DEF InitRegister
  <2> QED BY <2>1 DEF Registers, SeqOf
<1>2. Len(W) \in Nat /\ Len(E) \in Nat /\ DOMAIN W = 1 .. Len(W) /\ DOMAIN E = 1 .. Len(E)
  BY <1>1
<1>3. result.reads = RegisterVerifies(original) /\ result.accepted = RegisterVerifies(edited)
  BY DEF Register
<1>4. [k \in DOMAIN original.entries |-> original.entries[k].payload] = W
  <2>1. /\ DOMAIN original.entries = DOMAIN W
        /\ \A k \in DOMAIN W : original.entries[k].payload = W[k]
    BY DEF WriteRegister
  <2>2. W = [k \in DOMAIN W |-> W[k]]
    BY <1>1
  <2> HIDE DEF original, W
  <2> QED BY <2>1, <2>2
<1>5. [k \in DOMAIN edited.entries |-> edited.entries[k].payload] = E
  <2>1. DOMAIN edited.entries = DOMAIN E /\ \A k \in DOMAIN E : edited.entries[k].payload = E[k]
    OBVIOUS
  <2>2. E = [k \in DOMAIN E |-> E[k]]
    BY <1>1
  <2> HIDE DEF edited, E
  <2> QED BY <2>1, <2>2
<1>6. Len(original.entries) = Len(W) /\ Len(edited.entries) = Len(E)
  BY <1>2 DEF WriteRegister
<1>7. RegisterVerifies(original)
  <2>1. \A k \in DOMAIN original.entries : original.entries[k].chain = Chain(W)[k]
    BY DEF WriteRegister
  <2>2. original.terminal = Chain(W)[Len(W)]
    BY DEF WriteRegister
  <2> HIDE DEF original
  <2> QED BY <1>4, <1>6, <2>1, <2>2 DEF RegisterVerifies
<1>8. ASSUME RegisterVerifies(edited) PROVE E = W
  <2>1. edited.terminal = Chain(E)[Len(E)]
    <3> HIDE DEF edited, E
    <3> QED BY <1>5, <1>6, <1>8 DEF RegisterVerifies
  <2>2. edited.terminal = Chain(W)[Len(W)]
    BY DEF WriteRegister
  <2>3. Len(E) = Len(W) /\ \A k \in 1 .. Len(E) : E[k] = W[k]
    BY <1>2, <2>1, <2>2, ChainTells
  <2> QED BY <1>1, <1>2, <2>3
<1> QED BY <1>3, <1>7, <1>8 DEF RegisterIsTamperEvident

\* A register that verifies was not edited, however long it is and whatever the
\* stored links were changed to.
THEOREM TamperEvident == Spec => []RegisterIsTamperEvident
<1>1. RuleInv => RegisterIsTamperEvident
  <2> SUFFICES ASSUME RuleInv, rule = "register", done PROVE RegisterIsTamperEvident
    BY DEF RegisterIsTamperEvident
  <2>1. InitRegister
    BY PickedFor DEF RuleInv
  <2> QED BY <2>1, RegisterRule, ManifestAssumption DEF RuleInv, Applied
<1> QED BY <1>1, RuleIsApplied, PTL

-----------------------------------------------------------------------------
(* The correction by precision and recall *)

\* Of two configs that both vote, the tie breaker is followed.
LEMMA BreakerIsFollowed ==
    ASSUME InitCorrect, NEW i \in Tested
    PROVE  Ensembled[i] = input.c2[i]
<1> DEFINE configs == <<"c1", "c2">>
           preds == [c1 |-> input.c1, c2 |-> input.c2]
           keep == {k \in DOMAIN configs : i \in DOMAIN preds[configs[k]]}
           voting == Kept(configs, keep)
           tally(v) == Cardinality({k \in DOMAIN voting : preds[voting[k]][i] = v})
<1>1. /\ input.c1 \in [Tested -> TestedClasses \cup {OOS}] /\ input.c2 \in [Tested -> TestedClasses]
  BY DEF InitCorrect
<1>2. keep = {1, 2}
  BY <1>1
<1>3. voting = <<"c1", "c2">>
  BY <1>2, KeptPair
<1>4. /\ DOMAIN voting = {1, 2} /\ voting # <<>> /\ voting[2] = "c2"
      /\ preds[voting[1]][i] = input.c1[i] /\ preds[voting[2]][i] = input.c2[i]
      /\ preds["c2"][i] = input.c2[i]
  <2> HIDE DEF voting
  <2> QED BY <1>3
<1>5. ASSUME NEW k \in DOMAIN voting PROVE tally(preds[voting[k]][i]) <= tally(preds["c2"][i])
  <2> HIDE DEF voting, preds
  <2>1. k \in {1, 2}
    BY <1>4
  <2>2. CASE input.c1[i] = input.c2[i]
    <3>1. preds[voting[k]][i] = preds["c2"][i]
      BY <1>4, <2>1, <2>2
    <3>2. IsFiniteSet({1, 2})
      BY Pair
    <3>3. tally(preds["c2"][i]) \in Nat
      BY <1>4, <3>2, CountSubset
    <3> QED BY <3>1, <3>3
  <2>3. CASE input.c1[i] # input.c2[i]
    <3>1. {j \in DOMAIN voting : preds[voting[j]][i] = input.c1[i]} = {1}
      BY <1>4, <2>3
    <3>2. {j \in DOMAIN voting : preds[voting[j]][i] = input.c2[i]} = {2}
      BY <1>4, <2>3
    <3>3. tally(input.c1[i]) = 1 /\ tally(input.c2[i]) = 1
      BY <3>1, <3>2, FS_Singleton
    <3>4. tally(preds[voting[k]][i]) = 1
      BY <1>4, <2>1, <3>3
    <3> QED BY <1>4, <3>3, <3>4
  <2> QED BY <2>2, <2>3
<1>6. Ensembled[i] = Ensemble(configs, preds, "c2", i)
  BY DEF Ensembled
<1>7. Ensemble(configs, preds, "c2", i) = preds["c2"][i]
  <2> HIDE DEF configs, preds
  <2> QED BY <1>4, <1>5, Zenon DEF Ensemble, Range
<1> QED BY <1>6, <1>7

\* The corrected count, from the four numbers it is made of.
LEMMA CorrectedCount ==
    ASSUME NEW tp \in Nat, NEW fn \in Nat, NEW fp \in Nat, NEW floor \in 1 .. 100,
           tp # 0, NEW corrected,
           corrected = IF 100 * tp < floor * (tp + fn)
                       THEN ((tp + fp) * tp * 100) \div ((tp + fp) * floor)
                       ELSE ((tp + fp) * (tp + fn)) \div (tp + fp)
    PROVE  /\ corrected <= tp + fn
           /\ 100 * tp >= floor * (tp + fn) => corrected = tp + fn
<1> DEFINE of == tp + fn  seen == tp + fp
<1>1. of \in Nat /\ seen \in Nat \ {0} /\ floor \in Nat \ {0} /\ 100 * tp \in Nat
  OBVIOUS
<1>2. floor * of \in Nat /\ seen * of \in Nat /\ seen * floor \in Nat \ {0} /\ seen * (100 * tp) \in Nat
  BY <1>1
<1> HIDE DEF of, seen
<1>3. CASE 100 * tp < floor * of
  <2>1. seen * (100 * tp) <= seen * (floor * of)
    BY <1>1, <1>2, <1>3, TimesOrder
  <2>2. seen * tp * 100 = seen * (100 * tp) /\ seen * (floor * of) = of * (seen * floor)
    BY <1>1
  <2>3. (seen * (100 * tp)) \div (seen * floor) <= of
    BY <1>1, <1>2, <2>1, <2>2, DivBound
  <2> QED BY <1>1, <1>2, <1>3, <2>2, <2>3 DEF of, seen
<1>4. CASE ~(100 * tp < floor * of)
  <2>1. (seen * of) \div seen = of
    BY <1>1, DivExact
  <2> QED BY <1>1, <1>4, <2>1 DEF of, seen
<1> QED BY <1>3, <1>4

LEMMA CorrectRule ==
    ASSUME PublicationAssumption, InitCorrect, done, result = Correct
    PROVE  CorrectionRecoversTruth
<1> SUFFICES ASSUME NEW c \in TestedClasses
             PROVE  LET of == {i \in Tested : input.class[i] = c}
                        found == {i \in of : input.c2[i] = c}
                    IN  /\ result[c] <= Cardinality(of)
                        /\ found # {} /\ 100 * Cardinality(found) >= RecallFloor * Cardinality(of) =>
                             result[c] = Cardinality(of)
  BY DEF CorrectionRecoversTruth
<1> DEFINE of == {i \in Tested : input.class[i] = c}
           found == {i \in of : input.c2[i] = c}
           missed == {i \in Tested : input.class[i] = c /\ Ensembled[i] # c}
           wrong == {i \in Tested : input.class[i] # c /\ Ensembled[i] = c}
           hits == {i \in Tested : input.class[i] = c /\ Ensembled[i] = c}
           seen == {i \in Tested : Ensembled[i] = c}
<1>1. hits = found /\ of = hits \cup missed /\ hits \cap missed = {}
  BY BreakerIsFollowed
<1>2. seen = hits \cup wrong /\ hits \cap wrong = {}
  OBVIOUS
<1>3. /\ IsFiniteSet(hits) /\ IsFiniteSet(missed) /\ IsFiniteSet(wrong)
      /\ Cardinality(hits) \in Nat /\ Cardinality(missed) \in Nat /\ Cardinality(wrong) \in Nat
  <2>1. IsFiniteSet(Tested)
    BY DEF PublicationAssumption
  <2> QED BY <2>1, FS_Subset, FS_CardinalityType
<1>4. Cardinality(of) = Cardinality(hits) + Cardinality(missed)
  BY <1>1, <1>3, CountUnion
<1>5. Cardinality(seen) = Cardinality(hits) + Cardinality(wrong)
  BY <1>2, <1>3, CountUnion
<1>6. result[c] =
        IF Cardinality(hits) = 0 THEN 0
        ELSE IF 100 * Cardinality(hits) < RecallFloor * (Cardinality(hits) + Cardinality(missed))
             THEN (Cardinality(seen) * Cardinality(hits) * 100)
                    \div ((Cardinality(hits) + Cardinality(wrong)) * RecallFloor)
             ELSE (Cardinality(seen) * (Cardinality(hits) + Cardinality(missed)))
                    \div (Cardinality(hits) + Cardinality(wrong))
  BY DEF Correct, Corrected
<1>7. RecallFloor \in 1 .. 100
  BY DEF PublicationAssumption
<1>8. found # {} <=> Cardinality(hits) # 0
  BY <1>1, <1>3, FS_EmptySet
<1> HIDE DEF of, found, missed, wrong, hits, seen
<1>9. CASE Cardinality(hits) = 0
  BY <1>3, <1>4, <1>6, <1>8, <1>9 DEF of, found
<1>10. CASE Cardinality(hits) # 0
  <2>1. /\ result[c] <= Cardinality(hits) + Cardinality(missed)
        /\ 100 * Cardinality(hits) >= RecallFloor * (Cardinality(hits) + Cardinality(missed)) =>
             result[c] = Cardinality(hits) + Cardinality(missed)
    BY <1>3, <1>5, <1>6, <1>7, <1>10, CorrectedCount
  <2> QED BY <1>1, <1>4, <2>1 DEF of, found
<1> QED BY <1>9, <1>10

\* The correction has no bias of its own, on any set of incidents.
THEOREM RecoversTruth == Spec => []CorrectionRecoversTruth
<1>1. RuleInv => CorrectionRecoversTruth
  <2> SUFFICES ASSUME RuleInv, rule = "correct", done PROVE CorrectionRecoversTruth
    BY DEF CorrectionRecoversTruth
  <2>1. InitCorrect
    BY PickedFor DEF RuleInv
  <2> QED BY <2>1, CorrectRule, PublicationAssumption DEF RuleInv, Applied
<1> QED BY <1>1, RuleIsApplied, PTL

-----------------------------------------------------------------------------
(* Ordinal ranks *)

\* A list that names its entries once, and values of the entries.
Listed(list, value) ==
    /\ list \in Seq(Range(list)) /\ IsInjective(list)
    /\ \A e \in Range(list) : value[e] \in Int

PlaceOf(list, e) == CHOOSE k \in DOMAIN list : list[k] = e
RankedAhead(list, value, j, k) ==
    value[list[j]] > value[list[k]] \/ (value[list[j]] = value[list[k]] /\ j < k)
Before(list, value, k) == {j \in DOMAIN list : RankedAhead(list, value, j, k)}

LEMMA PlaceOfListed ==
    ASSUME NEW list, NEW value, Listed(list, value), NEW e \in Range(list)
    PROVE  PlaceOf(list, e) \in 1 .. Len(list) /\ list[PlaceOf(list, e)] = e
<1>1. DOMAIN list = 1 .. Len(list)
  BY DEF Listed
<1>2. \E k \in DOMAIN list : list[k] = e
  BY DEF Range
<1> QED BY <1>1, <1>2 DEF PlaceOf

LEMMA OrdinalIs ==
    ASSUME NEW list, NEW value, NEW e \in Range(list)
    PROVE  Ordinal(list, value)[e] = 1 + Cardinality(Before(list, value, PlaceOf(list, e)))
BY DEF Ordinal, Before, RankedAhead, PlaceOf

\* What is ahead of an entry is finite and fits into the rest of the list.
LEMMA BeforeCount ==
    ASSUME NEW list, NEW value, Listed(list, value), NEW k \in DOMAIN list
    PROVE  /\ IsFiniteSet(Before(list, value, k))
           /\ Cardinality(Before(list, value, k)) \in 0 .. Len(list) - 1
<1>1. DOMAIN list = 1 .. Len(list) /\ Len(list) \in Nat
  BY DEF Listed
<1>2. IsFiniteSet(1 .. Len(list)) /\ Cardinality(1 .. Len(list)) = Len(list)
  BY <1>1, CountUpTo
<1>3. list[k] \in Range(list)
  BY DEF Range
<1>4. Before(list, value, k) \in SUBSET ((1 .. Len(list)) \ {k})
  BY <1>1, <1>3 DEF Before, RankedAhead, Listed
<1>5. IsFiniteSet((1 .. Len(list)) \ {k}) /\ Cardinality((1 .. Len(list)) \ {k}) = Len(list) - 1
  <2> DEFINE N == 1 .. Len(list)
  <2>1. IsFiniteSet(N) /\ Cardinality(N) = Len(list) /\ k \in N
    BY <1>1, <1>2
  <2> HIDE DEF N
  <2>2. IsFiniteSet(N \ {k}) /\ Cardinality(N \ {k}) = Len(list) - 1
    BY <2>1, FS_RemoveElement
  <2> QED BY <2>2 DEF N
<1> QED BY <1>4, <1>5, CountSubset

\* An entry that is ahead of another has the better rank.
LEMMA OrdinalOrder ==
    ASSUME NEW list, NEW value, Listed(list, value), NEW e \in Range(list), NEW f \in Range(list),
           RankedAhead(list, value, PlaceOf(list, e), PlaceOf(list, f))
    PROVE  Ordinal(list, value)[e] < Ordinal(list, value)[f]
<1> DEFINE j == PlaceOf(list, e)  k == PlaceOf(list, f)
           A == Before(list, value, j)  B == Before(list, value, k)
<1>1. DOMAIN list = 1 .. Len(list) /\ Len(list) \in Nat
  BY DEF Listed
<1>2. j \in DOMAIN list /\ k \in DOMAIN list
  BY <1>1, PlaceOfListed
<1>3. \A i \in DOMAIN list : value[list[i]] \in Int /\ i \in Int
  BY <1>1 DEF Listed, Range
<1>4. j \notin A /\ j \in B
  BY <1>2, <1>3 DEF Before, RankedAhead
<1>5. A \subseteq B
  BY <1>2, <1>3 DEF Before, RankedAhead
<1>6. /\ IsFiniteSet(A) /\ IsFiniteSet(B) /\ Cardinality(A) \in Nat /\ Cardinality(B) \in Nat
  BY <1>2, BeforeCount
<1>7. Cardinality(A \cup {j}) = Cardinality(A) + 1
  BY <1>4, <1>6, FS_AddElement
<1>8. Cardinality(A \cup {j}) <= Cardinality(B)
  BY <1>4, <1>5, <1>6, CountSubset
<1> QED BY <1>6, <1>7, <1>8, OrdinalIs

\* Of two entries one is ahead, so the order of the ranks tells the order of the values.
LEMMA OrdinalTells ==
    ASSUME NEW list, NEW value, Listed(list, value), NEW e \in Range(list), NEW f \in Range(list)
    PROVE  /\ Ordinal(list, value)[e] \in 1 .. Len(list)
           /\ Ordinal(list, value)[e] = Ordinal(list, value)[f] => e = f
           /\ Ordinal(list, value)[e] < Ordinal(list, value)[f] <=>
                RankedAhead(list, value, PlaceOf(list, e), PlaceOf(list, f))
<1> DEFINE j == PlaceOf(list, e)  k == PlaceOf(list, f)
<1>1. DOMAIN list = 1 .. Len(list) /\ Len(list) \in Nat
  BY DEF Listed
<1>2. j \in DOMAIN list /\ k \in DOMAIN list /\ list[j] = e /\ list[k] = f
  BY <1>1, PlaceOfListed
<1>3. value[e] \in Int /\ value[f] \in Int /\ j \in Int /\ k \in Int
  BY <1>1, <1>2 DEF Listed
<1>4. /\ Ordinal(list, value)[e] \in 1 .. Len(list)
      /\ Ordinal(list, value)[f] \in 1 .. Len(list)
  <2>1. /\ Cardinality(Before(list, value, j)) \in 0 .. Len(list) - 1
        /\ Cardinality(Before(list, value, k)) \in 0 .. Len(list) - 1
    BY <1>2, BeforeCount
  <2> QED BY <1>1, <2>1, OrdinalIs
<1>5. \/ e = f \/ RankedAhead(list, value, j, k) \/ RankedAhead(list, value, k, j)
  BY <1>2, <1>3 DEF RankedAhead
<1>6. RankedAhead(list, value, j, k) => Ordinal(list, value)[e] < Ordinal(list, value)[f]
  BY OrdinalOrder
<1>7. RankedAhead(list, value, k, j) => Ordinal(list, value)[f] < Ordinal(list, value)[e]
  BY OrdinalOrder
<1> QED BY <1>4, <1>5, <1>6, <1>7

LEMMA ListedFinite ==
    ASSUME NEW list, list \in Seq(Range(list)), IsInjective(list)
    PROVE  IsFiniteSet(Range(list)) /\ Cardinality(Range(list)) = Len(list)
<1> DEFINE R == Range(list)  N == 1 .. Len(list)
<1>1. DOMAIN list = N /\ Len(list) \in Nat
  OBVIOUS
<1>2. IsFiniteSet(N) /\ Cardinality(N) = Len(list)
  BY <1>1, CountUpTo
<1>3. list \in Bijection(N, R)
  <2>1. list \in [N -> R]
    BY <1>1
  <2> QED BY <1>1, <2>1 DEF Range, Bijection, Injection, Surjection, IsInjective
<1> QED BY <1>2, <1>3, FS_Bijection DEF ExistsBijection

\* A listing of a finite set names each member once.
LEMMA ListingIs ==
    ASSUME NEW S, IsFiniteSet(S), NEW list \in Listings(S)
    PROVE  /\ Range(list) = S /\ IsInjective(list) /\ list \in Seq(Range(list))
           /\ DOMAIN list = 1 .. Len(list) /\ Len(list) = Cardinality(S) /\ Len(list) \in Nat
<1> DEFINE N == 1 .. Cardinality(S)
<1>1. list \in [N -> S] /\ IsInjective(list)
  BY DEF Listings
<1>2. Cardinality(S) \in Nat /\ IsFiniteSet(N) /\ Cardinality(N) = Cardinality(S)
  BY FS_CardinalityType, CountUpTo
<1>3. list \in Seq(S) /\ Len(list) = Cardinality(S)
  BY <1>1, <1>2, InSeq
<1> HIDE DEF N
<1>4. list \in Injection(N, S)
  BY <1>1 DEF Injection, IsInjective
<1>5. list \in Surjection(N, S)
  BY <1>2, <1>4, FS_Injection
<1>6. Range(list) = S
  BY <1>1, <1>5 DEF Surjection, Range
<1> QED BY <1>1, <1>2, <1>3, <1>6

\* Every rank is taken.
LEMMA OrdinalOnto ==
    ASSUME NEW list, NEW value, Listed(list, value), NEW r \in DOMAIN list
    PROVE  \E e \in Range(list) : Ordinal(list, value)[e] = r
<1> DEFINE R == Range(list)  N == 1 .. Len(list)  rank == Ordinal(list, value)
<1>1. DOMAIN list = N /\ Len(list) \in Nat
  BY DEF Listed
<1>2. IsFiniteSet(N) /\ Cardinality(N) = Len(list)
  BY <1>1, CountUpTo
<1>4. Cardinality(R) = Cardinality(N)
  BY <1>2, ListedFinite DEF Listed
<1>5. rank \in Injection(R, N)
  <2>1. DOMAIN rank = R /\ rank = [e \in R |-> rank[e]]
    BY DEF Ordinal
  <2>2. \A e, f \in R : rank[e] \in N /\ (rank[e] = rank[f] => e = f)
    BY OrdinalTells
  <2> HIDE DEF rank
  <2> QED BY <2>1, <2>2 DEF Injection, IsInjective
<1>6. rank \in Surjection(R, N)
  BY <1>2, <1>4, <1>5, FS_Injection
<1> QED BY <1>1, <1>6 DEF Surjection

-----------------------------------------------------------------------------
(* The blend of votes and data *)

\* An entry and the rollups that are folded into it.
Family(e) == {e} \cup {r \in DOMAIN RollupOf : RollupOf[r] = e}
DataOf(e) == SumFunctionOnSet(input.data, Family(e))
VoteOf(e) == Min({input.vote[x] : x \in Family(e)})
Folded == Fold(input.data, input.vote, List, RollupOf)
FoldedRows ==
    Folded = [e \in Range(List) |-> [data |-> DataOf(e), vote |-> VoteOf(e)]]

LEMMA LeastIs ==
    ASSUME NEW S \in SUBSET Nat, S # {}
    PROVE  Min(S) \in S /\ \A n \in S : Min(S) <= n
BY LeastNumber DEF Min

LEMMA BlendInput ==
    ASSUME PublicationAssumption, InitBlend
    PROVE  /\ \A x \in VotedOn : input.data[x] \in Nat /\ input.vote[x] \in Nat
           /\ \A e \in Range(List) : Family(e) \subseteq VotedOn /\ Summable(Family(e), input.data)
<1>1. input.data \in [VotedOn -> Rates] /\ Rates \subseteq Nat
  BY DEF InitBlend, PublicationAssumption
<1>2. input.vote \in [VotedOn -> 1 .. Cardinality(VotedOn)]
  BY DEF InitBlend
<1>3. \A x \in VotedOn : input.data[x] \in Nat /\ input.vote[x] \in Nat
  BY <1>1, <1>2
<1>4. ASSUME NEW e \in Range(List)
      PROVE  Family(e) \subseteq VotedOn /\ Summable(Family(e), input.data)
  <2>1. Family(e) \subseteq VotedOn
    BY DEF Family, VotedOn
  <2>2. IsFiniteSet({e}) /\ IsFiniteSet({r \in DOMAIN RollupOf : RollupOf[r] = e})
    BY FS_Singleton, FS_Subset DEF PublicationAssumption
  <2>3. IsFiniteSet(Family(e))
    BY <2>2, FS_Union DEF Family
  <2> QED BY <1>3, <2>1, <2>3 DEF Summable
<1> QED BY <1>3, <1>4

LEMMA FoldIs ==
    ASSUME PublicationAssumption, InitBlend
    PROVE  FoldedRows
<1> DEFINE children(e) == {r \in DOMAIN RollupOf : RollupOf[r] = e}
<1>1. ASSUME NEW e \in Range(List)
      PROVE  input.data[e] + SumFunctionOnSet(input.data, children(e)) = DataOf(e)
  <2>1. e \notin children(e) /\ Family(e) = children(e) \cup {e}
    BY DEF PublicationAssumption, Family
  <2>2. Summable(children(e) \cup {e}, input.data)
    <3>1. Summable(Family(e), input.data)
      BY BlendInput
    <3> HIDE DEF children
    <3> QED BY <2>1, <3>1
  <2>3. Total(children(e) \cup {e}, input.data) = input.data[e] + Total(children(e), input.data)
    BY <2>1, <2>2, TotalAdd
  <2> QED BY <2>1, <2>3 DEF DataOf, Total
<1>2. ASSUME NEW e \in Range(List)
      PROVE  Min({input.vote[c] : c \in children(e) \cup {e}}) = VoteOf(e)
  <2>1. Family(e) = children(e) \cup {e}
    BY DEF Family
  <2> QED BY <2>1 DEF VoteOf
<1>3. Folded = [e \in Range(List) |->
                  [data |-> input.data[e] + SumFunctionOnSet(input.data, children(e)),
                   vote |-> Min({input.vote[c] : c \in children(e) \cup {e}})]]
  BY DEF Folded, Fold
<1> HIDE DEF children
<1> QED BY <1>1, <1>2, <1>3 DEF FoldedRows

\* Who has the best rank in a family has a better one than another family.
LEMMA BestVote ==
    ASSUME PublicationAssumption, InitBlend, NEW e \in Range(List), NEW f \in Range(List)
    PROVE  /\ VoteOf(e) \in Int
           /\ (\E x \in Family(e) : \A y \in Family(f) : input.vote[x] < input.vote[y])
                => VoteOf(e) < VoteOf(f)
<1> DEFINE V(d) == {input.vote[x] : x \in Family(d)}
<1>1. \A d \in Range(List) : V(d) \in SUBSET Nat /\ V(d) # {}
  <2> TAKE d \in Range(List)
  <2>1. Family(d) \subseteq VotedOn /\ d \in Family(d)
    BY BlendInput DEF Family
  <2>2. \A x \in Family(d) : input.vote[x] \in Nat
    BY <2>1, BlendInput
  <2> QED BY <2>1, <2>2
<1>2. \A d \in Range(List) : VoteOf(d) \in V(d) /\ \A n \in V(d) : VoteOf(d) <= n
  BY <1>1, LeastIs DEF VoteOf
<1>3. ASSUME NEW x \in Family(e), \A y \in Family(f) : input.vote[x] < input.vote[y]
      PROVE  VoteOf(e) < VoteOf(f)
  <2>1. VoteOf(e) <= input.vote[x]
    BY <1>2
  <2>2. PICK y \in Family(f) : VoteOf(f) = input.vote[y]
    BY <1>2
  <2>3. input.vote[x] < input.vote[y] /\ input.vote[x] \in Nat /\ input.vote[y] \in Nat
    BY <1>3, BlendInput
  <2>4. VoteOf(e) \in Nat
    BY <1>1, <1>2
  <2> QED BY <2>1, <2>2, <2>3, <2>4
<1> QED BY <1>1, <1>2, <1>3

\* Centring keeps the order.
LEMMA CentredOrder ==
    ASSUME NEW S, IsFiniteSet(S), NEW g, DOMAIN g = S, \A x \in S : g[x] \in Int, NEW e \in S, NEW f \in S
    PROVE  /\ Centred(g)[e] \in Int
           /\ g[e] <= g[f] => Centred(g)[e] <= Centred(g)[f]
           /\ g[e] < g[f] => Centred(g)[e] < Centred(g)[f]
<1> DEFINE n == Cardinality(S)  t == SumFunction(g)
<1>1. Summable(S, g)
  BY DEF Summable
<1>2. Total(S, g) = t
  BY DEF Total, SumFunction
<1>3. t \in Int
  BY <1>1, <1>2, TotalType
<1>4. n \in Nat /\ n # 0
  BY FS_CardinalityType, FS_EmptySet
<1>5. Centred(g)[e] = n * g[e] - t /\ Centred(g)[f] = n * g[f] - t
  BY DEF Centred
<1>6. /\ n * g[e] \in Int /\ n * g[f] \in Int
      /\ g[e] <= g[f] => n * g[e] <= n * g[f]
      /\ g[e] < g[f] => n * g[e] < n * g[f]
  <2> HIDE DEF n
  <2> QED BY <1>4, TimesOrder, TimesStrict
<1> HIDE DEF n, t
<1> QED BY <1>3, <1>5, <1>6

\* What the blend compares.
BlendValue ==
    [e \in Range(List) |->
       IF e \in input.blind THEN 4 * Centred(VoteRow(Folded))[e]
       ELSE 3 * Centred(VoteRow(Folded))[e] + Centred(DataRow(Folded))[e]]

LEMMA BlendRows ==
    ASSUME PublicationAssumption, RankingAssumption, InitBlend, NEW e \in Range(List), NEW f \in Range(List)
    PROVE  /\ Centred(VoteRow(Folded))[e] \in Int /\ Centred(DataRow(Folded))[e] \in Int
           /\ VoteOf(e) < VoteOf(f) => Centred(VoteRow(Folded))[f] < Centred(VoteRow(Folded))[e]
           /\ DataOf(f) <= DataOf(e) => Centred(DataRow(Folded))[f] <= Centred(DataRow(Folded))[e]
<1> DEFINE vote == VoteRow(Folded)  data == DataRow(Folded)  R == Range(List)
<1>1. IsFiniteSet(R)
  BY ListedFinite DEF RankingAssumption
<1>2. /\ vote = [d \in R |-> -VoteOf(d)] /\ data = [d \in R |-> DataOf(d)]
  BY FoldIs DEF FoldedRows, VoteRow, DataRow
<1>3. \A d \in R : VoteOf(d) \in Int /\ DataOf(d) \in Int
  <2> TAKE d \in R
  <2>1. Total(Family(d), input.data) \in Int
    BY BlendInput, TotalType
  <2> QED BY <2>1, BestVote DEF DataOf, Total
<1> HIDE DEF vote, data, R
<1>4. /\ DOMAIN vote = R /\ DOMAIN data = R
      /\ \A d \in R : vote[d] = -VoteOf(d) /\ data[d] = DataOf(d) /\ vote[d] \in Int /\ data[d] \in Int
  BY <1>2, <1>3
<1>5. e \in R /\ f \in R
  BY DEF R
<1>6. /\ Centred(vote)[e] \in Int /\ Centred(data)[e] \in Int
      /\ vote[f] < vote[e] => Centred(vote)[f] < Centred(vote)[e]
      /\ data[f] <= data[e] => Centred(data)[f] <= Centred(data)[e]
  BY <1>1, <1>4, <1>5, CentredOrder
<1> QED BY <1>3, <1>4, <1>5, <1>6 DEF vote, data

LEMMA BlendRule ==
    ASSUME PublicationAssumption, RankingAssumption, InitBlend, done, result = Blend
    PROVE  BlendRespectsDominance
<1> SUFFICES ASSUME NEW e \in Range(List), NEW f \in Range(List),
                    \E x \in Family(e) : \A y \in Family(f) : input.vote[x] < input.vote[y],
                    DataOf(e) >= DataOf(f) \/ {e, f} \subseteq input.blind,
                    e \in input.blind <=> f \in input.blind
             PROVE  /\ result.place[e] < result.place[f]
                    /\ \E j, k \in DOMAIN List : j < k /\ result.order[j] = e /\ result.order[k] = f
  BY DEF BlendRespectsDominance, Family, DataOf
<1> DEFINE place == Ordinal(List, BlendValue)
           total == [d \in Range(List) |-> SumFunction([p \in DOMAIN <<place>> |-> -<<place>>[p][d]])]
           last == Ordinal(List, total)
<1>1. List \in Seq(Range(List)) /\ IsInjective(List) /\ DOMAIN List = 1 .. Len(List)
  BY DEF RankingAssumption
<1>2. \A d \in Range(List) : BlendValue[d] \in Int
  <2> TAKE d \in Range(List)
  <2>1. Centred(VoteRow(Folded))[d] \in Int /\ Centred(DataRow(Folded))[d] \in Int
    BY BlendRows
  <2> QED BY <2>1 DEF BlendValue
<1>3. Listed(List, BlendValue)
  BY <1>1, <1>2 DEF Listed
<1>4. BlendValue[e] > BlendValue[f]
  <2>1. /\ Centred(VoteRow(Folded))[e] \in Int /\ Centred(DataRow(Folded))[e] \in Int
        /\ Centred(VoteRow(Folded))[f] \in Int /\ Centred(DataRow(Folded))[f] \in Int
        /\ Centred(VoteRow(Folded))[f] < Centred(VoteRow(Folded))[e]
        /\ DataOf(f) <= DataOf(e) => Centred(DataRow(Folded))[f] <= Centred(DataRow(Folded))[e]
    BY BlendRows, BestVote
  <2>2. DataOf(e) >= DataOf(f) <=> DataOf(f) <= DataOf(e)
    OBVIOUS
  <2> DEFINE ve == Centred(VoteRow(Folded))[e]  vf == Centred(VoteRow(Folded))[f]
             de == Centred(DataRow(Folded))[e]  df == Centred(DataRow(Folded))[f]
  <2>3. /\ BlendValue[e] = IF e \in input.blind THEN 4 * ve ELSE 3 * ve + de
        /\ BlendValue[f] = IF f \in input.blind THEN 4 * vf ELSE 3 * vf + df
    BY DEF BlendValue
  <2>4. ve \in Int /\ vf \in Int /\ de \in Int /\ df \in Int /\ vf < ve
        /\ (DataOf(f) <= DataOf(e) => df <= de)
    BY <2>1
  <2> HIDE DEF ve, vf, de, df
  <2>5. CASE e \in input.blind /\ f \in input.blind
    BY <2>3, <2>4, <2>5
  <2>6. CASE e \notin input.blind /\ f \notin input.blind
    <3>1. df <= de
      BY <2>2, <2>4, <2>6
    <3> QED BY <2>3, <2>4, <2>6, <3>1
  <2> QED BY <2>5, <2>6
<1>5. result.place = place
  BY DEF Blend, Positions, BlendValue, Folded
<1>6. place[e] < place[f]
  <2>1. List[PlaceOf(List, e)] = e /\ List[PlaceOf(List, f)] = f
    BY <1>3, PlaceOfListed
  <2>2. RankedAhead(List, BlendValue, PlaceOf(List, e), PlaceOf(List, f))
    BY <1>4, <2>1 DEF RankedAhead
  <2> QED BY <1>3, <2>2, OrdinalTells
<1>7. \A d \in Range(List) : place[d] \in 1 .. Len(List)
  BY <1>3, OrdinalTells
<1>8. \A d \in Range(List) : total[d] = -place[d]
  <2> TAKE d \in Range(List)
  <2> DEFINE g == [p \in DOMAIN <<place>> |-> -<<place>>[p][d]]
  <2>1. DOMAIN g = {1} /\ g[1] = -place[d] /\ g[1] \in Int
    BY <1>7
  <2>2. SumFunction(g) = Total({1}, g)
    BY <2>1 DEF SumFunction, Total
  <2> HIDE DEF g
  <2>3. SumFunction(g) = -place[d]
    BY <2>1, <2>2, TotalOne
  <2> QED BY <2>3 DEF g
<1>9. Listed(List, total)
  <2> HIDE DEF total, place
  <2>1. Len(List) \in Nat
    BY <1>1, LenProperties
  <2>2. \A d \in Range(List) : total[d] \in Int
    BY <1>7, <1>8, <2>1
  <2> QED BY <1>1, <2>2 DEF Listed
<1>10. last[e] < last[f]
  <2>1. List[PlaceOf(List, e)] = e /\ List[PlaceOf(List, f)] = f
    BY <1>9, PlaceOfListed
  <2>2. total[e] > total[f]
    <3> HIDE DEF total, place
    <3> QED BY <1>6, <1>7, <1>8
  <2>3. RankedAhead(List, total, PlaceOf(List, e), PlaceOf(List, f))
    BY <2>1, <2>2 DEF RankedAhead
  <2> QED BY <1>9, <2>3, OrdinalTells
<1>11. result.order = Published(<<place>>, List)
  BY <1>5 DEF Blend
<1>12. result.order = [r \in DOMAIN List |-> CHOOSE d \in Range(List) : last[d] = r]
  BY <1>11 DEF Published
<1>13. /\ last[e] \in DOMAIN List /\ last[f] \in DOMAIN List
       /\ \A d \in Range(List) : (last[d] = last[e] => d = e) /\ (last[d] = last[f] => d = f)
  BY <1>1, <1>9, OrdinalTells
<1>14. result.order[last[e]] = e /\ result.order[last[f]] = f
  <2> HIDE DEF last
  <2> QED BY <1>12, <1>13
<1> QED BY <1>5, <1>6, <1>10, <1>13, <1>14

\* Whoever is ahead in votes and data is published ahead, whatever the rates,
\* the ranks and the rollups.
THEOREM DominanceRespected == Spec => []BlendRespectsDominance
<1>1. RuleInv => BlendRespectsDominance
  <2> SUFFICES ASSUME RuleInv, rule = "blend", done PROVE BlendRespectsDominance
    BY DEF BlendRespectsDominance
  <2>1. InitBlend
    BY PickedFor DEF RuleInv
  <2> QED BY <2>1, BlendRule, PublicationAssumption, RankingAssumption DEF RuleInv, Applied
<1> QED BY <1>1, RuleIsApplied, PTL

-----------------------------------------------------------------------------
(* Batches and the tally *)

\* What a tally adds up over the places in X of a list of batches.
SumMarked(B, X, e) ==
    SumOver([k \in X |-> Cardinality({i \in Coded(B[k]) : e \in B[k].labels[i]})])
SumCoded(B, X) == SumOver([k \in X |-> Cardinality(Coded(B[k]))])
Offered(b, e, children) ==
    IF e \in children[b.entry] THEN Coded(b) ELSE {i \in Coded(b) : e \in b.rollups[i]}
SumRolled(B, X, e) ==
    SumOver([k \in X |-> Cardinality({i \in Coded(B[k]) : e \in B[k].rollups[i]})])
SumOffered(B, X, e, children) == SumOver([k \in X |-> Cardinality(Offered(B[k], e, children))])

Precise(B) == {k \in DOMAIN B : B[k].frame = "precision"}
Recalled(B) == {k \in DOMAIN B : B[k].frame = "recall"}
InStratum(B, X, s) == {k \in X : B[k].stratum = s}
OfCell(B, c) == {k \in InStratum(B, Precise(B), c[2]) : B[k].entry = c[1]}
PCells(B) == {<<B[k].entry, B[k].stratum>> : k \in {j \in Precise(B) : Coded(B[j]) # {}}}
RCells(B, entries) == {<<e, B[k].stratum>> : e \in entries, k \in Recalled(B)}
UCells(B, entries, children) ==
    {c \in entries \X {B[k].stratum : k \in DOMAIN B} :
       \E k \in InStratum(B, Precise(B), c[2]) : Offered(B[k], c[1], children) # {}}

LEMMA TallyIs ==
    ASSUME NEW B, NEW entries, NEW children
    PROVE  Tally(B, entries, children) =
      [precision |-> [c \in PCells(B) |->
         [tp |-> SumMarked(B, OfCell(B, c), c[1]),
          fp |-> SumCoded(B, OfCell(B, c)) - SumMarked(B, OfCell(B, c), c[1])]],
       recall |-> [c \in RCells(B, entries) |->
         [tp |-> SumMarked(B, InStratum(B, Recalled(B), c[2]), c[1]),
          fn |-> SumCoded(B, InStratum(B, Recalled(B), c[2]))
                   - SumMarked(B, InStratum(B, Recalled(B), c[2]), c[1])]],
       rollup |-> [c \in UCells(B, entries, children) |->
         [tp |-> SumRolled(B, InStratum(B, Precise(B), c[2]), c[1]),
          fp |-> SumOffered(B, InStratum(B, Precise(B), c[2]), c[1], children)
                   - SumRolled(B, InStratum(B, Precise(B), c[2]), c[1])]]]
BY DEF Tally, PCells, RCells, UCells, SumMarked, SumCoded, SumRolled, SumOffered, Offered,
   OfCell, InStratum, Precise, Recalled

\* The sample as it was handed out, whole and in two.
Whole == HandedOut(Sample)
First == HandedOut(input.part)
Second == HandedOut(Sample \ input.part)
Once == <<Whole>>
Twice == <<First, Second>>
NoChildren == [e \in Entries |-> {}]

LEMMA BatchesAre ==
    /\ DOMAIN Once = {1} /\ Once[1] = Whole
    /\ DOMAIN Twice = {1, 2} /\ Twice[1] = First /\ Twice[2] = Second
<1>1. DOMAIN Once = 1 .. 1 /\ DOMAIN Twice = 1 .. 2
  BY DEF Once, Twice
<1>2. 1 .. 1 = {1} /\ 1 .. 2 = {1, 2}
  OBVIOUS
<1> QED BY <1>1, <1>2 DEF Once, Twice

LEMMA HandedOutIs ==
    ASSUME NEW s \in SUBSET Sample
    PROVE  /\ HandedOut(s).frame = input.frame /\ HandedOut(s).entry = Asked
           /\ HandedOut(s).stratum = "s1" /\ HandedOut(s).hash = s
           /\ Coded(HandedOut(s)) = s \cap input.coded
           /\ \A i \in Coded(HandedOut(s)) :
                /\ HandedOut(s).labels[i] = input.labels[i]
                /\ HandedOut(s).rollups[i] = IF i \in input.rolled THEN {"R"} ELSE {}
BY DEF HandedOut, Batch, Coded

\* What is counted in a sample is counted in its parts.
LEMMA SplitCount ==
    ASSUME GoldAssumption, InitTally, NEW M
    PROVE  /\ Cardinality(Sample \cap M)
                = Cardinality(input.part \cap M) + Cardinality((Sample \ input.part) \cap M)
           /\ \A s \in SUBSET Sample : Cardinality(s \cap M) \in Nat
<1>1. input.part \subseteq Sample /\ IsFiniteSet(Sample)
  BY DEF InitTally, GoldAssumption
<1> DEFINE A == input.part \cap M  B == (Sample \ input.part) \cap M
<1>2. IsFiniteSet(A) /\ IsFiniteSet(B) /\ A \cap B = {} /\ A \cup B = Sample \cap M
  BY <1>1, FS_Subset
<1>3. Cardinality(A \cup B) = Cardinality(A) + Cardinality(B)
  <2> HIDE DEF A, B
  <2> QED BY <1>2, CountUnion
<1>4. ASSUME NEW s \in SUBSET Sample PROVE Cardinality(s \cap M) \in Nat
  BY <1>1, CountSubset
<1> QED BY <1>2, <1>3, <1>4

\* g counts the members of M in each of the two parts, h in the whole.
CountsTwice(X, g, M) ==
    /\ DOMAIN g = X
    /\ X = {1, 2} => /\ g[1] = Cardinality(input.part \cap M)
                     /\ g[2] = Cardinality((Sample \ input.part) \cap M)
CountsOnce(Y, h, M) ==
    /\ DOMAIN h = Y
    /\ Y = {1} => h[1] = Cardinality(Sample \cap M)
\* The places in the two lists that a sum goes over.
Alike(X, Y) == \/ X = {1, 2} /\ Y = {1}
               \/ X = {} /\ Y = {}

\* Sums over the two batches and over the one agree when they count the same.
LEMMA SplitSum ==
    ASSUME GoldAssumption, InitTally, NEW M, NEW X, NEW Y, Alike(X, Y),
           NEW g, CountsTwice(X, g, M), NEW h, CountsOnce(Y, h, M)
    PROVE  SumOver(g) = SumOver(h)
<1>1. SumOver(g) = Total(X, g) /\ SumOver(h) = Total(Y, h)
  BY DEF SumOver, SumFunction, Total, CountsTwice, CountsOnce
<1>2. CASE X = {} /\ Y = {}
  BY <1>1, <1>2, TotalEmpty
<1>3. CASE X = {1, 2} /\ Y = {1}
  <2> DEFINE a == Cardinality(input.part \cap M)  b == Cardinality((Sample \ input.part) \cap M)
  <2>1. input.part \in SUBSET Sample /\ Sample \ input.part \in SUBSET Sample /\ Sample \in SUBSET Sample
    BY DEF InitTally, GoldAssumption
  <2>2. /\ g[1] = a /\ g[2] = b /\ h[1] = Cardinality(Sample \cap M)
    BY <1>3 DEF CountsTwice, CountsOnce
  <2>3. h[1] = a + b /\ a \in Nat /\ b \in Nat
    BY <2>1, <2>2, SplitCount
  <2> HIDE DEF a, b
  <2>3a. h[1] \in Int /\ g[1] \in Int /\ g[2] \in Int
    BY <2>2, <2>3
  <2>4. Total({1}, h) = a + b
    BY <2>3, <2>3a, TotalOne
  <2>4a. 1 # 2
    OBVIOUS
  <2>4b. Total({1, 2}, g) = g[1] + g[2]
    BY ONLY <2>3a, <2>4a, TotalPair
  <2>5. Total({1, 2}, g) = a + b
    BY ONLY <2>2, <2>4b
  <2> QED BY <1>1, <1>3, <2>4, <2>5
<1> QED BY <1>2, <1>3 DEF Alike

\* So do the sums of the tally.
LEMMA SplitSums ==
    ASSUME GoldAssumption, InitTally, NEW X, NEW Y, Alike(X, Y), NEW e
    PROVE  /\ SumMarked(Twice, X, e) = SumMarked(Once, Y, e)
           /\ SumCoded(Twice, X) = SumCoded(Once, Y)
           /\ SumRolled(Twice, X, e) = SumRolled(Once, Y, e)
           /\ SumOffered(Twice, X, e, NoChildren) = SumOffered(Once, Y, e, NoChildren)
<1> DEFINE marked == {i \in input.coded : e \in input.labels[i]}
           rolled == {i \in input.coded : e \in (IF i \in input.rolled THEN {"R"} ELSE {})}
<1>1. ASSUME NEW s \in SUBSET Sample
      PROVE  /\ {i \in Coded(HandedOut(s)) : e \in HandedOut(s).labels[i]} = s \cap marked
             /\ {i \in Coded(HandedOut(s)) : e \in HandedOut(s).rollups[i]} = s \cap rolled
             /\ Coded(HandedOut(s)) = s \cap input.coded
             /\ Offered(HandedOut(s), e, NoChildren) = s \cap rolled
  <2>1. /\ {i \in Coded(HandedOut(s)) : e \in HandedOut(s).labels[i]} = s \cap marked
        /\ {i \in Coded(HandedOut(s)) : e \in HandedOut(s).rollups[i]} = s \cap rolled
        /\ Coded(HandedOut(s)) = s \cap input.coded
    BY HandedOutIs
  <2>2. NoChildren[HandedOut(s).entry] = {}
    BY HandedOutIs DEF NoChildren, GoldAssumption
  <2> QED BY <2>1, <2>2 DEF Offered
<1>2. /\ input.part \in SUBSET Sample /\ Sample \ input.part \in SUBSET Sample
      /\ Sample \in SUBSET Sample
  BY DEF InitTally, GoldAssumption
<1>3. /\ Once[1] = HandedOut(Sample) /\ Twice[1] = HandedOut(input.part)
      /\ Twice[2] = HandedOut(Sample \ input.part)
      /\ (X = {1, 2} => 1 \in X /\ 2 \in X) /\ (Y = {1} => 1 \in Y)
  BY BatchesAre DEF First, Second, Whole
<1>4. SumMarked(Twice, X, e) = SumMarked(Once, Y, e)
  <2> DEFINE g == [k \in X |-> Cardinality({i \in Coded(Twice[k]) : e \in Twice[k].labels[i]})]
             h == [k \in Y |-> Cardinality({i \in Coded(Once[k]) : e \in Once[k].labels[i]})]
  <2>1. CountsTwice(X, g, marked) /\ CountsOnce(Y, h, marked)
    BY <1>1, <1>2, <1>3 DEF CountsTwice, CountsOnce
  <2> HIDE DEF g, h, marked
  <2>2. SumOver(g) = SumOver(h)
    BY <2>1, SplitSum
  <2> QED BY <2>2 DEF SumMarked, g, h
<1>5. SumCoded(Twice, X) = SumCoded(Once, Y)
  <2> DEFINE g == [k \in X |-> Cardinality(Coded(Twice[k]))]
             h == [k \in Y |-> Cardinality(Coded(Once[k]))]
  <2>1. CountsTwice(X, g, input.coded) /\ CountsOnce(Y, h, input.coded)
    BY <1>1, <1>2, <1>3 DEF CountsTwice, CountsOnce
  <2> HIDE DEF g, h
  <2>2. SumOver(g) = SumOver(h)
    BY <2>1, SplitSum
  <2> QED BY <2>2 DEF SumCoded, g, h
<1>6. SumRolled(Twice, X, e) = SumRolled(Once, Y, e)
  <2> DEFINE g == [k \in X |-> Cardinality({i \in Coded(Twice[k]) : e \in Twice[k].rollups[i]})]
             h == [k \in Y |-> Cardinality({i \in Coded(Once[k]) : e \in Once[k].rollups[i]})]
  <2>1. CountsTwice(X, g, rolled) /\ CountsOnce(Y, h, rolled)
    BY <1>1, <1>2, <1>3 DEF CountsTwice, CountsOnce
  <2> HIDE DEF g, h, rolled
  <2>2. SumOver(g) = SumOver(h)
    BY <2>1, SplitSum
  <2> QED BY <2>2 DEF SumRolled, g, h
<1>7. SumOffered(Twice, X, e, NoChildren) = SumOffered(Once, Y, e, NoChildren)
  <2> DEFINE g == [k \in X |-> Cardinality(Offered(Twice[k], e, NoChildren))]
             h == [k \in Y |-> Cardinality(Offered(Once[k], e, NoChildren))]
  <2>1. CountsTwice(X, g, rolled) /\ CountsOnce(Y, h, rolled)
    BY <1>1, <1>2, <1>3 DEF CountsTwice, CountsOnce
  <2> HIDE DEF g, h, rolled
  <2>2. SumOver(g) = SumOver(h)
    BY <2>1, SplitSum
  <2> QED BY <2>2 DEF SumOffered, g, h
<1> QED BY <1>4, <1>5, <1>6, <1>7

\* The places of a frame, of a cell and of a stratum in the two lists.
LEMMA SplitFrames ==
    ASSUME GoldAssumption, InitTally, NEW c
    PROVE  /\ \/ /\ input.frame = "precision" /\ Precise(Twice) = {1, 2} /\ Precise(Once) = {1}
                 /\ Recalled(Twice) = {} /\ Recalled(Once) = {}
              \/ /\ input.frame = "recall" /\ Precise(Twice) = {} /\ Precise(Once) = {}
                 /\ Recalled(Twice) = {1, 2} /\ Recalled(Once) = {1}
           /\ InStratum(Once, Precise(Once), c) = (IF c = "s1" THEN Precise(Once) ELSE {})
           /\ OfCell(Once, c) = (IF Asked = c[1] /\ "s1" = c[2] THEN Precise(Once) ELSE {})
           /\ Alike(InStratum(Twice, Precise(Twice), c), InStratum(Once, Precise(Once), c))
           /\ Alike(InStratum(Twice, Recalled(Twice), c), InStratum(Once, Recalled(Once), c))
           /\ Alike(OfCell(Twice, c), OfCell(Once, c))
<1>1. /\ input.part \in SUBSET Sample /\ Sample \ input.part \in SUBSET Sample
      /\ Sample \in SUBSET Sample /\ input.frame \in {"precision", "recall"}
  BY DEF InitTally, GoldAssumption
<1>2. /\ First.frame = input.frame /\ Second.frame = input.frame /\ Whole.frame = input.frame
      /\ First.entry = Asked /\ Second.entry = Asked /\ Whole.entry = Asked
      /\ First.stratum = "s1" /\ Second.stratum = "s1" /\ Whole.stratum = "s1"
  BY <1>1, HandedOutIs DEF First, Second, Whole
<1>3. /\ DOMAIN Twice = {1, 2} /\ DOMAIN Once = {1}
      /\ \A k \in {1, 2} : /\ Twice[k].frame = input.frame /\ Twice[k].entry = Asked
                           /\ Twice[k].stratum = "s1"
      /\ \A k \in {1} : /\ Once[k].frame = input.frame /\ Once[k].entry = Asked
                        /\ Once[k].stratum = "s1"
  BY <1>2, BatchesAre
<1>4. \/ /\ input.frame = "precision" /\ Precise(Twice) = {1, 2} /\ Precise(Once) = {1}
         /\ Recalled(Twice) = {} /\ Recalled(Once) = {}
      \/ /\ input.frame = "recall" /\ Precise(Twice) = {} /\ Precise(Once) = {}
         /\ Recalled(Twice) = {1, 2} /\ Recalled(Once) = {1}
  BY <1>1, <1>3 DEF Precise, Recalled
<1>5. ASSUME NEW X, X \subseteq {1, 2}, NEW d
      PROVE  InStratum(Twice, X, d) = (IF d = "s1" THEN X ELSE {})
  BY <1>3, <1>5 DEF InStratum
<1>6. ASSUME NEW Y, Y \subseteq {1}, NEW d
      PROVE  InStratum(Once, Y, d) = (IF d = "s1" THEN Y ELSE {})
  BY <1>3, <1>6 DEF InStratum
<1>7. /\ Precise(Twice) \subseteq {1, 2} /\ Recalled(Twice) \subseteq {1, 2}
      /\ Precise(Once) \subseteq {1} /\ Recalled(Once) \subseteq {1}
  BY <1>4
<1>8. /\ InStratum(Twice, Precise(Twice), c) = (IF c = "s1" THEN Precise(Twice) ELSE {})
      /\ InStratum(Twice, Recalled(Twice), c) = (IF c = "s1" THEN Recalled(Twice) ELSE {})
      /\ InStratum(Once, Precise(Once), c) = (IF c = "s1" THEN Precise(Once) ELSE {})
      /\ InStratum(Once, Recalled(Once), c) = (IF c = "s1" THEN Recalled(Once) ELSE {})
  BY <1>5, <1>6, <1>7
<1>9. OfCell(Twice, c) = (IF Asked = c[1] /\ "s1" = c[2] THEN Precise(Twice) ELSE {})
  <2>1. InStratum(Twice, Precise(Twice), c[2]) = (IF c[2] = "s1" THEN Precise(Twice) ELSE {})
    BY <1>5, <1>7
  <2> QED BY <1>3, <1>7, <2>1 DEF OfCell
<1>10. OfCell(Once, c) = (IF Asked = c[1] /\ "s1" = c[2] THEN Precise(Once) ELSE {})
  <2>1. InStratum(Once, Precise(Once), c[2]) = (IF c[2] = "s1" THEN Precise(Once) ELSE {})
    BY <1>6, <1>7
  <2> QED BY <1>3, <1>7, <2>1 DEF OfCell
<1>11. Alike(InStratum(Twice, Precise(Twice), c), InStratum(Once, Precise(Once), c))
  BY <1>4, <1>8 DEF Alike
<1>12. Alike(InStratum(Twice, Recalled(Twice), c), InStratum(Once, Recalled(Once), c))
  BY <1>4, <1>8 DEF Alike
<1>13. Alike(OfCell(Twice, c), OfCell(Once, c))
  BY <1>4, <1>9, <1>10 DEF Alike
<1> QED BY <1>4, <1>8, <1>10, <1>11, <1>12, <1>13

LEMMA SplitCells ==
    ASSUME GoldAssumption, InitTally
    PROVE  /\ PCells(Twice) = PCells(Once)
           /\ RCells(Twice, Entries) = RCells(Once, Entries)
           /\ UCells(Twice, Entries, NoChildren) = UCells(Once, Entries, NoChildren)
<1>1. /\ input.part \in SUBSET Sample /\ Sample \ input.part \in SUBSET Sample
      /\ Sample \in SUBSET Sample
  BY DEF InitTally, GoldAssumption
<1>2. /\ First.entry = Asked /\ Second.entry = Asked /\ Whole.entry = Asked
      /\ First.stratum = "s1" /\ Second.stratum = "s1" /\ Whole.stratum = "s1"
  BY <1>1, HandedOutIs DEF First, Second, Whole
<1>3. /\ Coded(First) = input.part \cap input.coded
      /\ Coded(Second) = (Sample \ input.part) \cap input.coded
      /\ Coded(Whole) = Sample \cap input.coded
  BY <1>1, HandedOutIs DEF First, Second, Whole
<1>4. Coded(Whole) # {} <=> Coded(First) # {} \/ Coded(Second) # {}
  BY <1>1, <1>3
<1>5. ASSUME NEW e
      PROVE  Offered(Whole, e, NoChildren) # {}
               <=> Offered(First, e, NoChildren) # {} \/ Offered(Second, e, NoChildren) # {}
  <2> DEFINE rolled == {i \in input.coded : e \in (IF i \in input.rolled THEN {"R"} ELSE {})}
  <2>1. NoChildren[Asked] = {}
    BY DEF NoChildren, GoldAssumption
  <2>2. ASSUME NEW s \in SUBSET Sample PROVE Offered(HandedOut(s), e, NoChildren) = s \cap rolled
    <3>1. {i \in Coded(HandedOut(s)) : e \in HandedOut(s).rollups[i]} = s \cap rolled
      BY HandedOutIs
    <3>2. HandedOut(s).entry = Asked
      BY HandedOutIs
    <3> QED BY <2>1, <3>1, <3>2 DEF Offered
  <2>3. /\ Offered(First, e, NoChildren) = input.part \cap rolled
        /\ Offered(Second, e, NoChildren) = (Sample \ input.part) \cap rolled
        /\ Offered(Whole, e, NoChildren) = Sample \cap rolled
    BY <1>1, <2>2 DEF First, Second, Whole
  <2> HIDE DEF rolled
  <2> QED BY <1>1, <2>3
<1>f. \/ /\ Precise(Twice) = {1, 2} /\ Precise(Once) = {1}
         /\ Recalled(Twice) = {} /\ Recalled(Once) = {}
      \/ /\ Precise(Twice) = {} /\ Precise(Once) = {}
         /\ Recalled(Twice) = {1, 2} /\ Recalled(Once) = {1}
  BY SplitFrames
<1>6. PCells(Twice) = PCells(Once)
  <2> DEFINE key(b) == <<b.entry, b.stratum>>
  <2>1. key(First) = <<Asked, "s1">> /\ key(Second) = <<Asked, "s1">> /\ key(Whole) = <<Asked, "s1">>
    BY <1>2
  <2>2. ASSUME NEW B
        PROVE  PCells(B) = {key(B[k]) : k \in {j \in Precise(B) : Coded(B[j]) # {}}}
    BY DEF PCells
  <2> HIDE DEF key
  <2>3. {key(Twice[k]) : k \in {j \in {1, 2} : Coded(Twice[j]) # {}}}
          = {key(Once[k]) : k \in {j \in {1} : Coded(Once[j]) # {}}}
    BY <1>4, <2>1, BatchesAre
  <2> QED BY <1>f, <2>2, <2>3
<1>7. RCells(Twice, Entries) = RCells(Once, Entries)
  <2>1. {<<e, Twice[k].stratum>> : e \in Entries, k \in {1, 2}}
          = {<<e, Once[k].stratum>> : e \in Entries, k \in {1}}
    BY <1>2, BatchesAre
  <2> DEFINE keys(B, X) == {<<e, B[k].stratum>> : e \in Entries, k \in X}
  <2>2. ASSUME NEW B PROVE RCells(B, Entries) = keys(B, Recalled(B))
    BY DEF RCells
  <2>3. keys(Twice, {1, 2}) = keys(Once, {1})
    BY <2>1
  <2>4. keys(Twice, {}) = keys(Once, {})
    OBVIOUS
  <2> HIDE DEF keys
  <2> QED BY <1>f, <2>2, <2>3, <2>4
<1>8. UCells(Twice, Entries, NoChildren) = UCells(Once, Entries, NoChildren)
  <2>1. {Twice[k].stratum : k \in DOMAIN Twice} = {"s1"} /\ {Once[k].stratum : k \in DOMAIN Once} = {"s1"}
    BY <1>2, BatchesAre
  <2>2. ASSUME NEW e, NEW c
        PROVE  (\E k \in InStratum(Twice, Precise(Twice), c) : Offered(Twice[k], e, NoChildren) # {})
                 <=> (\E k \in InStratum(Once, Precise(Once), c) : Offered(Once[k], e, NoChildren) # {})
    <3>1. Alike(InStratum(Twice, Precise(Twice), c), InStratum(Once, Precise(Once), c))
      BY SplitFrames
    <3>2. Offered(Once[1], e, NoChildren) # {}
            <=> Offered(Twice[1], e, NoChildren) # {} \/ Offered(Twice[2], e, NoChildren) # {}
      BY <1>5, BatchesAre
    <3> QED BY <3>1, <3>2 DEF Alike
  <2> QED BY <2>1, <2>2 DEF UCells
<1> QED BY <1>6, <1>7, <1>8

LEMMA TallyRule ==
    ASSUME GoldAssumption, InitTally, done, result = TallyOutcome
    PROVE  TallyIgnoresBatching
<1>1. result.whole = Tally(Once, Entries, NoChildren) /\ result.parts = Tally(Twice, Entries, NoChildren)
  BY DEF TallyOutcome, Count, First, Second, Whole, Once, Twice, NoChildren
<1>2. ASSUME NEW c
      PROVE  /\ SumMarked(Twice, OfCell(Twice, c), c[1]) = SumMarked(Once, OfCell(Once, c), c[1])
             /\ SumCoded(Twice, OfCell(Twice, c)) = SumCoded(Once, OfCell(Once, c))
  <2>1. Alike(OfCell(Twice, c), OfCell(Once, c))
    BY SplitFrames
  <2> QED BY <2>1, SplitSums
<1>3. ASSUME NEW c
      PROVE  LET X == InStratum(Twice, Recalled(Twice), c[2])  Y == InStratum(Once, Recalled(Once), c[2])
             IN  /\ SumMarked(Twice, X, c[1]) = SumMarked(Once, Y, c[1])
                 /\ SumCoded(Twice, X) = SumCoded(Once, Y)
  <2>1. Alike(InStratum(Twice, Recalled(Twice), c[2]), InStratum(Once, Recalled(Once), c[2]))
    BY SplitFrames
  <2> QED BY <2>1, SplitSums
<1>4. ASSUME NEW c
      PROVE  LET X == InStratum(Twice, Precise(Twice), c[2])  Y == InStratum(Once, Precise(Once), c[2])
             IN  /\ SumRolled(Twice, X, c[1]) = SumRolled(Once, Y, c[1])
                 /\ SumOffered(Twice, X, c[1], NoChildren) = SumOffered(Once, Y, c[1], NoChildren)
  <2>1. Alike(InStratum(Twice, Precise(Twice), c[2]), InStratum(Once, Precise(Once), c[2]))
    BY SplitFrames
  <2> QED BY <2>1, SplitSums
<1>5. result.whole = result.parts
  <2>1. PCells(Twice) = PCells(Once) /\ RCells(Twice, Entries) = RCells(Once, Entries)
        /\ UCells(Twice, Entries, NoChildren) = UCells(Once, Entries, NoChildren)
    BY SplitCells
  <2> DEFINE
        precision(B) == [c \in PCells(B) |->
          [tp |-> SumMarked(B, OfCell(B, c), c[1]),
           fp |-> SumCoded(B, OfCell(B, c)) - SumMarked(B, OfCell(B, c), c[1])]]
        recall(B) == [c \in RCells(B, Entries) |->
          [tp |-> SumMarked(B, InStratum(B, Recalled(B), c[2]), c[1]),
           fn |-> SumCoded(B, InStratum(B, Recalled(B), c[2]))
                    - SumMarked(B, InStratum(B, Recalled(B), c[2]), c[1])]]
        rollup(B) == [c \in UCells(B, Entries, NoChildren) |->
          [tp |-> SumRolled(B, InStratum(B, Precise(B), c[2]), c[1]),
           fp |-> SumOffered(B, InStratum(B, Precise(B), c[2]), c[1], NoChildren)
                    - SumRolled(B, InStratum(B, Precise(B), c[2]), c[1])]]
  <2>2. ASSUME NEW B
        PROVE  Tally(B, Entries, NoChildren)
                 = [precision |-> precision(B), recall |-> recall(B), rollup |-> rollup(B)]
    BY TallyIs
  <2>3. precision(Twice) = precision(Once)
    BY <1>2, <2>1
  <2>4. recall(Twice) = recall(Once)
    BY <1>3, <2>1
  <2>5. rollup(Twice) = rollup(Once)
    BY <1>4, <2>1
  <2> HIDE DEF precision, recall, rollup
  <2> QED BY <1>1, <2>2, <2>3, <2>4, <2>5
<1>6. ASSUME input.frame = "precision", input.coded # {}
      PROVE  LET cell == result.whole.precision[<<Asked, "s1">>]
             IN  /\ cell.tp + cell.fp = Cardinality(input.coded)
                 /\ cell.tp = Cardinality({i \in input.coded : Asked \in input.labels[i]})
  <2> DEFINE c == <<Asked, "s1">>
  <2>1. input.coded \subseteq Sample /\ IsFiniteSet(Sample) /\ Sample \in SUBSET Sample
    BY DEF InitTally, GoldAssumption
  <2>2. Precise(Once) = {1} /\ OfCell(Once, c) = {1}
    BY <1>6, SplitFrames
  <2>3. /\ Once[1] = Whole /\ Coded(Whole) = input.coded
        /\ Whole.entry = Asked /\ Whole.stratum = "s1"
        /\ {i \in Coded(Whole) : Asked \in Whole.labels[i]} = {i \in input.coded : Asked \in input.labels[i]}
    <3>1. /\ Coded(Whole) = Sample \cap input.coded /\ Whole.entry = Asked /\ Whole.stratum = "s1"
          /\ \A i \in Coded(Whole) : Whole.labels[i] = input.labels[i]
      BY <2>1, HandedOutIs DEF Whole
    <3>2. Coded(Whole) = input.coded
      BY <2>1, <3>1
    <3> QED BY <3>1, <3>2, BatchesAre
  <2>4. c \in PCells(Once)
    BY <1>6, <2>2, <2>3 DEF PCells
  <2>5. /\ result.whole.precision[c].tp = SumMarked(Once, {1}, Asked)
        /\ result.whole.precision[c].fp = SumCoded(Once, {1}) - SumMarked(Once, {1}, Asked)
    <3>1. Tally(Once, Entries, NoChildren).precision
            = [d \in PCells(Once) |->
                 [tp |-> SumMarked(Once, OfCell(Once, d), d[1]),
                  fp |-> SumCoded(Once, OfCell(Once, d)) - SumMarked(Once, OfCell(Once, d), d[1])]]
      BY TallyIs
    <3>2. c[1] = Asked
      OBVIOUS
    <3> HIDE DEF c
    <3>3. result.whole.precision[c]
            = [tp |-> SumMarked(Once, OfCell(Once, c), c[1]),
               fp |-> SumCoded(Once, OfCell(Once, c)) - SumMarked(Once, OfCell(Once, c), c[1])]
      BY <1>1, <2>4, <3>1
    <3> QED BY <2>2, <3>2, <3>3
  <2>6. /\ Cardinality(input.coded) \in Nat
        /\ Cardinality({i \in input.coded : Asked \in input.labels[i]}) \in Nat
    BY <2>1, FS_Subset, FS_CardinalityType
  <2>7. SumCoded(Once, {1}) = Cardinality(input.coded)
    <3> DEFINE g == [k \in {1} |-> Cardinality(Coded(Once[k]))]
    <3>1. g[1] = Cardinality(input.coded) /\ DOMAIN g = {1}
      BY <2>3
    <3> HIDE DEF g
    <3>2. SumOver(g) = Cardinality(input.coded)
      BY <2>6, <3>1, TotalOne DEF SumOver, SumFunction, Total
    <3> QED BY <3>2 DEF SumCoded, g
  <2>8. SumMarked(Once, {1}, Asked) = Cardinality({i \in input.coded : Asked \in input.labels[i]})
    <3> DEFINE g == [k \in {1} |-> Cardinality({i \in Coded(Once[k]) : Asked \in Once[k].labels[i]})]
    <3>1. g[1] = Cardinality({i \in input.coded : Asked \in input.labels[i]}) /\ DOMAIN g = {1}
      BY <2>3
    <3> HIDE DEF g
    <3>2. SumOver(g) = Cardinality({i \in input.coded : Asked \in input.labels[i]})
      BY <2>6, <3>1, TotalOne DEF SumOver, SumFunction, Total
    <3> QED BY <3>2 DEF SumMarked, g
  <2> QED BY <2>5, <2>6, <2>7, <2>8
<1> QED BY <1>5, <1>6 DEF TallyIgnoresBatching

\* A sample may be cut in two in any way.
THEOREM BatchingIgnored == Spec => []TallyIgnoresBatching
<1>1. RuleInv => TallyIgnoresBatching
  <2> SUFFICES ASSUME RuleInv, rule = "tally", done PROVE TallyIgnoresBatching
    BY DEF TallyIgnoresBatching
  <2>1. InitTally
    BY PickedFor DEF RuleInv
  <2> QED BY <2>1, TallyRule, GoldAssumption DEF RuleInv, Applied
<1> QED BY <1>1, RuleIsApplied, PTL

-----------------------------------------------------------------------------
(* The labels of the two stages *)

\* The entries whose keyword rule fires on an incident.
WordsHit(i, e) == Cardinality(RuleBook[e].positive \cap input.texts[i])
                - Cardinality(RuleBook[e].negative \cap input.texts[i])
Fired(i) == {e \in Entries : /\ RuleBook[e].positive # {}
                             /\ ConfidenceScale * WordsHit(i, e)
                                  >= Threshold * Cardinality(RuleBook[e].positive)}

\* The rows of either stage.
Stage1Rows == Stage1(input.texts, RuleBook, Threshold)
Asks == Routed(Stage1Rows, Corpus, Threshold)
Said == [i \in Asks |-> Shipped(input.replies[i], Valid)]
Stage2Rows == {Stage2Row(i, Said[i]) : i \in {j \in Asks : Said[j] # OOS}}

\* A rule reaches the threshold when its hits do, without rounding.
LEMMA ConfidenceReaches ==
    ASSUME ClassificationAssumption, InitClassify, NEW i \in Corpus, NEW e \in Entries
    PROVE  /\ Confidence(input.texts[i], RuleBook[e]) \in Nat
           /\ Confidence(input.texts[i], RuleBook[e]) >= Threshold <=> e \in Fired(i)
<1>1. /\ RuleBook[e].positive \in SUBSET Words /\ RuleBook[e].negative \in SUBSET Words
      /\ IsFiniteSet(Words) /\ Threshold \in Nat \ {0}
      /\ RuleBook[e].positive \cap input.texts[i] \in SUBSET Words
      /\ RuleBook[e].negative \cap input.texts[i] \in SUBSET Words
  BY DEF ClassificationAssumption, ConfidenceScale, Entries
<1> DEFINE n == Cardinality(RuleBook[e].positive)  h == WordsHit(i, e)
           c == Confidence(input.texts[i], RuleBook[e])
<1>2. n \in Nat /\ h \in Int /\ (n = 0 <=> RuleBook[e].positive = {})
  <2>1. IsFiniteSet(RuleBook[e].positive)
    BY <1>1, FS_Subset
  <2> QED BY <1>1, <2>1, CountSubset, FS_EmptySet DEF WordsHit
<1>3. c = IF n = 0 THEN 0 ELSE (Max({0, h}) * 60) \div n
  BY <1>2 DEF Confidence, WordsHit, ConfidenceScale
<1>4. e \in Fired(i) <=> n # 0 /\ 60 * h >= Threshold * n
  BY <1>2 DEF Fired, ConfidenceScale
<1> HIDE DEF n, h, c
<1>5. Max({0, h}) = IF h > 0 THEN h ELSE 0
  BY <1>2, MaxPair
<1>6. CASE n = 0
  BY <1>1, <1>3, <1>4, <1>6 DEF c
<1>7. CASE n # 0 /\ h > 0
  <2> DEFINE x == 60 * h
  <2>1. n \in Nat \ {0} /\ h \in Nat /\ x \in Nat /\ c = x \div n
    BY <1>2, <1>3, <1>5, <1>7
  <2> HIDE DEF x
  <2>2. x \div n >= Threshold <=> x >= Threshold * n
    BY <1>1, <2>1, DivReaches
  <2>3. x \div n \in Nat
    BY <2>1
  <2> QED BY <1>4, <1>7, <2>1, <2>2, <2>3 DEF x, c
<1>8. CASE n # 0 /\ ~(h > 0)
  <2>1. c = 0 /\ 60 * h <= 0
    BY <1>2, <1>3, <1>5, <1>8
  <2>2. Threshold * n \in Nat \ {0}
    BY <1>1, <1>2, <1>8
  <2>3. ~(60 * h >= Threshold * n)
    BY <1>2, <2>1, <2>2
  <2> QED BY <1>1, <1>4, <2>1, <2>3 DEF c
<1> QED BY <1>6, <1>7, <1>8

\* The rows of Stage 1 are those that fired, and only the others are asked about.
LEMMA Stage1Is ==
    ASSUME ClassificationAssumption, InitClassify
    PROVE  /\ \A r \in Stage1Rows : /\ r.id \in Corpus /\ r.entry \in Fired(r.id) /\ r.stage = 1
                                    /\ r.conf \in Nat /\ r.conf >= Threshold
           /\ \A i \in Corpus : \A e \in Fired(i) :
                \E r \in Stage1Rows : r.id = i /\ r.entry = e /\ r.stage = 1
           /\ Asks = {i \in Corpus : Fired(i) = {}}
<1>1. DOMAIN input.texts = Corpus /\ DOMAIN RuleBook = Entries /\ Threshold \in Nat
  BY DEF InitClassify, Entries, ClassificationAssumption, ConfidenceScale
<1> DEFINE row(i, e) == [id |-> i, entry |-> e, stage |-> 1,
                         conf |-> Confidence(input.texts[i], RuleBook[e])]
<1>2. Stage1Rows = {r \in {row(i, e) : i \in Corpus, e \in Entries} : r.conf >= Threshold}
  BY <1>1 DEF Stage1Rows, Stage1
<1>3. ASSUME NEW r \in Stage1Rows
      PROVE  /\ r.id \in Corpus /\ r.entry \in Fired(r.id) /\ r.stage = 1
             /\ r.conf \in Nat /\ r.conf >= Threshold
  <2>1. PICK i \in Corpus, e \in Entries : r = row(i, e) /\ r.conf >= Threshold
    BY <1>2
  <2>2. r.id = i /\ r.entry = e /\ r.stage = 1 /\ r.conf = Confidence(input.texts[i], RuleBook[e])
    BY <2>1
  <2> QED BY <2>1, <2>2, ConfidenceReaches
<1>4. ASSUME NEW i \in Corpus, NEW e \in Fired(i)
      PROVE  \E r \in Stage1Rows : r.id = i /\ r.entry = e /\ r.stage = 1
  <2>1. e \in Entries
    BY DEF Fired
  <2>2. row(i, e).conf >= Threshold
    BY <2>1, ConfidenceReaches
  <2>3. row(i, e) \in Stage1Rows
    BY <1>2, <2>1, <2>2
  <2> QED BY <2>3
<1>5. Asks = {i \in Corpus : Fired(i) = {}}
  <2>1. Asks = {i \in Corpus : \A r \in Stage1Rows : r.id = i => r.conf < Threshold}
    BY DEF Asks, Routed
  <2>2. \A r \in Stage1Rows : ~(r.conf < Threshold)
    BY <1>1, <1>3
  <2>3. Asks = {i \in Corpus : \A r \in Stage1Rows : r.id # i}
    BY <2>1, <2>2
  <2> QED BY <1>3, <1>4, <2>3
<1> QED BY <1>3, <1>4, <1>5

\* What Stage 2 adds to an incident it is asked about.
LEMMA Stage2Is ==
    ASSUME ClassificationAssumption, InitClassify
    PROVE  /\ \A r \in Stage2Rows : /\ r.id \in Asks /\ r.stage = 2
                                    /\ r.entry = input.replies[r.id].entry /\ r.entry \in Entries
           /\ \A i \in Asks : input.replies[i].entry \in Entries =>
                \E r \in Stage2Rows : r.id = i
<1>1. Asks \subseteq Corpus
  BY Stage1Is
<1>2. ASSUME NEW i \in Asks
      PROVE  /\ Said[i] # OOS => Said[i] = input.replies[i].entry /\ Said[i] \in Entries
             /\ input.replies[i].entry \in Entries => Said[i] # OOS
  <2>1. input.replies[i] \in Answers
    BY <1>1 DEF InitClassify
  <2>2. input.replies[i].form = "object" /\ input.replies[i].confidence = "number"
    BY <2>1 DEF Answers, Reply
  <2>3. Said[i] = IF input.replies[i].entry \in Valid THEN input.replies[i].entry ELSE OOS
    BY <2>2 DEF Said, Shipped, IsObject
  <2> QED BY <2>3 DEF Valid, ClassificationAssumption
<1>3. ASSUME NEW r \in Stage2Rows
      PROVE  /\ r.id \in Asks /\ r.stage = 2
             /\ r.entry = input.replies[r.id].entry /\ r.entry \in Entries
  <2>1. PICK i \in Asks : Said[i] # OOS /\ r = Stage2Row(i, Said[i])
    BY DEF Stage2Rows
  <2>2. r.id = i /\ r.entry = Said[i] /\ r.stage = 2
    BY <2>1 DEF Stage2Row
  <2> QED BY <1>2, <2>1, <2>2
<1>4. ASSUME NEW i \in Asks, input.replies[i].entry \in Entries
      PROVE  \E r \in Stage2Rows : r.id = i
  <2>1. Stage2Row(i, Said[i]) \in Stage2Rows
    BY <1>2, <1>4 DEF Stage2Rows
  <2> QED BY <2>1 DEF Stage2Row
<1> QED BY <1>3, <1>4

\* Every row is labelled once.
LEMMA LabelsAre ==
    ASSUME ClassificationAssumption, InitClassify
    PROVE  Classify.labels = [r \in Stage1Rows \cup Stage2Rows |-> 1]
<1>1. DOMAIN input.texts = Corpus /\ DOMAIN Said = Asks /\ Threshold \in Nat
  BY DEF InitClassify, Said, ClassificationAssumption, ConfidenceScale
<1> DEFINE low(i) == {r \in Stage1Rows : r.id = i /\ r.conf < Threshold}
           kept == {r \in Stage1Rows : ~(r.id \in DOMAIN Said /\ r.conf < Threshold)}
           second == [r \in {Stage2Row(i, Said[i]) : i \in {j \in DOMAIN Said : Said[j] # OOS}}
                        |-> Max({1, Cardinality(low(r.id))})]
<1>2. Classify.labels = SetToBag(kept) (+) second
  BY <1>1 DEF Classify, Labels, Merged, Stage1Rows, Asks, Said
<1>3. kept = Stage1Rows /\ \A i : low(i) = {}
  BY <1>1, Stage1Is
<1>4. second = [r \in Stage2Rows |-> 1]
  <2>1. Cardinality({}) = 0 /\ Max({1, 0}) = 1
    BY FS_EmptySet, MaxPair
  <2>2. \A i : Max({1, Cardinality(low(i))}) = 1
    BY <1>3, <2>1
  <2> HIDE DEF low
  <2> QED BY <1>1, <2>2 DEF Stage2Rows
<1>5. Stage1Rows \cap Stage2Rows = {}
  BY Stage1Is, Stage2Is
<1> HIDE DEF kept, second
<1>6. Classify.labels = [r \in Stage1Rows |-> 1] (+) [r \in Stage2Rows |-> 1]
  BY <1>2, <1>3, <1>4 DEF SetToBag
<1> QED BY <1>5, <1>6 DEF (+)

LEMMA RowsFinite ==
    ASSUME ClassificationAssumption, InitClassify
    PROVE  IsFiniteSet(Stage1Rows \cup Stage2Rows)
<1>1. DOMAIN input.texts = Corpus /\ DOMAIN RuleBook = Entries
      /\ IsFiniteSet(Corpus) /\ IsFiniteSet(Entries)
  BY DEF InitClassify, Entries, ClassificationAssumption
<1>2. IsFiniteSet(Stage1Rows)
  <2> DEFINE first == [p \in Corpus \X Entries |->
                         [id |-> p[1], entry |-> p[2], stage |-> 1,
                          conf |-> Confidence(input.texts[p[1]], RuleBook[p[2]])]]
  <2>1. IsFiniteSet(Corpus \X Entries)
    BY <1>1, FS_Product
  <2>2. IsFiniteSet({first[p] : p \in Corpus \X Entries})
    <3> DEFINE pairs == Corpus \X Entries
    <3> HIDE DEF first, pairs
    <3>1. IsFiniteSet(pairs)
      BY <2>1 DEF pairs
    <3>2. IsFiniteSet({first[p] : p \in pairs})
      BY <3>1, Image
    <3> QED BY <3>2 DEF pairs
  <2>3. Stage1Rows \subseteq {first[p] : p \in Corpus \X Entries}
    <3> SUFFICES ASSUME NEW r \in Stage1Rows PROVE \E p \in Corpus \X Entries : r = first[p]
      OBVIOUS
    <3>1. PICK i \in Corpus, e \in Entries :
            r = [id |-> i, entry |-> e, stage |-> 1, conf |-> Confidence(input.texts[i], RuleBook[e])]
      BY <1>1 DEF Stage1Rows, Stage1
    <3>2. r = first[<<i, e>>]
      BY <3>1
    <3> QED BY <3>2
  <2> HIDE DEF first
  <2> QED BY <2>2, <2>3, FS_Subset
<1>3. IsFiniteSet(Stage2Rows)
  <2> DEFINE T == {j \in Asks : Said[j] # OOS}  second == [i \in Corpus |-> Stage2Row(i, Said[i])]
  <2>1. Asks \subseteq Corpus
    BY Stage1Is
  <2>2. T \in SUBSET Corpus
    BY <2>1
  <2>3. Stage2Rows = {second[i] : i \in T}
    BY <2>2 DEF Stage2Rows
  <2> HIDE DEF second, T
  <2>4. IsFiniteSet(T)
    BY <1>1, <2>2, FS_Subset
  <2>5. IsFiniteSet({second[i] : i \in T})
    BY <2>4, Image
  <2> QED BY <2>3, <2>5
<1> QED BY <1>2, <1>3, FS_Union

LEMMA LabelRule ==
    ASSUME ClassificationAssumption, InitClassify, rule = "classify", done, result = Classify
    PROVE  LabelsFollowStages
<1> DEFINE D == Stage1Rows \cup Stage2Rows
<1>1. result.labels = [r \in D |-> 1]
  BY LabelsAre
<1>2. ASSUME NEW i \in Corpus
      PROVE  LET pairs == {<<r.entry, r.stage>> : r \in {s \in D : s.id = i}}
             IN  IF Fired(i) # {} THEN pairs = Fired(i) \X {1}
                 ELSE pairs = ({input.replies[i].entry} \cap Entries) \X {2}
  <2> DEFINE pairs == {<<r.entry, r.stage>> : r \in {s \in D : s.id = i}}
  <2>1. CASE Fired(i) # {}
    <3>1. \A r \in D : r.id = i => r.entry \in Fired(i) /\ r.stage = 1
      BY <2>1, Stage1Is, Stage2Is
    <3>2. \A e \in Fired(i) : \E r \in D : r.id = i /\ r.entry = e /\ r.stage = 1
      BY Stage1Is
    <3>3. pairs \subseteq Fired(i) \X {1}
      BY <3>1
    <3>4. Fired(i) \X {1} \subseteq pairs
      BY <3>2
    <3> QED BY <2>1, <3>3, <3>4
  <2>2. CASE Fired(i) = {}
    <3> DEFINE e == input.replies[i].entry
    <3>1. i \in Asks
      BY <2>2, Stage1Is
    <3>2. \A r \in D : r.id = i => r.entry = e /\ r.entry \in Entries /\ r.stage = 2
      BY <2>2, Stage1Is, Stage2Is
    <3>3. e \in Entries => \E r \in D : r.id = i
      BY <3>1, Stage2Is
    <3>4. pairs \subseteq ({e} \cap Entries) \X {2}
      BY <3>2
    <3>5. ({e} \cap Entries) \X {2} \subseteq pairs
      BY <3>2, <3>3
    <3> QED BY <2>2, <3>4, <3>5
  <2> QED BY <2>1, <2>2
<1>3. SumFunction(result.observed.counts) = SumFunction(result.labels)
  <2> DEFINE g == result.labels  h == result.observed.counts
             key == [r \in D |-> <<r.entry, input.stratum[r.id]>>]
             C == {key[r] : r \in D}
  <2>1. DOMAIN g = D /\ Summable(D, g)
    BY <1>1, RowsFinite DEF Summable
  <2>2. h = [c \in {<<r.entry, input.stratum[r.id]>> : r \in D} |->
               SumFunctionOnSet(g, {r \in D : r.entry = c[1] /\ input.stratum[r.id] = c[2]})]
    BY <2>1 DEF Classify, Observed
  <2>3. C = {<<r.entry, input.stratum[r.id]>> : r \in D}
    OBVIOUS
  <2>4. ASSUME NEW c \in C PROVE h[c] = Total({r \in D : key[r] = c}, g)
    <3>1. {r \in D : r.entry = c[1] /\ input.stratum[r.id] = c[2]} = {r \in D : key[r] = c}
      <4> HIDE DEF D
      <4>1. c = <<c[1], c[2]>>
        OBVIOUS
      <4>2. \A r \in D : key[r] = <<r.entry, input.stratum[r.id]>>
        OBVIOUS
      <4> HIDE DEF key, C
      <4>3. \A r \in D : key[r] = c <=> r.entry = c[1] /\ input.stratum[r.id] = c[2]
        BY <4>1, <4>2
      <4> QED BY <4>3
    <3> HIDE DEF key, g, D
    <3>2. h[c] = SumFunctionOnSet(g, {r \in D : r.entry = c[1] /\ input.stratum[r.id] = c[2]})
      BY <2>2, <2>3
    <3> QED BY <3>1, <3>2 DEF Total
  <2>5. DOMAIN h = C
    BY <2>2, <2>3
  <2> HIDE DEF g, h, key, D
  <2>5a. ByKey(D, g, key, h)
    BY <2>4 DEF ByKey
  <2>6. Total(C, h) = Total(D, g)
    BY <2>1, <2>5a, TotalFibres
  <2> QED BY <2>1, <2>5, <2>6 DEF g, h, SumFunction, Total
<1>4. \A r \in DOMAIN result.labels : result.labels[r] = 1
  BY <1>1
<1>5. \A i \in Corpus :
        LET fired == {e \in Entries :
              /\ RuleBook[e].positive # {}
              /\ ConfidenceScale * (Cardinality(RuleBook[e].positive \cap input.texts[i])
                                      - Cardinality(RuleBook[e].negative \cap input.texts[i]))
                   >= Threshold * Cardinality(RuleBook[e].positive)}
        IN  fired = Fired(i)
  BY DEF Fired, WordsHit
<1>6. DOMAIN result.labels = D
  BY <1>1
<1> HIDE DEF D
<1> QED BY <1>2, <1>3, <1>4, <1>5, <1>6 DEF LabelsFollowStages

\* The label of an incident is that of the one stage that decides it, and the
\* observed counts add up to the labels, for any corpus, rules and replies.
THEOREM LabelsFromOneStage == Spec => []LabelsFollowStages
<1>1. RuleInv => LabelsFollowStages
  <2> SUFFICES ASSUME RuleInv, rule = "classify", done PROVE LabelsFollowStages
    BY DEF LabelsFollowStages
  <2>1. InitClassify
    BY PickedFor DEF RuleInv
  <2> QED BY <2>1, LabelRule, ClassificationAssumption DEF RuleInv, Applied
<1> QED BY <1>1, RuleIsApplied, PTL

-----------------------------------------------------------------------------
(* Tied ranks and the Borda count *)

\* Scores of finitely many entries.
Scored2(s) == IsFiniteSet(DOMAIN s) /\ \A f \in DOMAIN s : s[f] \in Int
Above(s, e) == {f \in DOMAIN s : s[f] > s[e]}
Below(s, e) == {f \in DOMAIN s : s[f] < s[e]}
Level(s, e) == {f \in DOMAIN s : s[f] = s[e]}

\* An entry's place among the scores: whoever is not above or level is below.
LEMMA Levels ==
    ASSUME NEW s, Scored2(s), NEW e \in DOMAIN s
    PROVE  /\ Cardinality(Above(s, e)) \in Nat /\ Cardinality(Below(s, e)) \in Nat
           /\ Cardinality(Level(s, e)) \in Nat \ {0}
           /\ Cardinality(Above(s, e)) + Cardinality(Level(s, e)) + Cardinality(Below(s, e))
                = Cardinality(DOMAIN s)
           /\ TiedRanks2(s)[e] = 2 * Cardinality(Above(s, e)) + 1 + Cardinality(Level(s, e))
           /\ IsFiniteSet(Above(s, e)) /\ IsFiniteSet(Level(s, e)) /\ IsFiniteSet(Below(s, e))
<1> DEFINE A == Above(s, e)  B == Below(s, e)  L == Level(s, e)
<1>1. A \in SUBSET DOMAIN s /\ B \in SUBSET DOMAIN s /\ L \in SUBSET DOMAIN s
  BY DEF Above, Below, Level
<1>2. /\ IsFiniteSet(A) /\ IsFiniteSet(B) /\ IsFiniteSet(L)
      /\ Cardinality(A) \in Nat /\ Cardinality(B) \in Nat /\ Cardinality(L) \in Nat
  BY <1>1, CountSubset DEF Scored2
<1>3. e \in L
  BY DEF Level
<1>4. /\ A \cap L = {} /\ (A \cup L) \cap B = {} /\ (A \cup L) \cup B = DOMAIN s
  <2>1. \A f \in DOMAIN s : \/ s[f] > s[e] /\ ~(s[f] = s[e]) /\ ~(s[f] < s[e])
                            \/ ~(s[f] > s[e]) /\ s[f] = s[e] /\ ~(s[f] < s[e])
                            \/ ~(s[f] > s[e]) /\ ~(s[f] = s[e]) /\ s[f] < s[e]
    BY DEF Scored2
  <2> QED BY <2>1 DEF Above, Below, Level
<1>5. TiedRanks2(s)[e] = 2 * Cardinality(A) + 1 + Cardinality(L)
  BY DEF TiedRanks2, Above, Level
<1> HIDE DEF A, B, L
<1>6. IsFiniteSet(A \cup L) /\ Cardinality(A \cup L) = Cardinality(A) + Cardinality(L)
  BY <1>2, <1>4, CountUnion
<1>7. Cardinality((A \cup L) \cup B) = Cardinality(A \cup L) + Cardinality(B)
  BY <1>2, <1>4, <1>6, CountUnion
<1>8. Cardinality(L) # 0
  BY <1>2, <1>3, FS_EmptySet
<1> QED BY <1>2, <1>4, <1>5, <1>6, <1>7, <1>8 DEF A, B, L

\* The better score has the lower rank.
LEMMA TiedOrder ==
    ASSUME NEW s, Scored2(s), NEW e \in DOMAIN s, NEW f \in DOMAIN s, s[e] > s[f]
    PROVE  TiedRanks2(s)[e] < TiedRanks2(s)[f]
<1> DEFINE A == Above(s, e)  L == Level(s, e)  C == Above(s, f)
<1>1. s[e] \in Int /\ s[f] \in Int /\ \A x \in DOMAIN s : s[x] \in Int
  BY DEF Scored2
<1>2. A \subseteq C /\ L \subseteq C /\ A \cap L = {}
  BY <1>1 DEF Above, Level
<1>3. /\ IsFiniteSet(A) /\ IsFiniteSet(L) /\ IsFiniteSet(C)
      /\ Cardinality(A) \in Nat /\ Cardinality(L) \in Nat \ {0} /\ Cardinality(C) \in Nat
      /\ TiedRanks2(s)[e] = 2 * Cardinality(A) + 1 + Cardinality(L)
  BY Levels
<1>4. Cardinality(Level(s, f)) \in Nat \ {0}
      /\ TiedRanks2(s)[f] = 2 * Cardinality(C) + 1 + Cardinality(Level(s, f))
  BY Levels
<1> HIDE DEF A, L, C
<1>5. Cardinality(A \cup L) = Cardinality(A) + Cardinality(L)
  BY <1>2, <1>3, CountUnion
<1>6. Cardinality(A \cup L) <= Cardinality(C)
  BY <1>2, <1>3, CountSubset
<1> QED BY <1>3, <1>4, <1>5, <1>6

LEMMA TiedTells ==
    ASSUME NEW s, Scored2(s), NEW e \in DOMAIN s, NEW f \in DOMAIN s
    PROVE  /\ TiedRanks2(s)[e] \in Int
           /\ TiedRanks2(s)[e] < TiedRanks2(s)[f] <=> s[e] > s[f]
           /\ TiedRanks2(s)[e] = TiedRanks2(s)[f] <=> s[e] = s[f]
<1>1. s[e] \in Int /\ s[f] \in Int
  BY DEF Scored2
<1>2. TiedRanks2(s)[e] \in Int /\ TiedRanks2(s)[f] \in Int
  BY Levels
<1>3. s[e] > s[f] => TiedRanks2(s)[e] < TiedRanks2(s)[f]
  BY TiedOrder
<1>4. s[f] > s[e] => TiedRanks2(s)[f] < TiedRanks2(s)[e]
  BY TiedOrder
<1>5. s[e] = s[f] => TiedRanks2(s)[e] = TiedRanks2(s)[f]
  BY DEF TiedRanks2
<1> QED BY <1>1, <1>2, <1>3, <1>4, <1>5

\* The points an entry wins over the others, two for each that scored less and
\* one for each that scored the same.
PointsIn(s, e) == 2 * Cardinality(Below(s, e)) + Cardinality(Level(s, e) \ {e})

\* They and its doubled rank add up to twice the number of entries.
LEMMA PointsAndRank ==
    ASSUME NEW s, Scored2(s), NEW e \in DOMAIN s, NEW n \in Nat, n = Cardinality(DOMAIN s)
    PROVE  /\ PointsIn(s, e) \in Int /\ TiedRanks2(s)[e] \in Int
           /\ PointsIn(s, e) + TiedRanks2(s)[e] = 2 * n
<1> DEFINE A == Above(s, e)  B == Below(s, e)  L == Level(s, e)
<1>1. /\ Cardinality(A) \in Nat /\ Cardinality(B) \in Nat /\ Cardinality(L) \in Nat \ {0}
      /\ Cardinality(A) + Cardinality(L) + Cardinality(B) = n
      /\ TiedRanks2(s)[e] = 2 * Cardinality(A) + 1 + Cardinality(L)
      /\ IsFiniteSet(L)
  BY Levels
<1>2. e \in L
  BY DEF Level
<1>3. PointsIn(s, e) = 2 * Cardinality(B) + Cardinality(L \ {e})
  BY DEF PointsIn
<1> HIDE DEF A, B, L
<1>4. Cardinality(L \ {e}) = Cardinality(L) - 1
  BY <1>1, <1>2, FS_RemoveElement
<1> QED BY <1>1, <1>3, <1>4

\* The doubled ranks of a ballot add up as those of a ranking without ties.
LEMMA TiedSum ==
    ASSUME NEW s, Scored2(s), NEW n \in Nat, n = Cardinality(DOMAIN s)
    PROVE  SumFunction(TiedRanks2(s)) = n * (n + 1)
<1> DEFINE E == DOMAIN s  b == TiedRanks2(s)
           lost(e, f) == IF s[f] > s[e] THEN 2 ELSE IF s[f] = s[e] THEN 1 ELSE 0
           g == [p \in E \X E |-> lost(p[1], p[2])]
           over(e) == [f \in E |-> g[<<e, f>>]]
           under(f) == [e \in E |-> g[<<e, f>>]]
           row == [e \in E |-> Total(E, over(e))]
           col == [f \in E |-> Total(E, under(f))]
<1>1. \A e, f \in E : s[e] \in Int /\ s[f] \in Int /\ g[<<e, f>>] = lost(e, f)
  BY DEF Scored2
<1>2. IsFiniteSet(E) /\ DOMAIN b = E
  BY DEF Scored2, TiedRanks2
<1>3. Table(E, E, g)
  <2>1. \A e, f \in E : g[<<e, f>>] \in Int
    <3>1. \A e, f \in E : lost(e, f) \in Int
      OBVIOUS
    <3> HIDE DEF g, lost
    <3> QED BY <1>1, <3>1
  <2> HIDE DEF g
  <2> QED BY <1>2, <2>1 DEF Table
<1>4. RowSums(E, E, g, row) /\ ColSums(E, E, g, col)
  <2> HIDE DEF g
  <2> QED BY DEF RowSums, ColSums
<1>5. Summable(E, row) /\ Summable(E, col) /\ Total(E, row) = Total(E, col)
  <2> HIDE DEF row, col, g, E
  <2> QED BY <1>3, <1>4, TotalTurned
<1>6. ASSUME NEW e \in E PROVE b[e] = 1 + row[e] /\ row[e] + col[e] = 2 * n
  <2> DEFINE A == Above(s, e)  L == Level(s, e)
             two == [f \in E |-> IF f \in A THEN 2 ELSE 0]
             one == [f \in E |-> IF f \in L THEN 1 ELSE 0]
             both == [f \in E |-> 2]
             x == over(e)  y == under(e)
  <2>1. A \in SUBSET E /\ L \in SUBSET E
    BY DEF Above, Level
  <2>2. \A f \in E : x[f] = lost(e, f) /\ y[f] = lost(f, e)
    <3> HIDE DEF lost, g
    <3> QED BY <1>1
  <2>3. \A f \in E : x[f] = two[f] + one[f]
    <3> SUFFICES ASSUME NEW f \in E PROVE x[f] = two[f] + one[f]
      OBVIOUS
    <3>1. (f \in A <=> s[f] > s[e]) /\ (f \in L <=> s[f] = s[e])
      BY DEF Above, Level
    <3>2. two[f] = (IF f \in A THEN 2 ELSE 0) /\ one[f] = (IF f \in L THEN 1 ELSE 0)
      OBVIOUS
    <3>3. x[f] = IF s[f] > s[e] THEN 2 ELSE IF s[f] = s[e] THEN 1 ELSE 0
      BY <2>2
    <3>4. s[e] \in Int /\ s[f] \in Int
      BY DEF Scored2
    <3> HIDE DEF x, two, one, A, L
    <3> QED BY <3>1, <3>2, <3>3, <3>4
  <2>4. \A f \in E : both[f] = x[f] + y[f]
    <3> SUFFICES ASSUME NEW f \in E PROVE both[f] = x[f] + y[f]
      OBVIOUS
    <3>1. /\ x[f] = (IF s[f] > s[e] THEN 2 ELSE IF s[f] = s[e] THEN 1 ELSE 0)
          /\ y[f] = (IF s[e] > s[f] THEN 2 ELSE IF s[e] = s[f] THEN 1 ELSE 0)
      BY <2>2
    <3>2. both[f] = 2
      OBVIOUS
    <3>3. s[e] \in Int /\ s[f] \in Int
      BY DEF Scored2
    <3> HIDE DEF x, y, both
    <3> QED BY <3>1, <3>2, <3>3
  <2>5. /\ \A f \in E : two[f] = IF f \in A THEN 2 ELSE 0
        /\ \A f \in E : one[f] = IF f \in L THEN 1 ELSE 0
        /\ \A f \in E : both[f] = 2
    OBVIOUS
  <2>6. row[e] = Total(E, x) /\ col[e] = Total(E, y)
    BY DEF Total
  <2>7. b[e] = 2 * Cardinality(A) + 1 + Cardinality(L)
        /\ Cardinality(A) \in Nat /\ Cardinality(L) \in Nat
    BY Levels
  <2>8. \A f \in E : x[f] \in Int /\ y[f] \in Int
    BY <1>1, <2>2
  <2> HIDE DEF A, L, two, one, both, x, y, row, col, E, b
  <2>9. Summable(E, two) /\ Total(E, two) = 2 * Cardinality(A)
    BY <1>2, <2>1, <2>5, TotalCount
  <2>10. Summable(E, one) /\ Total(E, one) = 1 * Cardinality(L)
    <3>1. IsFiniteSet(E) /\ L \in SUBSET E /\ \A f \in E : one[f] = IF f \in L THEN 1 ELSE 0
      BY <1>2, <2>1, <2>5
    <3> QED BY <3>1, TotalCount
  <2>11. Total(E, x) = Total(E, two) + Total(E, one)
    BY <2>3, <2>9, <2>10, TotalPlus
  <2>12. Summable(E, x) /\ Summable(E, y)
    BY <1>2, <2>8 DEF Summable
  <2>13. Total(E, both) = Total(E, x) + Total(E, y)
    BY <2>4, <2>12, TotalPlus
  <2>14. Total(E, both) = 2 * Cardinality(E)
    BY <1>2, <2>5, TotalConstant
  <2> QED BY <2>6, <2>7, <2>9, <2>10, <2>11, <2>13, <2>14 DEF E
<1> DEFINE one == [e \in E |-> 1]  both == [e \in E |-> 2 * n]
<1>7. (\A e \in E : one[e] = 1) /\ (\A e \in E : both[e] = 2 * n)
  OBVIOUS
<1> HIDE DEF E, b, row, col, one, both
<1>8. Summable(E, one) /\ Total(E, one) = 1 * Cardinality(E)
  BY <1>2, <1>7, TotalConstant
<1>9. Total(E, both) = (2 * n) * Cardinality(E)
  BY <1>2, <1>7, TotalConstant
<1>10. Total(E, b) = Total(E, one) + Total(E, row)
  BY <1>5, <1>6, <1>7, <1>8, TotalPlus
<1>11. Total(E, both) = Total(E, row) + Total(E, col)
  <2>1. \A e \in E : both[e] = row[e] + col[e]
    BY <1>6, <1>7
  <2> QED BY <1>5, <2>1, TotalPlus
<1>12. Total(E, row) \in Int
  BY <1>5, TotalType
<1>13. n = Cardinality(E)
  BY DEF E
<1>14. 2 * Total(E, row) = 2 * (n * n) /\ n * n \in Nat
  BY <1>5, <1>9, <1>11, <1>12, <1>13
<1>15. Total(E, b) = n * (n + 1)
  BY <1>8, <1>10, <1>12, <1>13, <1>14
<1> QED BY <1>2, <1>15 DEF b, SumFunction, Total

\* The respondents who answered everything, and the scores of the kth of them.
Full == {k \in DOMAIN input.rows : Blank \notin Range(Ballot(input.rows[k], Columns))}
ScoresOf(k) == Ballot(input.rows[Nth(Full, k)], Columns)

LEMMA BallotScored ==
    ASSUME RankingAssumption, BallotAssumption, NEW row \in [DOMAIN Columns -> Scores]
    PROVE  /\ DOMAIN Ballot(row, Columns) = Range(List)
           /\ Scored2(Ballot(row, Columns))
<1>1. DOMAIN Columns \in SUBSET Nat /\ Range(Columns) = Range(List)
      /\ Scores \in SUBSET Nat /\ 0 \in Nat
  BY DEF RankingAssumption, BallotAssumption
<1>2. IsFiniteSet(Range(List))
  BY ListedFinite DEF RankingAssumption, BallotAssumption
<1>3. DOMAIN Ballot(row, Columns) = Range(List)
  BY <1>1 DEF Ballot
<1>4. ASSUME NEW e \in Range(List) PROVE Ballot(row, Columns)[e] \in Int
  <2> DEFINE given == {c \in DOMAIN Columns : Columns[c] = e /\ row[c] # Blank}
  <2>1. Ballot(row, Columns)[e] = IF given = {} THEN Blank ELSE row[Min(given)]
    BY <1>1 DEF Ballot
  <2>2. given # {} => Min(given) \in given
    <3>1. given \in SUBSET Nat
      BY <1>1
    <3> QED BY <3>1, LeastIs
  <2>3. given # {} => row[Min(given)] \in Scores
    BY <2>2
  <2> HIDE DEF given
  <2>4. CASE given = {}
    BY <2>1, <2>4 DEF Blank
  <2>5. CASE given # {}
    <3>1. Ballot(row, Columns)[e] = row[Min(given)]
      BY <2>1, <2>5
    <3>2. row[Min(given)] \in Scores
      BY <2>3, <2>5
    <3>3. Scores \subseteq Int
      BY <1>1
    <3> QED BY <3>1, <3>2, <3>3
  <2> QED BY <2>4, <2>5
<1> QED BY <1>2, <1>3, <1>4 DEF Scored2

LEMMA BallotsAre ==
    ASSUME RankingAssumption, BallotAssumption, InitBootstrap
    PROVE  LET ballots == Ballots(input.rows, Columns)
               M == 1 .. Cardinality(Full)
           IN  /\ DOMAIN ballots = M /\ IsFiniteSet(M)
               /\ \A k \in M : /\ ballots[k] = TiedRanks2(ScoresOf(k))
                               /\ DOMAIN ScoresOf(k) = Range(List) /\ Scored2(ScoresOf(k))
<1> DEFINE ballots == Ballots(input.rows, Columns)  M == 1 .. Cardinality(Full)
           full == Kept(input.rows, Full)
<1>1. /\ DOMAIN input.rows = 1 .. Respondents /\ Respondents \in Nat
      /\ \A i \in 1 .. Respondents : input.rows[i] \in [DOMAIN Columns -> Scores]
  BY DEF InitBootstrap, RankingAssumption, BallotAssumption
<1>2. IsFiniteSet(Full) /\ Full \in SUBSET Int /\ Full \in SUBSET (1 .. Respondents)
  BY <1>1, CountUpTo, FS_Subset DEF Full
<1>3. IsFiniteSet(M)
  BY <1>2, FS_CardinalityType, CountUpTo
<1>4. full = [k \in M |-> input.rows[Nth(Full, k)]]
  BY DEF Kept
<1>5. ballots = [k \in DOMAIN full |-> TiedRanks2(Ballot(full[k], Columns))]
  BY DEF Ballots, Full
<1>6. ballots = [k \in M |-> TiedRanks2(ScoresOf(k))]
  BY <1>4, <1>5 DEF ScoresOf
<1>7. ASSUME NEW k \in M PROVE DOMAIN ScoresOf(k) = Range(List) /\ Scored2(ScoresOf(k))
  <2>1. Nth(Full, k) \in Full
    BY <1>2, NthIs
  <2>2. input.rows[Nth(Full, k)] \in [DOMAIN Columns -> Scores]
    BY <1>1, <1>2, <2>1
  <2> QED BY <2>2, BallotScored DEF ScoresOf
<1> HIDE DEF ballots, M
<1> QED BY <1>3, <1>6, <1>7 DEF ballots, M

\* What the property calls the score of an entry, a complete respondent, and the
\* points of an entry.
ScoreIn(row, e) ==
    LET c == {j \in DOMAIN Columns : Columns[j] = e /\ row[j] # Blank}
    IN  IF c = {} THEN Blank ELSE row[CHOOSE j \in c : \A n \in c : j <= n]
Answered ==
    {k \in DOMAIN input.rows : \A e \in Range(List) : ScoreIn(input.rows[k], e) # Blank}
AnswersOf(n) == input.rows[Nth(Answered, n)]
LowerIn(n, e) == {f \in Range(List) : ScoreIn(AnswersOf(n), f) < ScoreIn(AnswersOf(n), e)}
AlikeIn(n, e) == {f \in Range(List) \ {e} : ScoreIn(AnswersOf(n), f) = ScoreIn(AnswersOf(n), e)}
PointsOf(j, e) == 2 * Cardinality(LowerIn(input.picks[j], e)) + Cardinality(AlikeIn(input.picks[j], e))
BordaOf(e) == SumFunction([j \in DOMAIN input.picks |-> PointsOf(j, e)])

LEMMA ScoreInIs ==
    ASSUME RankingAssumption, BallotAssumption, NEW row, NEW e \in Range(List)
    PROVE  ScoreIn(row, e) = Ballot(row, Columns)[e]
<1>1. e \in Range(Columns)
  BY DEF RankingAssumption, BallotAssumption
<1> QED BY <1>1 DEF ScoreIn, Ballot, Min

LEMMA CompleteIs ==
    ASSUME RankingAssumption, BallotAssumption
    PROVE  Answered = Full
<1> SUFFICES ASSUME NEW k \in DOMAIN input.rows
             PROVE  (\A e \in Range(List) : ScoreIn(input.rows[k], e) # Blank)
                      <=> Blank \notin Range(Ballot(input.rows[k], Columns))
  BY DEF Answered, Full
<1> DEFINE b == Ballot(input.rows[k], Columns)
<1>1. \A e \in Range(List) : ScoreIn(input.rows[k], e) = b[e]
  BY ScoreInIs
<1>2. DOMAIN b = Range(List)
  BY DEF Ballot, RankingAssumption, BallotAssumption
<1> HIDE DEF b
<1>3. Blank \in Range(b) <=> \E e \in Range(List) : b[e] = Blank
  BY <1>2 DEF Range
<1> QED BY <1>1, <1>3 DEF b

\* The points of an entry on a picked ballot.
LEMMA PointsAre ==
    ASSUME RankingAssumption, BallotAssumption, InitBootstrap, NEW j \in DOMAIN input.picks, NEW e \in Range(List)
    PROVE  LET ballots == Ballots(input.rows, Columns)
           IN  /\ PointsOf(j, e) \in Int /\ ballots[input.picks[j]][e] \in Int
               /\ PointsOf(j, e) + ballots[input.picks[j]][e] = 2 * Len(List)
<1> DEFINE ballots == Ballots(input.rows, Columns)  p == input.picks[j]  s == ScoresOf(p)
<1>1. p \in DOMAIN ballots
  BY DEF InitBootstrap, Range
<1>2. ballots[p] = TiedRanks2(s) /\ DOMAIN s = Range(List) /\ Scored2(s)
  BY <1>1, BallotsAre
<1>3. Len(List) \in Nat /\ Cardinality(Range(List)) = Len(List)
  BY ListedFinite DEF RankingAssumption, BallotAssumption
<1>4. \A f \in Range(List) : ScoreIn(AnswersOf(p), f) = s[f]
  BY ScoreInIs, CompleteIs DEF AnswersOf, ScoresOf
<1>5. LowerIn(p, e) = Below(s, e) /\ AlikeIn(p, e) = Level(s, e) \ {e}
  <2> HIDE DEF s, p
  <2> QED BY <1>2, <1>4 DEF LowerIn, AlikeIn, Below, Level
<1>6. PointsOf(j, e) = PointsIn(s, e)
  BY <1>5 DEF PointsOf, PointsIn
<1> HIDE DEF s, p, ballots
<1>7. /\ PointsIn(s, e) \in Int /\ TiedRanks2(s)[e] \in Int
      /\ PointsIn(s, e) + TiedRanks2(s)[e] = 2 * Len(List)
  BY <1>2, <1>3, PointsAndRank
<1> QED BY <1>2, <1>6, <1>7 DEF ballots, p

\* The Borda count of an entry and the sum of its doubled ranks in the picked
\* ballots add up to the same for every entry.
RankSum(ballots, e) == SumFunction([k \in DOMAIN input.picks |-> ballots[input.picks[k]][e]])

LEMMA BordaAndRanks ==
    ASSUME RankingAssumption, BallotAssumption, InitBootstrap, NEW e \in Range(List), NEW ballots,
           ballots = Ballots(input.rows, Columns)
    PROVE  /\ RankSum(ballots, e) \in Int
           /\ BordaOf(e) = (2 * Len(List)) * Cardinality(DOMAIN input.picks) - RankSum(ballots, e)
<1> DEFINE D == DOMAIN input.picks  c == 2 * Len(List)
           points == [j \in D |-> PointsOf(j, e)]
           rank == [j \in D |-> ballots[input.picks[j]][e]]
           both == [j \in D |-> c]
<1>1. IsFiniteSet(D)
  <2>1. input.picks \in Seq(Nat)
    BY DEF InitBootstrap, RankingAssumption, BallotAssumption
  <2>2. D = 1 .. Len(input.picks) /\ Len(input.picks) \in Nat
    BY <2>1
  <2> QED BY <2>2, CountUpTo
<1>2. c \in Int
  BY ListedFinite DEF RankingAssumption, BallotAssumption
<1>3. ASSUME NEW j \in D PROVE both[j] = points[j] + rank[j] /\ points[j] \in Int /\ rank[j] \in Int
  BY PointsAre
<1>4. /\ DOMAIN points = D /\ DOMAIN rank = D /\ \A j \in D : both[j] = c
      /\ BordaOf(e) = SumFunction(points) /\ RankSum(ballots, e) = SumFunction(rank)
  BY DEF BordaOf, RankSum
<1> HIDE DEF D, c, points, rank, both
<1>5. Summable(D, points) /\ Summable(D, rank)
  BY <1>1, <1>3 DEF Summable
<1>6. Total(D, both) = Total(D, points) + Total(D, rank)
  BY <1>3, <1>5, TotalPlus
<1>7. Total(D, both) = c * Cardinality(D)
  BY <1>1, <1>2, <1>4, TotalConstant
<1>8. Total(D, points) \in Int /\ Total(D, rank) \in Int
  BY <1>5, TotalType
<1>9. SumFunction(points) = Total(D, points) /\ SumFunction(rank) = Total(D, rank)
  BY <1>4 DEF SumFunction, Total
<1>10. Total(D, points) = c * Cardinality(D) - Total(D, rank)
  <2>1. c * Cardinality(D) \in Int
    BY <1>1, <1>2, FS_CardinalityType, SMTT(30)
  <2> QED BY <1>6, <1>7, <1>8, <2>1
<1> QED BY <1>4, <1>8, <1>9, <1>10 DEF c, D

LEMMA BootstrapRule ==
    ASSUME RankingAssumption, BallotAssumption, InitBootstrap, done, result = Bootstrap
    PROVE  ReplicateIsBordaCount
<1> DEFINE ballots == Ballots(input.rows, Columns)  M == 1 .. Cardinality(Full)
           value == [e \in Range(input.listing) |-> -RankSum(ballots, e)]
<1>1. /\ DOMAIN ballots = M /\ IsFiniteSet(M)
      /\ \A k \in M : /\ ballots[k] = TiedRanks2(ScoresOf(k))
                      /\ DOMAIN ScoresOf(k) = Range(List) /\ Scored2(ScoresOf(k))
  BY BallotsAre
<1>2. Len(List) \in Nat /\ Cardinality(Range(List)) = Len(List) /\ IsFiniteSet(Range(List))
  BY ListedFinite DEF RankingAssumption, BallotAssumption
<1>3. /\ Range(input.listing) = Range(List) /\ IsInjective(input.listing)
      /\ input.listing \in Seq(Range(input.listing))
  BY <1>2, ListingIs DEF InitBootstrap
<1>4. result.ranks = Ordinal(input.listing, value) /\ result.ballots = ballots
  BY DEF Bootstrap, Replicate, RankSum
<1>5. ASSUME NEW e \in Range(List), NEW f \in Range(List), BordaOf(e) > BordaOf(f)
      PROVE  result.ranks[e] < result.ranks[f]
  <2> DEFINE c == (2 * Len(List)) * Cardinality(DOMAIN input.picks)
  <2>1. /\ RankSum(ballots, e) \in Int /\ BordaOf(e) = c - RankSum(ballots, e)
        /\ RankSum(ballots, f) \in Int /\ BordaOf(f) = c - RankSum(ballots, f)
    BY BordaAndRanks
  <2>2. c \in Int
    <3>1. input.picks \in Seq(Nat)
      BY DEF InitBootstrap, RankingAssumption, BallotAssumption
    <3>2. DOMAIN input.picks = 1 .. Len(input.picks) /\ Len(input.picks) \in Nat
      BY <3>1
    <3>3. Cardinality(DOMAIN input.picks) \in Nat
      BY <3>2, CountUpTo
    <3> QED BY <1>2, <3>3
  <2> HIDE DEF c
  <2>3. RankSum(ballots, e) < RankSum(ballots, f)
    BY <1>5, <2>1, <2>2
  <2>4. value[e] > value[f]
    <3>1. value[e] = -RankSum(ballots, e) /\ value[f] = -RankSum(ballots, f)
      BY <1>3
    <3> HIDE DEF value
    <3> QED BY <2>1, <2>3, <3>1
  <2>5. Listed(input.listing, value)
    <3>1. \A x \in Range(input.listing) : value[x] \in Int
      <4> SUFFICES ASSUME NEW x \in Range(input.listing) PROVE value[x] \in Int
        OBVIOUS
      <4>1. RankSum(ballots, x) \in Int
        BY <1>3, BordaAndRanks
      <4> QED BY <4>1
    <3> HIDE DEF value
    <3> QED BY <1>3, <3>1 DEF Listed
  <2> HIDE DEF value
  <2>6. /\ PlaceOf(input.listing, e) \in DOMAIN input.listing
        /\ input.listing[PlaceOf(input.listing, e)] = e
        /\ PlaceOf(input.listing, f) \in DOMAIN input.listing
        /\ input.listing[PlaceOf(input.listing, f)] = f
    <3>1. DOMAIN input.listing = 1 .. Len(input.listing)
      BY <1>3
    <3> QED BY <1>3, <2>5, <3>1, PlaceOfListed
  <2>7. RankedAhead(input.listing, value, PlaceOf(input.listing, e), PlaceOf(input.listing, f))
    BY <2>4, <2>6 DEF RankedAhead
  <2> QED BY <1>3, <1>4, <2>5, <2>7, OrdinalOrder
<1>6. ASSUME NEW k \in DOMAIN result.ballots
      PROVE  SumFunction(result.ballots[k]) = Len(List) * (Len(List) + 1)
  <2>1. k \in M /\ result.ballots[k] = TiedRanks2(ScoresOf(k)) /\ Scored2(ScoresOf(k))
        /\ Cardinality(DOMAIN ScoresOf(k)) = Len(List)
    BY <1>1, <1>2, <1>4
  <2> QED BY <1>2, <2>1, TiedSum
<1>7. Len(result.ballots) = Cardinality(Answered)
  <2>1. IsFiniteSet(Full)
    <3>1. DOMAIN input.rows = 1 .. Respondents /\ Respondents \in Nat
      BY DEF InitBootstrap, RankingAssumption, BallotAssumption
    <3>2. IsFiniteSet(1 .. Respondents)
      BY <3>1, CountUpTo
    <3> QED BY <3>1, <3>2, FS_Subset DEF Full
  <2>2. Cardinality(Full) \in Nat
    BY <2>1, FS_CardinalityType
  <2>3. DOMAIN ballots = 1 .. Cardinality(Full)
    BY <1>1
  <2> HIDE DEF ballots
  <2>4. Len(ballots) = Cardinality(Full)
    BY <2>2, <2>3
  <2> QED BY <1>4, <2>4, CompleteIs
<1> QED BY <1>5, <1>6, <1>7, ZenonT(30)
      DEF ReplicateIsBordaCount, BordaOf, PointsOf, LowerIn, AlikeIn, AnswersOf, Answered, ScoreIn

\* For any number of entries, columns and respondents, any scores, ties and blanks
\* included, any resampling and any listing in which the sort leaves ties.
THEOREM ReplicateCountsPoints == Spec => []ReplicateIsBordaCount
<1>1. RuleInv => ReplicateIsBordaCount
  <2> SUFFICES ASSUME RuleInv, rule = "bootstrap", done PROVE ReplicateIsBordaCount
    BY Zenon DEF ReplicateIsBordaCount
  <2>1. InitBootstrap
    BY PickedFor DEF RuleInv
  <2> QED BY <2>1, BootstrapRule, RankingAssumption, BallotAssumption, ZenonT(30) DEF RuleInv, Applied
<1> QED BY <1>1, RuleIsApplied, PTL

-----------------------------------------------------------------------------
(* The procedure that bounds the share of false discoveries *)

\* The tests that are ordered up to the kth, and how many these are.
UpToTest(stat, m, k) ==
    {j \in 1 .. m : stat[j] > stat[k] \/ (stat[j] = stat[k] /\ j <= k)}
TestRank(stat, m, k) == Cardinality(UpToTest(stat, m, k))
AtLeast(stat, m, v) == {j \in 1 .. m : stat[j] >= v}

\* The ranks of the tests are an order, and each is taken.
LEMMA TestRanks ==
    ASSUME NEW m \in Nat, NEW stat \in [1 .. m -> Int]
    PROVE  /\ \A j, k \in 1 .. m : /\ TestRank(stat, m, k) \in 1 .. m
                                   /\ stat[j] < stat[k] => TestRank(stat, m, k) < TestRank(stat, m, j)
           /\ \A q \in 1 .. m : \E k \in 1 .. m : TestRank(stat, m, k) = q
<1> DEFINE M == 1 .. m  list == [k \in M |-> k]
<1>1. /\ list \in Seq(Range(list)) /\ Range(list) = M /\ DOMAIN list = M /\ Len(list) = m
      /\ IsInjective(list)
  <2>1. Range(list) = M
    BY DEF Range
  <2>2. list \in [M -> Range(list)]
    BY <2>1
  <2>3. list \in Seq(Range(list))
    BY <2>2, SeqDef
  <2> QED BY <2>1, <2>3, LenProperties DEF IsInjective
<1>2. \A k \in M : list[k] = k
  OBVIOUS
<1> HIDE DEF list
<1>3. Listed(list, stat)
  BY <1>1 DEF Listed
<1>4. \A k \in M : PlaceOf(list, k) = k
  BY <1>1, <1>2, <1>3, PlaceOfListed
<1>5. \A k \in M : Ordinal(list, stat)[k] = TestRank(stat, m, k)
  <2> SUFFICES ASSUME NEW k \in M PROVE Ordinal(list, stat)[k] = TestRank(stat, m, k)
    OBVIOUS
  <2> DEFINE B == Before(list, stat, k)
  <2>1. B = {j \in M : stat[j] > stat[k] \/ (stat[j] = stat[k] /\ j < k)}
    BY <1>1, <1>2 DEF Before, RankedAhead
  <2>2. UpToTest(stat, m, k) = B \cup {k} /\ k \notin B
    <3>1. \A j \in M : j <= k <=> j < k \/ j = k
      OBVIOUS
    <3>2. stat[k] \in Int /\ k \in Int /\ \A j \in M : stat[j] \in Int
      OBVIOUS
    <3> QED BY <2>1, <3>1, <3>2 DEF UpToTest
  <2>3. IsFiniteSet(B) /\ Cardinality(B) \in Nat
    BY <1>1, <1>3, BeforeCount
  <2> HIDE DEF B
  <2>4. Cardinality(B \cup {k}) = Cardinality(B) + 1
    BY <2>2, <2>3, FS_AddElement
  <2>5. Ordinal(list, stat)[k] = 1 + Cardinality(B)
    BY <1>1, <1>4, OrdinalIs DEF B
  <2> QED BY <2>2, <2>3, <2>4, <2>5 DEF TestRank
<1>6. ASSUME NEW j \in M, NEW k \in M
      PROVE  /\ TestRank(stat, m, k) \in M
             /\ stat[j] < stat[k] => TestRank(stat, m, k) < TestRank(stat, m, j)
  <2>1. Ordinal(list, stat)[k] \in 1 .. Len(list)
    BY <1>1, <1>3, OrdinalTells
  <2>2. ASSUME stat[j] < stat[k] PROVE Ordinal(list, stat)[k] < Ordinal(list, stat)[j]
    <3>1. RankedAhead(list, stat, k, j)
      BY <1>2, <2>2 DEF RankedAhead
    <3> QED BY <1>1, <1>3, <1>4, <3>1, OrdinalOrder
  <2> QED BY <1>1, <1>5, <2>1, <2>2
<1>7. \A q \in M : \E k \in M : TestRank(stat, m, k) = q
  <2> SUFFICES ASSUME NEW q \in M PROVE \E k \in M : TestRank(stat, m, k) = q
    OBVIOUS
  <2>0. q \in DOMAIN list
    BY <1>1
  <2>1. PICK e \in Range(list) : Ordinal(list, stat)[e] = q
    BY <1>3, <2>0, OrdinalOnto
  <2> QED BY <1>1, <1>5, <2>1
<1> QED BY <1>6, <1>7

\* The last rank within its bound, as the procedure finds it.
LEMMA RejectedIs ==
    ASSUME NEW m \in Nat, NEW stat \in [1 .. m -> Int]
    PROVE  LET within == {k \in 1 .. m : stat[k] >= CriticalAt[m][TestRank(stat, m, k)]}
               last == IF within = {} THEN 0 ELSE Max({TestRank(stat, m, k) : k \in within})
           IN  Rejected(stat) = {k \in 1 .. m : TestRank(stat, m, k) <= last}
<1>1. Len(stat) = m
  <2>1. stat \in Seq(Int)
    BY SeqDef
  <2> QED BY <2>1, LenProperties
<1> QED BY <1>1 DEF Rejected, TestRank, UpToTest

Falls(m, bounds) ==
    /\ bounds \in [1 .. m -> Nat \ {0}]
    /\ \A q, r \in 1 .. m : q <= r => bounds[q] >= bounds[r]

\* The step-up procedure rejects a test when for some rank as many tests as the
\* rank are within its bound, and the test is one of them.
LEMMA StepUp ==
    ASSUME NEW m \in Nat, NEW stat \in [1 .. m -> Int], Falls(m, CriticalAt[m]), NEW k \in 1 .. m
    PROVE  k \in Rejected(stat) <=>
             \E r \in 1 .. m : /\ stat[k] >= CriticalAt[m][r]
                               /\ Cardinality(AtLeast(stat, m, CriticalAt[m][r])) >= r
<1> DEFINE M == 1 .. m  C == CriticalAt[m]  rank(j) == TestRank(stat, m, j)
           within == {j \in M : stat[j] >= C[rank(j)]}
           ranks == {rank(j) : j \in within}
           last == IF within = {} THEN 0 ELSE Max(ranks)
           many(r) == AtLeast(stat, m, C[r])
<1>1. /\ \A j, i \in M : /\ rank(j) \in M
                         /\ stat[i] < stat[j] => rank(j) < rank(i)
      /\ \A q \in M : \E j \in M : rank(j) = q
  BY TestRanks
<1>2. k \in Rejected(stat) <=> rank(k) <= last
  <2>1. Rejected(stat) = {j \in M : rank(j) <= last}
    BY RejectedIs
  <2> QED BY <2>1
<1>3. \A r \in M : C[r] \in Nat /\ \A q \in M : q <= r => C[q] >= C[r]
  BY DEF Falls
<1>4. \A j \in M : stat[j] \in Int
  OBVIOUS
<1>5. IsFiniteSet(M) /\ Cardinality(M) = m
  BY CountUpTo
<1>6. \A r : IsFiniteSet(many(r)) /\ Cardinality(many(r)) \in Nat /\ Cardinality(many(r)) <= m
  <2> SUFFICES ASSUME NEW r
               PROVE  /\ IsFiniteSet(many(r)) /\ Cardinality(many(r)) \in Nat
                      /\ Cardinality(many(r)) <= m
    OBVIOUS
  <2>1. many(r) \in SUBSET M
    BY DEF AtLeast
  <2> QED BY <1>5, <2>1, CountSubset
<1>7. \A j \in M : IsFiniteSet(UpToTest(stat, m, j))
  BY <1>5, FS_Subset DEF UpToTest
<1>8. within # {} => last \in ranks /\ \A j \in within : rank(j) <= last
  <2>1. ranks \in SUBSET Nat /\ IsFiniteSet(ranks)
    <3>1. IsFiniteSet(within)
      BY <1>5, FS_Subset
    <3>2. ranks \in SUBSET Nat
      <4>1. \A j \in within : rank(j) \in Nat
        BY <1>1
      <4> HIDE DEF rank, within
      <4> QED BY <4>1
    <3>3. IsFiniteSet(ranks)
      <4> DEFINE f == [j \in within |-> rank(j)]
      <4>1. ranks = {f[j] : j \in within}
        OBVIOUS
      <4> HIDE DEF within, f, ranks
      <4> QED BY <3>1, <4>1, Image
    <3> QED BY <3>2, <3>3
  <2>2. within # {} => ranks # {}
    OBVIOUS
  <2>3. within # {} => Max(ranks) \in ranks /\ \A q \in ranks : q <= Max(ranks)
    BY <2>1, <2>2, MaxIs
  <2> QED BY <2>3
<1> HIDE DEF C, rank
<1>9. ASSUME rank(k) <= last
      PROVE  \E r \in M : stat[k] >= C[r] /\ Cardinality(many(r)) >= r
  <2>1. within # {}
    <3>1. rank(k) \in Nat /\ rank(k) >= 1
      BY <1>1
    <3> QED BY <1>9, <3>1
  <2>2. PICK j \in M : j \in within /\ rank(j) = last
    BY <1>8, <2>1
  <2> DEFINE r == rank(j)
  <2>3. r \in M /\ stat[j] >= C[r] /\ rank(k) <= r
    BY <1>1, <1>9, <2>2
  <2>4. stat[k] >= stat[j]
    <3>1. stat[k] < stat[j] => rank(j) < rank(k)
      BY <1>1
    <3>3. rank(k) \in M /\ rank(j) \in M
      BY <1>1
    <3>4. stat[k] \in Int /\ stat[j] \in Int
      BY <1>4
    <3>2. rank(k) \in Int /\ rank(j) \in Int /\ stat[k] \in Int /\ stat[j] \in Int
      BY <3>3, <3>4
    <3> QED BY <2>3, <3>1, <3>2
  <2>5. stat[k] >= C[r]
    BY <1>3, <1>4, <2>3, <2>4
  <2>6. UpToTest(stat, m, j) \subseteq many(r)
    <3> SUFFICES ASSUME NEW i \in UpToTest(stat, m, j) PROVE i \in many(r)
      OBVIOUS
    <3>1. i \in M /\ stat[i] >= stat[j]
      BY <1>4 DEF UpToTest
    <3>2. stat[i] >= C[r]
      BY <1>3, <1>4, <2>3, <3>1
    <3> QED BY <3>1, <3>2 DEF AtLeast
  <2>7. Cardinality(UpToTest(stat, m, j)) <= Cardinality(many(r))
    <3> HIDE DEF many, r
    <3> QED BY <1>6, <2>6, CountSubset
  <2>8. Cardinality(UpToTest(stat, m, j)) = r
    BY DEF rank, TestRank
  <2>9. Cardinality(many(r)) >= r
    <3>1. Cardinality(many(r)) \in Nat /\ r \in Nat
      BY <1>6, <2>3
    <3> HIDE DEF many, r
    <3> QED BY <2>7, <2>8, <3>1
  <2> QED BY <2>3, <2>5, <2>9
<1>10. ASSUME NEW r \in M, stat[k] >= C[r], Cardinality(many(r)) >= r
       PROVE  rank(k) <= last
  <2> DEFINE q == Cardinality(many(r))
  <2>1. q \in M /\ r <= q
    BY <1>6, <1>10
  <2>2. C[r] >= C[q] /\ C[r] \in Nat /\ C[q] \in Nat
    BY <1>3, <2>1
  <2>3. PICK j \in M : rank(j) = q
    BY <1>1, <2>1
  <2>4. ASSUME NEW i \in M, stat[i] >= C[r] PROVE rank(i) <= q
    <3>1. UpToTest(stat, m, i) \subseteq many(r)
      <4> SUFFICES ASSUME NEW h \in UpToTest(stat, m, i) PROVE h \in many(r)
        OBVIOUS
      <4>1. h \in M /\ stat[h] >= stat[i]
        BY <1>4 DEF UpToTest
      <4>2. stat[h] >= C[r]
        BY <1>4, <2>2, <2>4, <4>1
      <4> QED BY <4>1, <4>2 DEF AtLeast
    <3>2. Cardinality(UpToTest(stat, m, i)) <= Cardinality(many(r))
      <4> HIDE DEF many
      <4> QED BY <1>6, <3>1, CountSubset
    <3> QED BY <3>2 DEF rank, TestRank
  <2>5. stat[j] >= C[r]
    <3> SUFFICES ASSUME stat[j] < C[r] PROVE FALSE
      BY <1>4, <2>2
    <3>1. many(r) \subseteq UpToTest(stat, m, j) \ {j}
      <4> SUFFICES ASSUME NEW i \in many(r) PROVE i \in UpToTest(stat, m, j) \ {j}
        OBVIOUS
      <4>1. i \in M /\ stat[i] >= C[r]
        BY DEF AtLeast
      <4>2. stat[i] > stat[j]
        BY <1>4, <2>2, <4>1
      <4>3. i # j
        BY <1>4, <4>2
      <4> QED BY <4>1, <4>2, <4>3 DEF UpToTest
    <3>2. j \in UpToTest(stat, m, j)
      BY <1>4 DEF UpToTest
    <3> DEFINE U == UpToTest(stat, m, j)
    <3>3. IsFiniteSet(U) /\ Cardinality(U) = q
      BY <1>7, <2>3 DEF rank, TestRank
    <3>4. IsFiniteSet(U \ {j}) /\ Cardinality(U \ {j}) = q - 1
      <4> HIDE DEF U, q
      <4> QED BY <3>2, <3>3, FS_RemoveElement DEF U
    <3>5. q <= q - 1
      <4> HIDE DEF U, many
      <4> QED BY <3>1, <3>4, CountSubset DEF U
    <3> QED BY <2>1, <3>5
  <2>6. j \in within
    <3>1. stat[j] >= C[q]
      <4> HIDE DEF q
      <4> QED BY <1>4, <2>2, <2>5
    <3> QED BY <2>3, <3>1
  <2>7. q <= last
    BY <1>8, <2>3, <2>6
  <2>8. rank(k) <= q
    BY <1>10, <2>4
  <2>9. rank(k) \in Nat /\ q \in Nat /\ last \in Nat
    <3>1. rank(k) \in M /\ q \in M
      BY <1>1, <2>1
    <3>3. rank(k) \in Nat /\ q \in Nat
      <4> HIDE DEF q
      <4> QED BY <3>1
    <3>2. last \in ranks
      BY <1>8, <2>6
    <3>4. last \in Nat
      <4>1. ranks \in SUBSET Nat
        BY <1>1
      <4> HIDE DEF last, ranks
      <4> QED BY <3>2, <4>1
    <3> QED BY <3>3, <3>4
  <2> HIDE DEF q, last
  <2> QED BY <2>7, <2>8, <2>9
<1> QED BY <1>2, <1>9, <1>10 DEF C



-----------------------------------------------------------------------------
(* What a set of predictions scores in the lockbox *)

OfClass(I, k) == {i \in I \cap DOMAIN input.truth : k \in input.truth[i]}
AskedOf(p, k) == OfClass(DOMAIN p \cap input.lockbox, k)
RightIn(p, k) == Cardinality({i \in AskedOf(p, k) : p[i] = k})
WrongIn(p, k) == Cardinality({i \in AskedOf(p, k) : p[i] # k})
InBox(p) == Restrict(p, DOMAIN p \cap input.lockbox)

\* The model counts the same incidents.
LEMMA InBoxIs ==
    ASSUME NEW p, NEW k
    PROVE  /\ Cell(InBox(p), input.truth, k) = AskedOf(p, k)
           /\ Hits(InBox(p), input.truth, k) = RightIn(p, k)
<1>1. DOMAIN InBox(p) = DOMAIN p \cap input.lockbox
  BY DEF InBox, Restrict
<1>2. Cell(InBox(p), input.truth, k) = AskedOf(p, k)
  BY <1>1 DEF Cell, AskedOf, OfClass
<1>3. \A i \in AskedOf(p, k) : InBox(p)[i] = p[i]
  BY DEF InBox, Restrict, AskedOf, OfClass
<1>4. {i \in AskedOf(p, k) : InBox(p)[i] = k} = {i \in AskedOf(p, k) : p[i] = k}
  BY <1>3
<1> QED BY <1>2, <1>4 DEF Hits, RightIn

LEMMA AskedCount ==
    ASSUME SelectionAssumption, InitSelect, NEW p, NEW k
    PROVE  /\ RightIn(p, k) \in Nat /\ WrongIn(p, k) \in Nat
           /\ Cardinality(AskedOf(p, k)) = RightIn(p, k) + WrongIn(p, k)
           /\ AskedOf(p, k) = {} <=> RightIn(p, k) + WrongIn(p, k) = 0
           /\ AskedOf(p, k) # {} => RecallParts % (RightIn(p, k) + WrongIn(p, k)) = 0
<1> DEFINE A == AskedOf(p, k)  R == {i \in A : p[i] = k}  S == {i \in A : p[i] # k}
<1>1. /\ IsFiniteSet(input.lockbox)
      /\ \A n \in 1 .. Cardinality(input.lockbox) : RecallParts % n = 0
  BY DEF SelectionAssumption, InitSelect
<1>2. A \subseteq input.lockbox
  BY DEF AskedOf, OfClass
<1> HIDE DEF A
<1>3. IsFiniteSet(A) /\ Cardinality(A) \in Nat /\ Cardinality(A) <= Cardinality(input.lockbox)
      /\ Cardinality(input.lockbox) \in Nat
  BY <1>1, <1>2, CountSubset, FS_CardinalityType
<1>4. R \in SUBSET A /\ S \in SUBSET A /\ R \cup S = A /\ R \cap S = {}
  OBVIOUS
<1> HIDE DEF R, S
<1>5. IsFiniteSet(R) /\ IsFiniteSet(S) /\ Cardinality(R) \in Nat /\ Cardinality(S) \in Nat
  BY <1>3, <1>4, CountSubset
<1>6. Cardinality(A) = Cardinality(R) + Cardinality(S)
  BY <1>4, <1>5, CountUnion
<1>7. A = {} <=> Cardinality(A) = 0
  BY <1>3, FS_EmptySet
<1>8. A # {} => RecallParts % Cardinality(A) = 0
  BY <1>1, <1>3, <1>7
<1>9. RightIn(p, k) = Cardinality(R) /\ WrongIn(p, k) = Cardinality(S)
  BY DEF RightIn, WrongIn, R, S, A
<1> QED BY <1>5, <1>6, <1>7, <1>8, <1>9 DEF A

RecallOf(p, k) ==
    IF AskedOf(p, k) = {} THEN 0
    ELSE RightIn(p, k) * (RecallParts \div Cardinality(AskedOf(p, k)))

LEMMA RecallIs ==
    ASSUME SelectionAssumption, InitSelect, NEW p, NEW k
    PROVE  /\ Recall(InBox(p), input.truth, k) = RecallOf(p, k)
           /\ RecallOf(p, k) \in Nat
<1> DEFINE n == Cardinality(AskedOf(p, k))  a == RightIn(p, k)  x == RecallParts \div n
<1>1. Recall(InBox(p), input.truth, k) = IF n = 0 THEN 0 ELSE (a * RecallParts) \div n
  BY InBoxIs DEF Recall
<1>2. /\ a \in Nat /\ n \in Nat /\ (AskedOf(p, k) = {} <=> n = 0)
      /\ n # 0 => RecallParts % n = 0
  BY AskedCount
<1>3. RecallParts \in Nat \ {0}
  BY DEF SelectionAssumption
<1>4. RecallOf(p, k) = IF AskedOf(p, k) = {} THEN 0 ELSE a * x
  BY DEF RecallOf
<1> HIDE DEF n, a
<1>5. CASE n = 0
  BY <1>1, <1>2, <1>4, <1>5
<1>6. CASE n # 0
  <2>1. x \in Nat /\ RecallParts = n * x
    BY <1>2, <1>3, <1>6, PartsOf
  <2> HIDE DEF x
  <2>2. a * RecallParts = n * (a * x) /\ a * x \in Nat
    BY <1>2, <2>1
  <2>3. (n * (a * x)) \div n = a * x
    <3> DEFINE y == a * x
    <3>1. y \in Nat
      BY <2>2
    <3> HIDE DEF y
    <3>2. (n * y) \div n = y
      BY <1>2, <1>6, <3>1, DivExact
    <3> QED BY <3>2 DEF y
  <2> QED BY <1>1, <1>2, <1>4, <1>6, <2>2, <2>3
<1> QED BY <1>5, <1>6

BetterOf(p, q, k) ==
    \/ RightIn(p, k) * WrongIn(q, k) > RightIn(q, k) * WrongIn(p, k)
    \/ RightIn(p, k) > 0 /\ AskedOf(q, k) = {}

\* A recall is higher when the products across say so.
LEMMA BetterIs ==
    ASSUME SelectionAssumption, InitSelect, NEW p, NEW q, NEW k
    PROVE  RecallOf(p, k) > RecallOf(q, k) <=> BetterOf(p, q, k)
<1> DEFINE a == RightIn(p, k)  c == WrongIn(p, k)  b == RightIn(q, k)  d == WrongIn(q, k)
           x == RecallParts \div Cardinality(AskedOf(p, k))
           y == RecallParts \div Cardinality(AskedOf(q, k))
<1>1. /\ a \in Nat /\ c \in Nat /\ Cardinality(AskedOf(p, k)) = a + c
      /\ AskedOf(p, k) = {} <=> a + c = 0
      /\ AskedOf(p, k) # {} => RecallParts % (a + c) = 0
  BY AskedCount
<1>2. /\ b \in Nat /\ d \in Nat /\ Cardinality(AskedOf(q, k)) = b + d
      /\ AskedOf(q, k) = {} <=> b + d = 0
      /\ AskedOf(q, k) # {} => RecallParts % (b + d) = 0
  BY AskedCount
<1>3. RecallParts \in Nat \ {0}
  BY DEF SelectionAssumption
<1>4. /\ RecallOf(p, k) = IF AskedOf(p, k) = {} THEN 0 ELSE a * x
      /\ RecallOf(q, k) = IF AskedOf(q, k) = {} THEN 0 ELSE b * y
  BY DEF RecallOf
<1>5. BetterOf(p, q, k) <=> a * d > b * c \/ (a > 0 /\ AskedOf(q, k) = {})
  BY DEF BetterOf
<1>11. ASSUME NEW n \in Nat, NEW A, A = {} <=> n = 0, A # {} => RecallParts % n = 0, n # 0
      PROVE  RecallParts \div n \in Nat \ {0} /\ RecallParts = n * (RecallParts \div n)
  <2>1. n \in Nat \ {0} /\ RecallParts % n = 0
    BY <1>11
  <2> QED BY <1>3, <2>1, PartsOf
<1>12. a + c \in Nat /\ b + d \in Nat
  BY <1>1, <1>2
<1>13. x = RecallParts \div (a + c) /\ y = RecallParts \div (b + d)
  BY <1>1, <1>2
<1> HIDE DEF a, b, c, d, x, y
<1>6. a + c # 0 => x \in Nat \ {0} /\ RecallParts = (a + c) * x
  <2> DEFINE n == a + c  A == AskedOf(p, k)
  <2>1. n \in Nat /\ (A = {} <=> n = 0) /\ (A # {} => RecallParts % n = 0)
    BY <1>1, <1>12
  <2> HIDE DEF n, A
  <2>2. n # 0 => RecallParts \div n \in Nat \ {0} /\ RecallParts = n * (RecallParts \div n)
    BY <1>11, <2>1
  <2> QED BY <1>13, <2>2 DEF n
<1>7. b + d # 0 => y \in Nat \ {0} /\ RecallParts = (b + d) * y
  <2> DEFINE n == b + d  A == AskedOf(q, k)
  <2>1. n \in Nat /\ (A = {} <=> n = 0) /\ (A # {} => RecallParts % n = 0)
    BY <1>2, <1>12
  <2> HIDE DEF n, A
  <2>2. n # 0 => RecallParts \div n \in Nat \ {0} /\ RecallParts = n * (RecallParts \div n)
    BY <1>11, <2>1
  <2> QED BY <1>13, <2>2 DEF n
<1>8. CASE a + c = 0
  <2>1. a = 0 /\ c = 0
    BY <1>1, <1>8
  <2>2. a * d = 0 /\ b * c = 0
    BY <1>1, <1>2, <2>1
  <2>3. ~(0 > RecallOf(q, k))
    <3>1. RecallOf(q, k) \in Nat
      BY RecallIs
    <3> QED BY <3>1
  <2>4. RecallOf(p, k) = 0
    BY <1>1, <1>4, <1>8
  <2> QED BY <1>5, <2>1, <2>2, <2>3, <2>4
<1>9. CASE a + c # 0 /\ b + d = 0
  <2>1. b = 0 /\ d = 0
    BY <1>2, <1>9
  <2>2. a * d = 0 /\ b * c = 0
    BY <1>1, <1>2, <2>1
  <2>3. RecallOf(q, k) = 0 /\ RecallOf(p, k) = a * x
    BY <1>1, <1>2, <1>4, <1>9
  <2>4. a * x > 0 <=> a > 0
    BY <1>1, <1>6, <1>9
  <2> QED BY <1>2, <1>5, <1>9, <2>2, <2>3, <2>4
<1>10. CASE a + c # 0 /\ b + d # 0
  <2>1. a * x > b * y <=> a * d > b * c
    BY <1>1, <1>2, <1>6, <1>7, <1>10, Shares
  <2> QED BY <1>1, <1>2, <1>4, <1>5, <1>10, <2>1
<1> QED BY <1>8, <1>9, <1>10

\* The statistic of the test of a class, from the table of right and wrong.
ChiOf(p, q, k) ==
    LET n == RightIn(p, k) + WrongIn(p, k)  m == RightIn(q, k) + WrongIn(q, k)
        h == RightIn(p, k) + RightIn(q, k)  w == WrongIn(p, k) + WrongIn(q, k)
        d == RightIn(p, k) * WrongIn(q, k) - RightIn(q, k) * WrongIn(p, k)
    IN  IF n * m * h * w = 0 THEN 0 ELSE (1000 * d * d * (n + m)) \div (n * m * h * w)

\* What the statistic of the table a, c, b, e is.
ChiTells(a, c, b, e) ==
    LET n == a + c  m == b + e  h == a + b  w == c + e  d == a * e - b * c
    IN  /\ ChiSquare(a, n, b, m)
             = IF n * m * h * w = 0 THEN 0 ELSE (1000 * d * d * (n + m)) \div (n * m * h * w)
        /\ ChiSquare(a, n, b, m) \in Int
        /\ ChiSquare(a, n, b, m) # 0 => a * e > b * c \/ b * c > a * e

LEMMA ChiFromTable ==
    ASSUME NEW a \in Nat, NEW c \in Nat, NEW b \in Nat, NEW e \in Nat
    PROVE  ChiTells(a, c, b, e)
<1> DEFINE n == a + c  m == b + e  h == a + b  w == c + e  d == a * e - b * c
           D == a * m - b * n  N == n + m  X == n * m * h * (N - h)  Y == n * m * h * w
<1>1. N - h = w
  OBVIOUS
<1>2. D = d
  OBVIOUS
<1>3. ChiSquare(a, n, b, m) =
        IF n = 0 \/ m = 0 \/ h = 0 \/ h = N THEN 0 ELSE (1000 * D * D * N) \div X
  BY DEF ChiSquare
<1>4. n \in Nat /\ m \in Nat /\ h \in Nat /\ w \in Nat /\ d \in Int /\ N \in Nat
  OBVIOUS
<1>5. X = Y
  BY <1>1
<1>6. h = N <=> w = 0
  BY <1>1, <1>4
<1>7. d # 0 => a * e > b * c \/ b * c > a * e
  OBVIOUS
<1> HIDE DEF n, m, h, w, d, D, N, X
<1>8. Y = 0 <=> n = 0 \/ m = 0 \/ h = 0 \/ w = 0
  BY <1>4
<1>9. Y \in Nat
  BY <1>4
<1> HIDE DEF Y
<1>10. ChiSquare(a, n, b, m) = IF Y = 0 THEN 0 ELSE (1000 * d * d * N) \div Y
  BY <1>2, <1>3, <1>5, <1>6, <1>8
<1>11. (1000 * d * d * N) \in Nat
  BY <1>4
<1>12. ChiSquare(a, n, b, m) \in Int
  <2> DEFINE Z == 1000 * d * d * N
  <2>1. Y # 0 => Z \div Y \in Nat
    <3>1. Z \in Nat
      BY <1>11
    <3> HIDE DEF Z
    <3> QED BY <1>9, <3>1, DivMod
  <2> QED BY <1>10, <2>1
<1>13. ChiSquare(a, n, b, m) # 0 => d # 0
  <2> SUFFICES ASSUME d = 0, Y # 0 PROVE (1000 * d * d * N) \div Y = 0
    BY <1>10
  <2>1. 1000 * d * d * N = Y * 0
    BY <1>4, <1>9
  <2>2. (Y * 0) \div Y = 0
    BY <1>9, DivExact
  <2> QED BY <2>1, <2>2
<1> QED BY <1>7, <1>10, <1>12, <1>13 DEF n, m, h, w, d, N, Y, ChiTells

LEMMA ChiIs ==
    ASSUME SelectionAssumption, InitSelect, NEW p, NEW q, NEW k
    PROVE  /\ ChiSquare(Hits(InBox(p), input.truth, k), Cardinality(Cell(InBox(p), input.truth, k)),
                        Hits(InBox(q), input.truth, k), Cardinality(Cell(InBox(q), input.truth, k)))
                = ChiOf(p, q, k)
           /\ ChiOf(p, q, k) \in Int
           /\ ChiOf(p, q, k) # 0 => BetterOf(p, q, k) \/ BetterOf(q, p, k)
<1> DEFINE a == RightIn(p, k)  c == WrongIn(p, k)  b == RightIn(q, k)  e == WrongIn(q, k)
           chi == ChiSquare(a, a + c, b, b + e)
<1>1. /\ a \in Nat /\ c \in Nat /\ Cardinality(AskedOf(p, k)) = a + c
      /\ b \in Nat /\ e \in Nat /\ Cardinality(AskedOf(q, k)) = b + e
  BY AskedCount
<1>2. /\ Cell(InBox(p), input.truth, k) = AskedOf(p, k) /\ Hits(InBox(p), input.truth, k) = a
      /\ Cell(InBox(q), input.truth, k) = AskedOf(q, k) /\ Hits(InBox(q), input.truth, k) = b
  BY InBoxIs
<1>3. ChiOf(p, q, k) =
        IF (a + c) * (b + e) * (a + b) * (c + e) = 0 THEN 0
        ELSE (1000 * (a * e - b * c) * (a * e - b * c) * ((a + c) + (b + e)))
               \div ((a + c) * (b + e) * (a + b) * (c + e))
  BY DEF ChiOf
<1>4. /\ a * e > b * c => BetterOf(p, q, k)
      /\ b * c > a * e => BetterOf(q, p, k)
  BY DEF BetterOf
<1> HIDE DEF a, b, c, e
<1>5. /\ chi = IF (a + c) * (b + e) * (a + b) * (c + e) = 0 THEN 0
               ELSE (1000 * (a * e - b * c) * (a * e - b * c) * ((a + c) + (b + e)))
                      \div ((a + c) * (b + e) * (a + b) * (c + e))
      /\ chi \in Int
      /\ chi # 0 => a * e > b * c \/ b * c > a * e
  <2>1. ChiTells(a, c, b, e)
    BY <1>1, ChiFromTable
  <2> QED BY <2>1 DEF ChiTells
<1> HIDE DEF chi
<1>6. chi = ChiOf(p, q, k)
  BY <1>3, <1>5
<1> QED BY <1>1, <1>2, <1>4, <1>5, <1>6 DEF chi

-----------------------------------------------------------------------------
(* The classes that are tested *)

AllClasses == UNION Range(input.truth)
ScoredClasses ==
    {k \in AllClasses : /\ Cardinality(OfClass(DOMAIN input.truth, k)) >= MinCell
                        /\ OfClass(input.lockbox, k) # {}}

\* The model finds the same classes, and these are few.
LEMMA TestedAre ==
    ASSUME SelectionAssumption, InitSelect
    PROVE  /\ Selection(input.truth, input.lockbox, MinCell) = ScoredClasses
           /\ IsFiniteSet(ScoredClasses) /\ Cardinality(ScoredClasses) \in Nat
           /\ Cardinality(ScoredClasses) <= Cardinality(Classes(input.truth))
           /\ Cardinality(Classes(input.truth)) \in Nat
<1>1. /\ IsFiniteSet(input.lockbox) /\ IsFiniteSet(Classes(input.truth))
      /\ IsFiniteSet(DOMAIN input.truth)
  BY DEF SelectionAssumption, InitSelect
<1>2. Classes(input.truth) = AllClasses
  BY DEF Classes, AllClasses
<1>3. ASSUME NEW k
      PROVE  /\ CellSize(input.truth, DOMAIN input.truth, k)
                  = Cardinality(OfClass(DOMAIN input.truth, k))
             /\ CellSize(input.truth, input.lockbox, k) > 0 <=> OfClass(input.lockbox, k) # {}
  <2>1. CellSize(input.truth, input.lockbox, k) = Cardinality(OfClass(input.lockbox, k))
    BY DEF CellSize, OfClass
  <2>2. OfClass(input.lockbox, k) \subseteq input.lockbox
    BY DEF OfClass
  <2>3. IsFiniteSet(OfClass(input.lockbox, k)) /\ Cardinality(OfClass(input.lockbox, k)) \in Nat
    BY <1>1, <2>2, CountSubset
  <2>4. Cardinality(OfClass(input.lockbox, k)) > 0 <=> OfClass(input.lockbox, k) # {}
    <3> DEFINE S == OfClass(input.lockbox, k)
    <3>1. IsFiniteSet(S) /\ Cardinality(S) \in Nat
      BY <2>3
    <3> HIDE DEF S
    <3>2. Cardinality(S) = 0 <=> S = {}
      BY <3>1, FS_EmptySet
    <3>3. Cardinality(S) > 0 <=> S # {}
      BY <3>1, <3>2
    <3> QED BY <3>3 DEF S
  <2> QED BY <2>1, <2>4 DEF CellSize, OfClass
<1>4. Selection(input.truth, input.lockbox, MinCell) = ScoredClasses
  BY <1>2, <1>3 DEF Selection, ScoredClasses
<1>5. ScoredClasses \subseteq Classes(input.truth)
  BY <1>2 DEF ScoredClasses
<1>6. /\ IsFiniteSet(ScoredClasses) /\ Cardinality(ScoredClasses) \in Nat
      /\ Cardinality(ScoredClasses) <= Cardinality(Classes(input.truth))
  BY <1>1, <1>5, CountSubset
<1> QED BY <1>1, <1>4, <1>6, FS_CardinalityType

\* A finite set in some order: each element has one place.
LEMMA InSomeOrder ==
    ASSUME NEW S, IsFiniteSet(S)
    PROVE  LET s == SetToSeq(S)
           IN  /\ Cardinality(S) \in Nat /\ DOMAIN s = 1 .. Cardinality(S)
               /\ Len(s) = Cardinality(S) /\ Range(s) = S
               /\ \A x, y \in DOMAIN s : s[x] = s[y] => x = y
<1> DEFINE n == Cardinality(S)  s == SetToSeq(S)
<1>1. n \in Nat /\ ExistsBijection(1 .. n, S)
  BY FS_CardinalityType
<1>2. \E f \in [1 .. n -> S] : IsInjective(f)
  BY <1>1 DEF ExistsBijection, Bijection, Injection
<1>3. s \in [1 .. n -> S] /\ IsInjective(s)
  BY <1>2 DEF SetToSeq
<1> HIDE DEF s
<1>4. s \in Injection(1 .. n, S)
  BY <1>3 DEF Injection
<1>5. IsFiniteSet(1 .. n) /\ Cardinality(1 .. n) = n
  BY <1>1, CountUpTo
<1>6. s \in Surjection(1 .. n, S)
  BY <1>4, <1>5, FS_Injection
<1>7. Range(s) = S
  BY <1>3, <1>6 DEF Range, Surjection
<1>8. Len(s) = n /\ DOMAIN s = 1 .. n
  <2>1. s \in Seq(S)
    BY <1>1, <1>3, InSeq
  <2> QED BY <1>1, <1>3, <2>1, LenProperties
<1> QED BY <1>1, <1>3, <1>7, <1>8 DEF IsInjective, s

-----------------------------------------------------------------------------
(* The tests in one row *)

\* The config and the class of the kth test, by their places.
ByConfig(k, w) == 1 + ((k - 1) \div w)
ByClass(k, w) == 1 + ((k - 1) % w)

\* Each pair of places is that of one number.
LEMMA TestPlaces ==
    ASSUME NEW n \in Nat, NEW w \in Nat
    PROVE  /\ \A k \in 1 .. n * w : ByConfig(k, w) \in 1 .. n /\ ByClass(k, w) \in 1 .. w
           /\ \A j, k \in 1 .. n * w :
                ByConfig(j, w) = ByConfig(k, w) /\ ByClass(j, w) = ByClass(k, w) => j = k
           /\ \A x \in 1 .. n, y \in 1 .. w :
                \E k \in 1 .. n * w : ByConfig(k, w) = x /\ ByClass(k, w) = y
<1>0. n * w \in Nat
  OBVIOUS
<1> DEFINE N == n * w  M == 1 .. N
<1>1. ASSUME NEW k \in M
      PROVE  /\ ByConfig(k, w) \in 1 .. n /\ ByClass(k, w) \in 1 .. w
             /\ k = 1 + w * (ByConfig(k, w) - 1) + (ByClass(k, w) - 1)
  <2> DEFINE a == k - 1  u == a \div w  v == a % w
  <2>1. a \in Nat /\ a < n * w
    BY <1>0
  <2> HIDE DEF a
  <2>2. u \in Nat /\ u < n /\ v \in 0 .. w - 1 /\ a = w * u + v
    BY <2>1, NumberedTest
  <2>3. ByConfig(k, w) = 1 + u /\ ByClass(k, w) = 1 + v
    BY DEF ByConfig, ByClass, a
  <2> HIDE DEF u, v
  <2>4. 1 + u \in 1 .. n /\ 1 + v \in 1 .. w
    BY <2>2
  <2>5. k = 1 + a
    BY <1>0 DEF a
  <2>6. (1 + u) - 1 = u /\ (1 + v) - 1 = v
    BY <2>2
  <2>7. w * u \in Int /\ v \in Int
    BY <2>2
  <2>8. k = 1 + w * u + v
    BY <2>2, <2>5, <2>7
  <2> QED BY <2>3, <2>4, <2>6, <2>8
<1>2. ASSUME NEW x \in 1 .. n, NEW y \in 1 .. w
      PROVE  \E k \in M : ByConfig(k, w) = x /\ ByClass(k, w) = y
  <2> DEFINE u == x - 1  v == y - 1  a == w * u + v
  <2>1. u \in Nat /\ u < n /\ v \in 0 .. w - 1 /\ x = 1 + u /\ y = 1 + v
    OBVIOUS
  <2> HIDE DEF u, v
  <2>2. a \in Nat /\ a < n * w /\ a \div w = u /\ a % w = v
    BY <2>1, TestNumber
  <2> HIDE DEF a
  <2>3. a + 1 \in M /\ (a + 1) - 1 = a
    BY <1>0, <2>2
  <2>4. ByConfig(a + 1, w) = x /\ ByClass(a + 1, w) = y
    BY <2>1, <2>2, <2>3 DEF ByConfig, ByClass
  <2> QED BY <2>3, <2>4
<1>3. ASSUME NEW j \in M, NEW k \in M,
             ByConfig(j, w) = ByConfig(k, w), ByClass(j, w) = ByClass(k, w)
      PROVE  j = k
  <2> HIDE DEF M
  <2> QED BY <1>1, <1>3
<1> QED BY <1>1, <1>2, <1>3

ClassOrder == SetToSeq(ScoredClasses)
ClassCount == Len(ClassOrder)
TestCount == Len(Configs) * ClassCount
ConfigAt(k) == Configs[ByConfig(k, ClassCount)]
ClassAt(k) == ClassOrder[ByClass(k, ClassCount)]
TestAt(k) == <<ConfigAt(k), ClassAt(k)>>
Tests == Range(Configs) \X ScoredClasses

\* Each test has one place in the row.
LEMMA TestsAre ==
    ASSUME SelectionAssumption, InitSelect
    PROVE  /\ TestCount \in Nat /\ Range(ClassOrder) = ScoredClasses
           /\ DOMAIN Configs = 1 .. Len(Configs) /\ Len(Configs) \in Nat
           /\ \A k \in 1 .. TestCount : ConfigAt(k) \in Range(Configs) /\ ClassAt(k) \in ScoredClasses
           /\ \A j, k \in 1 .. TestCount : TestAt(j) = TestAt(k) => j = k
           /\ \A t \in Tests : \E k \in 1 .. TestCount : TestAt(k) = t
           /\ IsFiniteSet(Tests) /\ Cardinality(Tests) = TestCount
           /\ TestCount # 0 => Falls(TestCount, CriticalAt[TestCount])
<1> DEFINE n == Len(Configs)  w == ClassCount  M == 1 .. TestCount
<1>1. Configs \in Seq(Range(Configs)) /\ IsInjective(Configs)
  BY DEF SelectionAssumption
<1>2. n \in Nat /\ DOMAIN Configs = 1 .. n
  BY <1>1, LenProperties
<1>3. \A x, y \in 1 .. n : Configs[x] = Configs[y] => x = y
  BY <1>1, <1>2 DEF IsInjective
<1>4. \A x \in 1 .. n : Configs[x] \in Range(Configs)
  BY <1>2 DEF Range
<1>5. \A c \in Range(Configs) : \E x \in 1 .. n : Configs[x] = c
  BY <1>2 DEF Range
<1>6. /\ IsFiniteSet(ScoredClasses) /\ Cardinality(ScoredClasses) \in Nat
      /\ Cardinality(ScoredClasses) <= Cardinality(Classes(input.truth))
      /\ Cardinality(Classes(input.truth)) \in Nat
  BY TestedAre
<1>7. /\ w = Cardinality(ScoredClasses) /\ w \in Nat
      /\ Range(ClassOrder) = ScoredClasses /\ DOMAIN ClassOrder = 1 .. w
      /\ \A x, y \in 1 .. w : ClassOrder[x] = ClassOrder[y] => x = y
  BY <1>6, InSomeOrder DEF ClassOrder, ClassCount
<1>8. \A y \in 1 .. w : ClassOrder[y] \in ScoredClasses
  BY <1>7 DEF Range
<1>9. \A c \in ScoredClasses : \E y \in 1 .. w : ClassOrder[y] = c
  BY <1>7 DEF Range
<1>10. TestCount = n * w /\ TestCount \in Nat
  BY <1>2, <1>7 DEF TestCount
<1>11. /\ \A k \in M : ByConfig(k, w) \in 1 .. n /\ ByClass(k, w) \in 1 .. w
       /\ \A j, k \in M :
            ByConfig(j, w) = ByConfig(k, w) /\ ByClass(j, w) = ByClass(k, w) => j = k
       /\ \A x \in 1 .. n, y \in 1 .. w :
            \E k \in M : ByConfig(k, w) = x /\ ByClass(k, w) = y
  <2>1. n \in Nat /\ w \in Nat
    BY <1>2, <1>7
  <2>2. M = 1 .. n * w
    BY <1>10
  <2> HIDE DEF n, w, M
  <2>3. /\ \A k \in 1 .. n * w : ByConfig(k, w) \in 1 .. n /\ ByClass(k, w) \in 1 .. w
        /\ \A j, k \in 1 .. n * w :
             ByConfig(j, w) = ByConfig(k, w) /\ ByClass(j, w) = ByClass(k, w) => j = k
        /\ \A x \in 1 .. n, y \in 1 .. w :
             \E k \in 1 .. n * w : ByConfig(k, w) = x /\ ByClass(k, w) = y
    BY Zenon, <2>1, TestPlaces
  <2> QED BY <2>2, <2>3
<1> HIDE DEF n, M
<1>12. \A k \in M : ConfigAt(k) \in Range(Configs) /\ ClassAt(k) \in ScoredClasses
  BY <1>4, <1>8, <1>11 DEF ConfigAt, ClassAt
<1>13. ASSUME NEW j \in M, NEW k \in M, TestAt(j) = TestAt(k) PROVE j = k
  <2>1. ConfigAt(j) = ConfigAt(k) /\ ClassAt(j) = ClassAt(k)
    BY <1>13 DEF TestAt
  <2>2. ByConfig(j, w) = ByConfig(k, w)
    BY <1>3, <1>11, <2>1 DEF ConfigAt
  <2>3. ByClass(j, w) = ByClass(k, w)
    BY <1>7, <1>11, <2>1 DEF ClassAt
  <2> QED BY <1>11, <2>2, <2>3
<1>14. ASSUME NEW t \in Tests PROVE \E k \in M : TestAt(k) = t
  <2>1. PICK c \in Range(Configs), e \in ScoredClasses : t = <<c, e>>
    BY <1>14 DEF Tests
  <2>2. PICK x \in 1 .. n : Configs[x] = c
    BY <1>5
  <2>3. PICK y \in 1 .. w : ClassOrder[y] = e
    BY <1>9
  <2>4. PICK k \in M : ByConfig(k, w) = x /\ ByClass(k, w) = y
    BY <1>11
  <2> QED BY <2>1, <2>2, <2>3, <2>4 DEF TestAt, ConfigAt, ClassAt
<1>15. IsFiniteSet(Tests)
  <2> DEFINE D == 1 .. n
  <2>1. IsFiniteSet(D) /\ DOMAIN Configs = D
    BY <1>2, CountUpTo
  <2> HIDE DEF D
  <2>2. IsFiniteSet({Configs[x] : x \in D})
    BY <2>1, Image
  <2>3. IsFiniteSet(Range(Configs))
    BY <2>1, <2>2 DEF Range
  <2> QED BY <1>6, <2>3, FS_Product DEF Tests
<1>16. Cardinality(Tests) = TestCount
  <2> DEFINE f == [k \in M |-> TestAt(k)]
  <2>1. \A k \in M : f[k] \in Tests
    BY <1>12 DEF TestAt, Tests
  <2>2. \A j, k \in M : f[j] = f[k] => j = k
    BY <1>13
  <2>3. \A t \in Tests : \E k \in M : f[k] = t
    <3> SUFFICES ASSUME NEW t \in Tests PROVE \E k \in M : f[k] = t
      OBVIOUS
    <3>1. PICK k \in M : TestAt(k) = t
      BY <1>14
    <3> QED BY <3>1
  <2> HIDE DEF f
  <2>4. Cardinality(M) = Cardinality(Tests)
    BY <1>15, <2>1, <2>2, <2>3, SameCount
  <2>5. Cardinality(M) = TestCount
    BY <1>10, CountUpTo DEF M
  <2> QED BY <2>4, <2>5
<1>17. ASSUME TestCount # 0 PROVE Falls(TestCount, CriticalAt[TestCount])
  <2> DEFINE v == Cardinality(Classes(input.truth))
  <2>1. w <= v /\ v \in Nat
    BY <1>6, <1>7
  <2>2. n * w <= n * v /\ n * v \in Nat
    <3> HIDE DEF v, w
    <3> QED BY <1>2, <1>7, <2>1, TimesOrder
  <2>3. TestCount \in 1 .. n * v
    <3> HIDE DEF v, w
    <3> QED BY <1>10, <1>17, <2>2
  <2>4. TestCount \in DOMAIN CriticalAt
    <3>1. 1 .. n * v \subseteq DOMAIN CriticalAt
      BY DEF SelectionAssumption, InitSelect, n
    <3> QED BY <2>3, <3>1
  <2> QED BY <2>4 DEF SelectionAssumption, Falls
<1> QED BY <1>2, <1>7, <1>10, <1>12, <1>13, <1>14, <1>15, <1>16, <1>17 DEF M, n

-----------------------------------------------------------------------------
(* The tests that are rejected *)

ChiOfTest(t) == ChiOf(input.preds[t[1]], input.floor, t[2])
TestStats == [k \in 1 .. TestCount |-> ChiOfTest(TestAt(k))]
WithinBound(b) == {t \in Tests : ChiOfTest(t) >= b}
RejectedTest(t) ==
    \E r \in DOMAIN CriticalAt[Cardinality(Tests)] :
      LET b == CriticalAt[Cardinality(Tests)][r]
      IN  t \in WithinBound(b) /\ Cardinality(WithinBound(b)) >= r

\* What is rejected is rejected whatever the order of the tests.
LEMMA RejectedAre ==
    ASSUME SelectionAssumption, InitSelect
    PROVE  /\ Rejected(TestStats) \subseteq 1 .. TestCount
           /\ \A k \in 1 .. TestCount : k \in Rejected(TestStats) <=> RejectedTest(TestAt(k))
           /\ \A t : RejectedTest(t) => t \in Tests
<1> DEFINE m == TestCount  M == 1 .. m  C == CriticalAt[m]
<1>1. /\ m \in Nat /\ Cardinality(Tests) = m /\ IsFiniteSet(Tests)
      /\ \A k \in M : TestAt(k) \in Tests
      /\ \A j, k \in M : TestAt(j) = TestAt(k) => j = k
      /\ \A t \in Tests : \E k \in M : TestAt(k) = t
      /\ m # 0 => Falls(m, C)
  BY TestsAre DEF Tests, TestAt
<1>2. \A t : ChiOfTest(t) \in Int
  BY ChiIs DEF ChiOfTest
<1>3. TestStats \in [M -> Int] /\ \A k \in M : TestStats[k] = ChiOfTest(TestAt(k))
  BY <1>2 DEF TestStats
<1>4. Rejected(TestStats) \subseteq M
  <2> DEFINE s == TestStats  n == m
  <2>1. s \in [1 .. n -> Int] /\ n \in Nat
    BY <1>1, <1>3
  <2> HIDE DEF s, n
  <2> DEFINE within == {k \in 1 .. n : s[k] >= CriticalAt[n][TestRank(s, n, k)]}
             last == IF within = {} THEN 0 ELSE Max({TestRank(s, n, k) : k \in within})
  <2>2. Rejected(s) = {k \in 1 .. n : TestRank(s, n, k) <= last}
    BY <2>1, RejectedIs
  <2> HIDE DEF last
  <2>3. Rejected(s) \subseteq 1 .. n
    BY <2>2
  <2> QED BY <2>3 DEF s, n
<1>5. \A t : RejectedTest(t) => t \in Tests
  BY DEF RejectedTest, WithinBound
<1>6. ASSUME NEW b PROVE Cardinality(WithinBound(b)) = Cardinality(AtLeast(TestStats, m, b))
  <2> DEFINE A == AtLeast(TestStats, m, b)  B == WithinBound(b)  f == [k \in M |-> TestAt(k)]
  <2>1. IsFiniteSet(B)
    BY <1>1, FS_Subset DEF WithinBound
  <2>2. \A k : k \in A <=> k \in M /\ ChiOfTest(TestAt(k)) >= b
    BY <1>3 DEF AtLeast
  <2>3. \A t : t \in B <=> t \in Tests /\ ChiOfTest(t) >= b
    BY DEF WithinBound
  <2>4. \A k \in M : f[k] = TestAt(k)
    OBVIOUS
  <2> HIDE DEF A, B, f, M
  <2>5. \A k \in A : f[k] \in B
    BY <1>1, <2>2, <2>3, <2>4
  <2>6. \A j, k \in A : f[j] = f[k] => j = k
    BY <1>1, <2>2, <2>4
  <2>7. \A t \in B : \E k \in A : f[k] = t
    <3> SUFFICES ASSUME NEW t \in B PROVE \E k \in A : f[k] = t
      OBVIOUS
    <3>1. PICK k \in M : TestAt(k) = t
      BY <1>1, <2>3
    <3> QED BY <2>2, <2>3, <2>4, <3>1
  <2>8. Cardinality(A) = Cardinality(B)
    BY <2>1, <2>5, <2>6, <2>7, SameCount
  <2> QED BY <2>8 DEF A, B
<1>7. ASSUME NEW k \in M PROVE k \in Rejected(TestStats) <=> RejectedTest(TestAt(k))
  <2>1. m # 0 /\ Falls(m, C)
    BY <1>1
  <2>2. DOMAIN C = M
    BY <2>1 DEF Falls
  <2>3. k \in Rejected(TestStats) <=>
          \E r \in M : TestStats[k] >= C[r] /\ Cardinality(AtLeast(TestStats, m, C[r])) >= r
    BY <1>1, <1>3, <2>1, StepUp
  <2>4. \A r \in M : TestAt(k) \in WithinBound(C[r]) <=> TestStats[k] >= C[r]
    BY <1>1, <1>3 DEF WithinBound
  <2>5. RejectedTest(TestAt(k)) <=>
          \E r \in M : TestAt(k) \in WithinBound(C[r]) /\ Cardinality(WithinBound(C[r])) >= r
    BY <1>1, <2>2 DEF RejectedTest
  <2> QED BY <1>6, <2>3, <2>4, <2>5
<1> QED BY <1>4, <1>5, <1>7

-----------------------------------------------------------------------------
(* The configs that are eligible, and the winner *)

ScoreOf(p) == SumFunction([k \in ScoredClasses |-> RecallOf(p, k)])

LEMMA ScoreIs ==
    ASSUME SelectionAssumption, InitSelect, NEW p
    PROVE  /\ Accuracy(InBox(p), input.truth, Range(ClassOrder)) = ScoreOf(p)
           /\ ScoreOf(p) \in Nat
<1> DEFINE S == ScoredClasses  g == [k \in S |-> RecallOf(p, k)]  zero == [k \in S |-> 0]
<1>1. Range(ClassOrder) = S /\ IsFiniteSet(S)
  BY TestsAre, TestedAre
<1>2. Accuracy(InBox(p), input.truth, Range(ClassOrder)) = SumFunction(g)
  <2>1. \A k : Recall(InBox(p), input.truth, k) = RecallOf(p, k)
    BY RecallIs
  <2>2. [k \in Range(ClassOrder) |-> Recall(InBox(p), input.truth, k)] = g
    BY <1>1, <2>1
  <2> QED BY <2>2 DEF Accuracy
<1>3. \A k \in S : g[k] \in Nat
  BY RecallIs
<1>4. DOMAIN g = S /\ \A k \in S : zero[k] = 0
  OBVIOUS
<1>5. SumFunction(g) = Total(S, g)
  BY <1>4 DEF SumFunction, Total
<1> HIDE DEF g, zero
<1>6. Summable(S, g) /\ Total(S, g) \in Int
  BY <1>1, <1>3, TotalType DEF Summable
<1>7. Summable(S, zero) /\ Total(S, zero) = 0
  <2>1. Summable(S, zero) /\ Total(S, zero) = 0 * Cardinality(S)
    BY <1>1, <1>4, TotalConstant
  <2>2. Cardinality(S) \in Nat
    BY TestedAre
  <2> QED BY <2>1, <2>2
<1>8. Total(S, zero) <= Total(S, g)
  <2>1. \A k \in S : zero[k] <= g[k]
    BY <1>3, <1>4
  <2> QED BY <1>6, <1>7, <2>1, TotalOrder
<1>9. Total(S, g) \in Nat
  BY <1>6, <1>7, <1>8
<1> QED BY <1>2, <1>5, <1>9 DEF ScoreOf, g

\* A prediction that is no class of the gold set, and a class on which a config
\* differs, for better or for worse.
Foreign(p) == ~(Range(InBox(p)) \subseteq Classes(input.truth))
HigherRecall(k) ==
    RecallOf(input.preds[ConfigAt(k)], ClassAt(k)) > RecallOf(input.floor, ClassAt(k))
ScoreAt(n) == ScoreOf(input.preds[Configs[n]])
EligiblePlaces ==
    {n \in DOMAIN Configs :
       /\ ScoreAt(n) > ScoreOf(input.floor)
       /\ \E k \in Rejected(TestStats) : ConfigAt(k) = Configs[n] /\ HigherRecall(k)
       /\ ~ \E k \in Rejected(TestStats) : ConfigAt(k) = Configs[n] /\ ~HigherRecall(k)}
BestPlaces == {n \in EligiblePlaces : \A j \in EligiblePlaces : ScoreAt(n) >= ScoreAt(j)}

\* The selection in the terms of this module.
LEMMA SelectIs ==
    ASSUME SelectionAssumption, InitSelect
    PROVE  Select = IF Foreign(input.floor)
                         \/ \E n \in DOMAIN Configs : Foreign(input.preds[Configs[n]])
                    THEN "refused"
                    ELSE IF BestPlaces = {} THEN "none" ELSE Configs[Min(BestPlaces)]
<1> DEFINE truth == input.truth  lockbox == input.lockbox  preds == input.preds
           selection == SetToSeq(Selection(truth, lockbox, MinCell))
           in(p) == Restrict(p, DOMAIN p \cap lockbox)
           score(p) == Accuracy(in(p), truth, Range(selection))
           width == Len(selection)
           config(k) == Configs[1 + ((k - 1) \div width)]
           class(k) == selection[1 + ((k - 1) % width)]
           statOf(p, c) == ChiSquare(Hits(p, truth, c), Cardinality(Cell(p, truth, c)),
                                     Hits(in(input.floor), truth, c),
                                     Cardinality(Cell(in(input.floor), truth, c)))
           stats == [k \in 1 .. Len(Configs) * width |-> statOf(in(preds[config(k)]), class(k))]
           rejected == Rejected(stats)
           up(k) == Recall(in(preds[config(k)]), truth, class(k))
                      > Recall(in(input.floor), truth, class(k))
           moved(c, better) == \E k \in rejected : config(k) = c /\ up(k) = better
           eligible == {n \in DOMAIN Configs :
                          /\ score(preds[Configs[n]]) > score(input.floor)
                          /\ moved(Configs[n], TRUE) /\ ~moved(Configs[n], FALSE)}
           best == {n \in eligible : \A j \in eligible :
                      score(preds[Configs[n]]) >= score(preds[Configs[j]])}
           foreign(p) == ~(Range(in(p)) \subseteq Classes(truth))
<1>1. Select = IF foreign(input.floor) \/ \E n \in DOMAIN Configs : foreign(preds[Configs[n]])
               THEN "refused"
               ELSE IF best = {} THEN "none" ELSE Configs[Min(best)]
  BY Zenon DEF Select, SelectWinner
<1>2. selection = ClassOrder
  BY TestedAre DEF ClassOrder
<1>3. \A p : in(p) = InBox(p)
  BY DEF InBox
<1>4. width = ClassCount /\ Len(Configs) * width = TestCount
  BY <1>2 DEF ClassCount, TestCount
<1>5. \A k : config(k) = ConfigAt(k) /\ class(k) = ClassAt(k)
  BY <1>2, <1>4 DEF ConfigAt, ClassAt, ByConfig, ByClass
<1> HIDE DEF in, selection, width, config, class
<1>6. \A p : score(p) = ScoreOf(p)
  BY <1>2, <1>3, ScoreIs
<1>7. \A p, c : statOf(in(p), c) = ChiOf(p, input.floor, c)
  BY <1>3, ChiIs
<1> HIDE DEF score, statOf
<1>8. stats = TestStats
  BY <1>4, <1>5, <1>7 DEF TestStats, ChiOfTest, TestAt
<1>9. rejected = Rejected(TestStats)
  BY <1>8
<1> HIDE DEF rejected
<1>10. \A k : up(k) <=> HigherRecall(k)
  BY <1>3, <1>5, RecallIs DEF HigherRecall
<1>11. ASSUME NEW c
       PROVE  /\ moved(c, TRUE)
                   <=> \E k \in Rejected(TestStats) : ConfigAt(k) = c /\ HigherRecall(k)
              /\ moved(c, FALSE)
                   <=> \E k \in Rejected(TestStats) : ConfigAt(k) = c /\ ~HigherRecall(k)
  <2>1. \A k : /\ (up(k) = TRUE) <=> HigherRecall(k)
               /\ (up(k) = FALSE) <=> ~HigherRecall(k)
    BY <1>10 DEF HigherRecall
  <2> HIDE DEF up
  <2> QED BY <1>5, <1>9, <2>1
<1> HIDE DEF moved
<1>12. eligible = EligiblePlaces
  BY <1>6, <1>11 DEF EligiblePlaces, ScoreAt
<1>13. best = BestPlaces
  BY <1>6, <1>12 DEF BestPlaces, ScoreAt
<1>14. \A p : foreign(p) <=> Foreign(p)
  BY <1>3 DEF Foreign
<1> HIDE DEF foreign, best
<1> QED BY Zenon, <1>1, <1>13, <1>14

\* A config is good when what was rejected speaks for it.
GoodConfig(c) ==
    LET p == input.preds[c]
    IN  /\ ScoreOf(p) > ScoreOf(input.floor)
        /\ \E k \in ScoredClasses : RejectedTest(<<c, k>>) /\ BetterOf(p, input.floor, k)
        /\ \A k \in ScoredClasses : RejectedTest(<<c, k>>) => ~BetterOf(input.floor, p, k)

\* On a class whose test is rejected a config is better or worse than the floor.
LEMMA RejectedDiffers ==
    ASSUME SelectionAssumption, InitSelect, NEW c, NEW k, RejectedTest(<<c, k>>)
    PROVE  BetterOf(input.floor, input.preds[c], k) <=> ~BetterOf(input.preds[c], input.floor, k)
<1> DEFINE p == input.preds[c]  q == input.floor  t == <<c, k>>  m == TestCount
<1>1. t \in Tests
  BY RejectedAre
<1>2. m # 0 /\ Cardinality(Tests) = m
  BY <1>1, TestsAre
<1>3. Falls(m, CriticalAt[m])
  BY <1>2, TestsAre
<1>4. \A r \in DOMAIN CriticalAt[m] : CriticalAt[m][r] \in Nat \ {0}
  BY <1>3 DEF Falls
<1>5. PICK r \in DOMAIN CriticalAt[m] : t \in WithinBound(CriticalAt[m][r])
  BY <1>2 DEF RejectedTest
<1>6. ChiOfTest(t) = ChiOf(p, q, k)
  BY DEF ChiOfTest
<1>7. ChiOf(p, q, k) # 0
  <2>1. ChiOfTest(t) >= CriticalAt[m][r]
    BY <1>5 DEF WithinBound
  <2>2. ChiOf(p, q, k) \in Int
    BY ChiIs
  <2> QED BY <1>4, <1>6, <2>1, <2>2
<1>8. BetterOf(p, q, k) \/ BetterOf(q, p, k)
  BY <1>7, ChiIs
<1>9. ~(BetterOf(p, q, k) /\ BetterOf(q, p, k))
  <2>1. RecallOf(p, k) \in Nat /\ RecallOf(q, k) \in Nat
    BY RecallIs
  <2>2. /\ RecallOf(p, k) > RecallOf(q, k) <=> BetterOf(p, q, k)
        /\ RecallOf(q, k) > RecallOf(p, k) <=> BetterOf(q, p, k)
    BY BetterIs
  <2> QED BY <2>1, <2>2
<1> QED BY <1>8, <1>9

LEMMA EligibleAre ==
    ASSUME SelectionAssumption, InitSelect, NEW n \in DOMAIN Configs
    PROVE  n \in EligiblePlaces <=> GoodConfig(Configs[n])
<1> DEFINE c == Configs[n]  p == input.preds[c]  q == input.floor  M == 1 .. TestCount
           ahead == ScoreOf(p) > ScoreOf(q)
           up == \E k \in Rejected(TestStats) : ConfigAt(k) = c /\ HigherRecall(k)
           down == \E k \in Rejected(TestStats) : ConfigAt(k) = c /\ ~HigherRecall(k)
           gains == \E e \in ScoredClasses : RejectedTest(<<c, e>>) /\ BetterOf(p, q, e)
           loses == \E e \in ScoredClasses : RejectedTest(<<c, e>>) /\ ~BetterOf(p, q, e)
           safe == \A e \in ScoredClasses : RejectedTest(<<c, e>>) => ~BetterOf(q, p, e)
<1>1. /\ \A k \in M : ConfigAt(k) \in Range(Configs) /\ ClassAt(k) \in ScoredClasses
      /\ \A t \in Tests : \E k \in M : TestAt(k) = t
  BY TestsAre
<1>2. /\ Rejected(TestStats) \subseteq M
      /\ \A k \in M : k \in Rejected(TestStats) <=> RejectedTest(TestAt(k))
      /\ \A t : RejectedTest(t) => t \in Tests
  BY RejectedAre
<1>3. \A k : HigherRecall(k) <=> BetterOf(input.preds[ConfigAt(k)], q, ClassAt(k))
  BY BetterIs DEF HigherRecall
<1>4. up <=> gains
  <2>1. ASSUME NEW k \in Rejected(TestStats), ConfigAt(k) = c, HigherRecall(k)
        PROVE  \E e \in ScoredClasses : RejectedTest(<<c, e>>) /\ BetterOf(p, q, e)
    <3>1. ClassAt(k) \in ScoredClasses /\ RejectedTest(<<c, ClassAt(k)>>)
      BY <1>1, <1>2, <2>1 DEF TestAt
    <3>2. BetterOf(p, q, ClassAt(k))
      BY <1>3, <2>1
    <3> QED BY <3>1, <3>2
  <2>2. ASSUME NEW e \in ScoredClasses, RejectedTest(<<c, e>>), BetterOf(p, q, e)
        PROVE  \E k \in Rejected(TestStats) : ConfigAt(k) = c /\ HigherRecall(k)
    <3>1. PICK k \in M : TestAt(k) = <<c, e>>
      BY <1>1, <1>2, <2>2
    <3>2. ConfigAt(k) = c /\ ClassAt(k) = e
      BY <3>1 DEF TestAt
    <3>3. k \in Rejected(TestStats)
      BY <1>2, <2>2, <3>1
    <3>4. HigherRecall(k)
      BY <1>3, <2>2, <3>2
    <3> QED BY <3>2, <3>3, <3>4
  <2> QED BY <2>1, <2>2
<1>5. down <=> loses
  <2>1. ASSUME NEW k \in Rejected(TestStats), ConfigAt(k) = c, ~HigherRecall(k)
        PROVE  \E e \in ScoredClasses : RejectedTest(<<c, e>>) /\ ~BetterOf(p, q, e)
    <3>1. ClassAt(k) \in ScoredClasses /\ RejectedTest(<<c, ClassAt(k)>>)
      BY <1>1, <1>2, <2>1 DEF TestAt
    <3>2. ~BetterOf(p, q, ClassAt(k))
      BY <1>3, <2>1
    <3> QED BY <3>1, <3>2
  <2>2. ASSUME NEW e \in ScoredClasses, RejectedTest(<<c, e>>), ~BetterOf(p, q, e)
        PROVE  \E k \in Rejected(TestStats) : ConfigAt(k) = c /\ ~HigherRecall(k)
    <3>1. PICK k \in M : TestAt(k) = <<c, e>>
      BY <1>1, <1>2, <2>2
    <3>2. ConfigAt(k) = c /\ ClassAt(k) = e
      BY <3>1 DEF TestAt
    <3>3. k \in Rejected(TestStats)
      BY <1>2, <2>2, <3>1
    <3>4. ~HigherRecall(k)
      BY <1>3, <2>2, <3>2
    <3> QED BY <3>2, <3>3, <3>4
  <2> QED BY <2>1, <2>2
<1>6. \A e : RejectedTest(<<c, e>>) => (BetterOf(q, p, e) <=> ~BetterOf(p, q, e))
  BY RejectedDiffers
<1>7. GoodConfig(c) <=> ahead /\ gains /\ safe
  BY DEF GoodConfig
<1>8. n \in EligiblePlaces <=> ahead /\ up /\ ~down
  BY DEF EligiblePlaces, ScoreAt
<1>9. safe <=> ~loses
  <2> HIDE DEF c, p, q
  <2> QED BY <1>6
<1> HIDE DEF ahead, up, down, gains, loses, safe
<1> QED BY <1>4, <1>5, <1>7, <1>8, <1>9

AheadOf(j, n) == ScoreAt(j) > ScoreAt(n) \/ (ScoreAt(j) = ScoreAt(n) /\ j < n)

\* The winner is the first of the best.
LEMMA WinnerIs ==
    ASSUME SelectionAssumption, InitSelect
    PROVE  /\ BestPlaces = {} <=> \A c \in Range(Configs) : ~GoodConfig(c)
           /\ BestPlaces # {} => /\ Min(BestPlaces) \in DOMAIN Configs /\ GoodConfig(Configs[Min(BestPlaces)])
                            /\ \A j \in DOMAIN Configs :
                                 GoodConfig(Configs[j]) => ~AheadOf(j, Min(BestPlaces))
<1>1. DOMAIN Configs = 1 .. Len(Configs) /\ Len(Configs) \in Nat
  BY TestsAre
<1>2. EligiblePlaces \in SUBSET Nat /\ IsFiniteSet(EligiblePlaces) /\ EligiblePlaces \subseteq DOMAIN Configs
  <2>1. EligiblePlaces \subseteq 1 .. Len(Configs)
    BY <1>1 DEF EligiblePlaces
  <2>2. IsFiniteSet(1 .. Len(Configs))
    BY <1>1, CountUpTo
  <2>3. IsFiniteSet(EligiblePlaces)
    BY <2>1, <2>2, FS_Subset
  <2> QED BY <1>1, <2>1, <2>3
<1>3. \A n : ScoreAt(n) \in Nat
  BY ScoreIs DEF ScoreAt
<1>4. \A n \in DOMAIN Configs : n \in EligiblePlaces <=> GoodConfig(Configs[n])
  BY EligibleAre
<1>5. BestPlaces \subseteq EligiblePlaces
  BY DEF BestPlaces
<1>6. EligiblePlaces # {} => BestPlaces # {}
  <2> SUFFICES ASSUME EligiblePlaces # {} PROVE BestPlaces # {}
    OBVIOUS
  <2> DEFINE w == [n \in Nat |-> ScoreAt(n)]
  <2>1. \A k \in EligiblePlaces : w[k] \in Nat /\ w[k] = ScoreAt(k)
    BY <1>2, <1>3
  <2> HIDE DEF w
  <2>2. PICK k \in EligiblePlaces : \A j \in EligiblePlaces : NoWorse(w, k, j)
    BY <1>2, <2>1, BestOf
  <2>3. \A j \in EligiblePlaces : ScoreAt(k) >= ScoreAt(j)
    BY <1>3, <2>1, <2>2 DEF NoWorse
  <2> QED BY <2>3 DEF BestPlaces
<1>7. BestPlaces = {} <=> \A c \in Range(Configs) : ~GoodConfig(c)
  <2>1. \A c \in Range(Configs) : \E n \in DOMAIN Configs : Configs[n] = c
    BY DEF Range
  <2>2. \A n \in DOMAIN Configs : Configs[n] \in Range(Configs)
    BY DEF Range
  <2> QED BY <1>2, <1>4, <1>5, <1>6, <2>1, <2>2
<1>8. ASSUME BestPlaces # {}
      PROVE  /\ Min(BestPlaces) \in DOMAIN Configs /\ GoodConfig(Configs[Min(BestPlaces)])
             /\ \A j \in DOMAIN Configs : GoodConfig(Configs[j]) => ~AheadOf(j, Min(BestPlaces))
  <2>1. Min(BestPlaces) \in BestPlaces /\ \A j \in BestPlaces : Min(BestPlaces) <= j
    BY <1>2, <1>5, <1>8, LeastIs
  <2> DEFINE n == Min(BestPlaces)
  <2>2. n \in EligiblePlaces /\ n \in DOMAIN Configs /\ GoodConfig(Configs[n])
    BY <1>2, <1>4, <1>5, <2>1
  <2>3. ASSUME NEW j \in DOMAIN Configs, GoodConfig(Configs[j]) PROVE ~AheadOf(j, n)
    <3>1. j \in EligiblePlaces /\ j \in Nat /\ n \in Nat
      BY <1>1, <1>2, <1>4, <2>2, <2>3
    <3>2. ScoreAt(n) >= ScoreAt(j) /\ ScoreAt(n) \in Nat /\ ScoreAt(j) \in Nat
      BY <1>3, <2>1, <3>1 DEF BestPlaces
    <3>3. ASSUME ScoreAt(j) = ScoreAt(n) PROVE n <= j
      <4>1. j \in BestPlaces
        BY <2>1, <3>1, <3>3 DEF BestPlaces
      <4> QED BY <2>1, <4>1
    <3> HIDE DEF n
    <3> QED BY <3>1, <3>2, <3>3 DEF AheadOf
  <2> QED BY <2>2, <2>3
<1> QED BY <1>7, <1>8

\* The winner of the model is the one the property describes.
LEMMA SelectRule ==
    ASSUME SelectionAssumption, InitSelect, rule = "select", done, result = Select
    PROVE  WinnerIsJustified
<1> DEFINE all == UNION Range(input.truth)
           of(I, k) == {i \in I \cap DOMAIN input.truth : k \in input.truth[i]}
           classes == {k \in all : /\ Cardinality(of(DOMAIN input.truth, k)) >= MinCell
                                   /\ of(input.lockbox, k) # {}}
           asked(p, k) == of(DOMAIN p \cap input.lockbox, k)
           right(p, k) == Cardinality({i \in asked(p, k) : p[i] = k})
           wrong(p, k) == Cardinality({i \in asked(p, k) : p[i] # k})
           better(p, q, k) == right(p, k) * wrong(q, k) > right(q, k) * wrong(p, k)
                                \/ (right(p, k) > 0 /\ asked(q, k) = {})
           recall(p, k) == IF asked(p, k) = {} THEN 0
                           ELSE right(p, k) * (RecallParts \div Cardinality(asked(p, k)))
           score(p) == SumFunction([k \in classes |-> recall(p, k)])
           chi(t) == LET p == input.preds[t[1]]  q == input.floor  k == t[2]
                         n == right(p, k) + wrong(p, k)  m == right(q, k) + wrong(q, k)
                         h == right(p, k) + right(q, k)  w == wrong(p, k) + wrong(q, k)
                         d == right(p, k) * wrong(q, k) - right(q, k) * wrong(p, k)
                     IN  IF n * m * h * w = 0 THEN 0
                         ELSE (1000 * d * d * (n + m)) \div (n * m * h * w)
           tests == Range(Configs) \X classes
           within(bound) == {t \in tests : chi(t) >= bound}
           bounds == CriticalAt[Cardinality(tests)]
           rejected(t) == \E r \in DOMAIN bounds :
                            t \in within(bounds[r]) /\ Cardinality(within(bounds[r])) >= r
           good(c) ==
             LET p == input.preds[c]
             IN  /\ score(p) > score(input.floor)
                 /\ \E k \in classes : rejected(<<c, k>>) /\ better(p, input.floor, k)
                 /\ \A k \in classes : rejected(<<c, k>>) => ~better(input.floor, p, k)
           ahead(j, n) == LET s == score(input.preds[Configs[j]])
                              t == score(input.preds[Configs[n]])
                          IN  s > t \/ (s = t /\ j < n)
           strange(p) == \E i \in DOMAIN p \cap input.lockbox : p[i] \notin all
           Outcome ==
             IF strange(input.floor) \/ \E c \in Range(Configs) : strange(input.preds[c])
             THEN result = "refused"
             ELSE IF \A c \in Range(Configs) : ~good(c) THEN result = "none"
             ELSE \E n \in DOMAIN Configs :
                    /\ result = Configs[n] /\ good(Configs[n])
                    /\ \A j \in DOMAIN Configs : good(Configs[j]) => ~ahead(j, n)
<1>1. Outcome => WinnerIsJustified
  BY Zenon DEF WinnerIsJustified
<1>2. all = AllClasses
  BY DEF AllClasses
<1>3. \A I, k : of(I, k) = OfClass(I, k)
  BY DEF OfClass
<1> HIDE DEF of
<1>4. classes = ScoredClasses
  BY <1>2, <1>3 DEF ScoredClasses
<1>5. \A p, k : asked(p, k) = AskedOf(p, k)
  BY <1>3 DEF AskedOf
<1> HIDE DEF classes, all, asked
<1>6. \A p, k : right(p, k) = RightIn(p, k) /\ wrong(p, k) = WrongIn(p, k)
  BY <1>5 DEF RightIn, WrongIn
<1> HIDE DEF right, wrong
<1>7. \A p, q, k : better(p, q, k) <=> BetterOf(p, q, k)
  BY <1>5, <1>6 DEF BetterOf
<1>8. \A p, k : recall(p, k) = RecallOf(p, k)
  BY <1>5, <1>6 DEF RecallOf
<1> HIDE DEF better, recall
<1>9. \A p : score(p) = ScoreOf(p)
  BY <1>4, <1>8 DEF ScoreOf
<1>10. \A t : chi(t) = ChiOfTest(t)
  BY <1>6 DEF ChiOfTest, ChiOf
<1> HIDE DEF score, chi
<1>11. tests = Tests
  BY <1>4 DEF Tests
<1> HIDE DEF tests
<1>12. \A b : within(b) = WithinBound(b)
  BY <1>10, <1>11 DEF WithinBound
<1> HIDE DEF within
<1>13. \A t : rejected(t) <=> RejectedTest(t)
  BY <1>11, <1>12 DEF RejectedTest
<1> HIDE DEF rejected
<1>14. \A c : good(c) <=> GoodConfig(c)
  BY <1>4, <1>7, <1>9, <1>13 DEF GoodConfig
<1>15. \A j, n : ahead(j, n) <=> AheadOf(j, n)
  BY <1>9 DEF AheadOf, ScoreAt
<1>16. ASSUME NEW p PROVE strange(p) <=> Foreign(p)
  <2>1. Range(InBox(p)) = {p[i] : i \in DOMAIN p \cap input.lockbox}
    BY DEF Range, InBox, Restrict
  <2>2. Classes(input.truth) = all
    BY <1>2 DEF Classes, AllClasses
  <2> QED BY <2>1, <2>2 DEF Foreign
<1> HIDE DEF good, ahead, strange
<1>17. Outcome
  <2>1. CASE strange(input.floor) \/ \E c \in Range(Configs) : strange(input.preds[c])
    <3>1. Foreign(input.floor) \/ \E n \in DOMAIN Configs : Foreign(input.preds[Configs[n]])
      BY <1>16, <2>1 DEF Range
    <3>2. result = "refused"
      BY <3>1, SelectIs
    <3> QED BY <2>1, <3>2
  <2>2. CASE ~(strange(input.floor) \/ \E c \in Range(Configs) : strange(input.preds[c]))
    <3>1. ~(Foreign(input.floor) \/ \E n \in DOMAIN Configs : Foreign(input.preds[Configs[n]]))
      BY <1>16, <2>2 DEF Range
    <3>2. result = IF BestPlaces = {} THEN "none" ELSE Configs[Min(BestPlaces)]
      BY <3>1, SelectIs
    <3>3. BestPlaces = {} <=> \A c \in Range(Configs) : ~good(c)
      BY <1>14, WinnerIs
    <3>4. BestPlaces # {} => /\ Min(BestPlaces) \in DOMAIN Configs /\ good(Configs[Min(BestPlaces)])
                        /\ \A j \in DOMAIN Configs : good(Configs[j]) => ~ahead(j, Min(BestPlaces))
      BY <1>14, <1>15, WinnerIs
    <3>5. CASE BestPlaces = {}
      BY <2>2, <3>2, <3>3, <3>5
    <3>6. CASE BestPlaces # {}
      <4>1. result = Configs[Min(BestPlaces)]
        BY <3>2, <3>6
      <4>2. \E n \in DOMAIN Configs :
              /\ result = Configs[n] /\ good(Configs[n])
              /\ \A j \in DOMAIN Configs : good(Configs[j]) => ~ahead(j, n)
        BY <3>4, <3>6, <4>1
      <4> QED BY <2>2, <3>3, <3>6, <4>2
    <3> QED BY <3>5, <3>6
  <2> QED BY <2>1, <2>2
<1> HIDE DEF Outcome
<1> QED BY Zenon, <1>1, <1>17

\* The winner of the bake-off is justified by the lockbox alone: it scores best
\* of the configs that beat the floor and that the rejected tests speak for, and
\* is the first by name of several.  Holds for every list of configs, every gold
\* set and lockbox, all predictions and every table of critical values that
\* falls with the rank, although the code sorts the tests in one of many orders.
THEOREM WinnerJustified == Spec => []WinnerIsJustified
<1>1. RuleInv => WinnerIsJustified
  <2> SUFFICES ASSUME RuleInv, rule = "select", done PROVE WinnerIsJustified
    BY Zenon DEF WinnerIsJustified
  <2>1. InitSelect /\ result = Select
    BY PickedFor DEF RuleInv, Applied
  <2> QED BY Zenon, <2>1, SelectionAssumption, SelectRule
<1> QED BY <1>1, RuleIsApplied, PTL
=============================================================================
