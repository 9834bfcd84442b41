--------------------------- MODULE Classification ---------------------------
(***************************************************************************)
(* The rules by which the classify phase labels incidents: the Stage-1     *)
(* keyword rules (engine/classify/classifier.py), the reading of a Stage-2 *)
(* reply (stage2.py), the routing and merging of the two stages and the    *)
(* observation counts (engine/cli/pipeline_executor.py), the injection     *)
(* gate (injection_gate.py) and the vote of several models                 *)
(* (multi_model.py).  No state: engine runs call them once per phase.      *)
(*                                                                         *)
(* An incident's text is the set of indicators it contains; a confidence   *)
(* is counted in parts of ConfidenceScale, which every rule length used    *)
(* divides.                                                                *)
(***************************************************************************)
EXTENDS Integers, FiniteSets, FiniteSetsExt, Functions, Bags, Sequences

OOS == "out-of-scope"
ConfidenceScale == 60

(* ---- Stage 1: engine/classify/classifier.py and stub.py ---- *)

\* Positive hits less negative hits, never below zero, over the positive patterns.
Confidence(text, rule) ==
    LET hits == Cardinality(rule.positive \cap text)
                  - Cardinality(rule.negative \cap text)
    IN  IF rule.positive = {} THEN 0
        ELSE (Max({0, hits}) * ConfidenceScale) \div Cardinality(rule.positive)

\* One row for every entry whose rule reaches the threshold on the text.
Stage1(corpus, rules, threshold) ==
    {r \in {[id |-> i, entry |-> e, stage |-> 1,
             conf |-> Confidence(corpus[i], rules[e])]
              : i \in DOMAIN corpus, e \in DOMAIN rules}
       : r.conf >= threshold}

\* The rule set's hash covers the patterns and thresholds, entry by entry.
RuleHash(rules, threshold) ==
    [e \in DOMAIN rules |-> <<threshold, rules[e].negative, rules[e].positive>>]

\* The synthetic cycle's classifier: native labels the rubric knows.
Stub(native, entries) ==
    UNION {{[id |-> i, entry |-> e, stage |-> 1, conf |-> ConfidenceScale]
              : e \in native[i] \cap entries} : i \in DOMAIN native}

(* ---- Stage 2: engine/classify/stage2.py ---- *)

\* A reply has the form "text" (no JSON), "list" (JSON but no object), "error"
\* (the call failed) or "object", with an entry id and a confidence.
IsObject(reply) == reply.form = "object"

\* Mutant: the entry is not held against the rubric.
Parsed_Unchecked(reply, valid) ==
    CASE reply.form = "list" -> "raises"
      [] reply.form = "text" -> OOS
      [] IsObject(reply) -> reply.entry

\* parse_stage2_response: what the bake-off and the gate read.  A JSON value
\* that is no object has no .get: the call raises.
Parsed(reply, valid) ==
    CASE reply.form = "list" -> "raises"
      [] reply.form = "text" -> OOS
      [] IsObject(reply) -> IF reply.entry \in valid THEN reply.entry ELSE OOS

\* classify and _parse_response: what the shipped classifier records.  A call
\* that failed twice is a fallback; the confidence is read too: one that is no
\* number makes the row a fallback, null raises.
Shipped(reply, valid) ==
    CASE reply.form = "error" -> OOS
      [] reply.form \in {"text", "list"} -> Parsed(reply, valid)
      [] IsObject(reply) /\ reply.entry \notin valid -> OOS
      [] IsObject(reply) /\ reply.entry \in valid ->
           CASE reply.confidence = "number" -> reply.entry
             [] reply.confidence = "word"   -> OOS
             [] reply.confidence = "null"   -> "raises"

(* ---- the two stages together: engine/cli/pipeline_executor.py ---- *)

\* Mutant: the comparison with the threshold includes it.
Routed_AtThreshold(rows, ids, threshold) ==
    {i \in ids : \A r \in rows : r.id = i => r.conf <= threshold}

\* The incidents Stage 2 is asked about: the best Stage-1 row is below the
\* threshold, or there is none.
Routed(rows, ids, threshold) ==
    {i \in ids : \A r \in rows : r.id = i => r.conf < threshold}

Stage2Row(i, entry) == [id |-> i, entry |-> entry, stage |-> 2, conf |-> ConfidenceScale]

\* The labelled rows, with their multiplicity: a low Stage-1 row of an answered
\* incident is replaced by the answer, once for each such row.
Merged(rows, answers, threshold) ==
    LET low(i) == {r \in rows : r.id = i /\ r.conf < threshold}
        kept   == {r \in rows : ~(r.id \in DOMAIN answers /\ r.conf < threshold)}
        inScope == {i \in DOMAIN answers : answers[i] # OOS}
    IN  SetToBag(kept)
          (+) [r \in {Stage2Row(i, answers[i]) : i \in inScope}
                 |-> Max({1, Cardinality(low(r.id))})]

\* classify_real: both stages use the threshold of the manifest.
Labels(corpus, rules, threshold, replies, valid) ==
    LET rows   == Stage1(corpus, rules, threshold)
        routed == Routed(rows, DOMAIN corpus, threshold)
    IN  Merged(rows, [i \in routed |-> Shipped(replies[i], valid)], threshold)

\* _build_counts_from_labeled: what the model observes.  A stratum's size is
\* the number of its rows, and at least one.
Observed(labels, stratum) ==
    LET rows(P(_)) == SumFunctionOnSet(labels, {r \in DOMAIN labels : P(r)})
        strata == {stratum[r.id] : r \in DOMAIN labels}
    IN  [counts |-> [c \in {<<r.entry, stratum[r.id]>> : r \in DOMAIN labels} |->
                       rows(LAMBDA r : r.entry = c[1] /\ stratum[r.id] = c[2])],
         sizes |-> [s \in strata |-> Max({1, rows(LAMBDA r : stratum[r.id] = s)})]]

(* ---- the injection gate: engine/classify/injection_gate.py ---- *)

\* Mutant: a probe whose call failed did not name the target either.
Resisted_OnError(reply, target, valid) ==
    reply.form = "error" \/ Parsed(reply, valid) \notin {"raises", target}

\* A probe is resisted when its reply was read and does not name the target.
Resisted(reply, target, valid) ==
    /\ reply.form # "error"
    /\ Parsed(reply, valid) \notin {"raises", target}

\* run_injection_gate: refuses a rubric that lacks a target, else the share of
\* resisted probes is held against the threshold (in parts of ConfidenceScale).
Gate(replies, target, valid, threshold) ==
    LET probes == DOMAIN target
        resisted == {p \in probes : Resisted(replies[p], target[p], valid)}
        rate == IF probes = {} THEN 0
                ELSE (Cardinality(resisted) * ConfidenceScale) \div Cardinality(probes)
    IN  IF ~(Range(target) \subseteq valid) THEN "refused"
        ELSE IF rate >= threshold THEN "passed" ELSE "failed"

\* filter_eligible_by_gate: no result is no pass.
Eligible(configs, results) ==
    {c \in configs : c \in DOMAIN results /\ results[c] = "passed"}

(* ---- the vote of several models: engine/classify/multi_model.py ---- *)

\* A model that fails, a reply with no JSON object and a confidence that is no
\* number vote out-of-scope; an entry the rubric does not know is a vote like
\* any other; a null confidence raises.
Vote(reply) ==
    CASE ~IsObject(reply) -> OOS
      [] IsObject(reply) ->
           CASE reply.confidence = "number" -> reply.entry
             [] reply.confidence = "word"   -> OOS
             [] reply.confidence = "null"   -> "raises"

\* The tier and the entry of the vote; of two entries with as many votes the
\* one named first wins.  votes is a non-empty sequence of entries.
Consensus(votes) ==
    LET tally(e) == Cardinality({k \in DOMAIN votes : votes[k] = e})
        top   == Max({tally(e) : e \in Range(votes)})
        first == CHOOSE k \in DOMAIN votes :
                   /\ tally(votes[k]) = top
                   /\ \A j \in 1 .. k - 1 : tally(votes[j]) < top
    IN  IF top = Len(votes) THEN [tier |-> "agree", entry |-> votes[first]]
        ELSE IF top > 1 THEN [tier |-> "split", entry |-> votes[first]]
        ELSE [tier |-> "disagree", entry |-> "none"]
=============================================================================
