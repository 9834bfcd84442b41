----------------------------- MODULE CorpusRules -----------------------------
(***************************************************************************)
(* How the corpora enter the program: the adapters (engine/adapters), the  *)
(* drift check between two weekly snapshots and the infer gate that asks   *)
(* for its sign-off (engine/snapshot/drift.py, engine/cli/main.py), the    *)
(* corpus mode (engine/safety), and the overlap of the main corpus with    *)
(* the corroboration corpus (engine/decide/corpus_b_corroboration.py).     *)
(*                                                                         *)
(* A date is a number, a text the set of its words, a link a model value   *)
(* ("" when there is none).                                                *)
(***************************************************************************)
EXTENDS Integers, FiniteSets, FiniteSetsExt, Functions, Sequences, SequencesExt, Selection

SumSeq(s) == SumFunction(s)

(* ---- the main corpus: adapters/genai_agentic.py ---- *)

\* _transform: a severity the source may have defaulted is dropped; what is no
\* known category is an advisory, what has no known quality "auto".
Transform(raw, categories) ==
    [id |-> raw.id, stratum |-> raw.corpus, native |-> raw.owasp_llm,
     words |-> raw.words, cves |-> raw.cves,
     severity |-> IF raw.severity = "Medium" /\ raw.quality # "curated"
                  THEN "unknown" ELSE raw.severity,
     class |-> IF raw.category \in DOMAIN categories
               THEN categories[raw.category] ELSE "advisory",
     quality |-> IF raw.quality \in {"curated", "reviewed"} THEN raw.quality ELSE "auto",
     url |-> IF raw.references = <<>> THEN "" ELSE Head(raw.references)]

\* iter_incidents leaves out what is dated after the snapshot.
Incidents(records, categories, snapshot) ==
    LET dated == Kept(records, {k \in DOMAIN records : records[k].date <= snapshot})
    IN  [k \in DOMAIN dated |-> Transform(dated[k], categories)]

\* stratum_sizes: the exposure of a stratum is what was emitted of it.
CorpusSizes(incidents) ==
    [s \in {r.stratum : r \in Range(incidents)} |->
       Cardinality({k \in DOMAIN incidents : incidents[k].stratum = s})]

\* genai_agentic_bias.py: the labels a bulk ingest stamped on its records.
BareLlm03(native) == native = <<"LLM03">>
DoubleDefault(native) == native \in {<<"LLM03", "ASI04">>, <<"ASI04", "LLM03">>}

\* _stratum_size_sanity_check: a declared size covers what was emitted.
SizesCover(declared, incidents) ==
    \A s \in DOMAIN declared :
       Cardinality({k \in DOMAIN incidents : incidents[k].stratum = s}) <= declared[s]

(* ---- the corroboration corpus: adapters/owasp_asi.py ---- *)

\* parse_asi_markdown: of the table lines after a header row, those with four
\* cells and a title (kind "row"; a separator's title "---" is none).  The ids
\* count the rows taken; the first link is the source.
TableRows(lines) ==
    LET seen == {k \in DOMAIN lines : lines[k].kind = "header"}
        rows == Kept(lines, {k \in DOMAIN lines : lines[k].kind = "row" /\ \E h \in seen : h < k})
    IN  [n \in DOMAIN rows |->
           [id |-> n, url |-> rows[n].url, cves |-> rows[n].cves, words |-> rows[n].words]]

\* _parse_date: a month it does not know is January, another form is no date.
AsiDate(cell, months) ==
    IF cell.words # 2 THEN [year |-> 1970, month |-> 1]
    ELSE [year |-> cell.year,
          month |-> IF cell.month \in DOMAIN months THEN months[cell.month] ELSE 1]

(* ---- drift and the infer gate: snapshot/drift.py, cli/main.py ---- *)

\* _count_entries: the native labels of a snapshot file, each occurrence counted.
LabelCounts(records) ==
    [e \in UNION {Range(records[k].owasp_llm) : k \in DOMAIN records} |->
       SumSeq([k \in DOMAIN records |->
                 Len(SelectSeq(records[k].owasp_llm, LAMBDA x : x = e))])]

\* Mutant: both bounds have to be exceeded.
Anomaly_Both(before, now, relative, absolute, burst) ==
    LET change == IF now > before THEN now - before ELSE before - now
    IN  IF before = 0 THEN now > burst
        ELSE change > absolute /\ 100 * change > relative * before

\* detect_drift; relative in hundredths.  An entry that appears is judged by the
\* burst threshold alone.
Anomaly(before, now, relative, absolute, burst) ==
    LET change == IF now > before THEN now - before ELSE before - now
    IN  IF before = 0 THEN now > burst
        ELSE change > absolute \/ 100 * change > relative * before

Drift(prev, curr, relative, absolute, burst) ==
    LET count(f, e) == IF e \in DOMAIN f THEN f[e] ELSE 0
    IN  {e \in DOMAIN prev \cup DOMAIN curr :
           Anomaly(count(prev, e), count(curr, e), relative, absolute, burst)}

\* infer: the lock, then the votes, then the drift; a reason has 30 characters.
InferGate(lock, votes, snapshots, anomalies, reason) ==
    CASE ~lock -> "no lock"
      [] lock /\ votes -> "votes present"
      [] lock /\ ~votes ->
           IF snapshots = 2 /\ anomalies # {} /\ reason < 30 THEN "sign-off required"
           ELSE "satisfied"

\* verify_corpus_mode.
CorpusModeHolds(mode, adapter) ==
    (mode = "synthetic") <=> (adapter \in {"synthetic", "synthetic_stress"})

\* verify_snapshot_hash.
SnapshotVerifies(content, expected) == content = expected

(* ---- overlap and agreement: decide/corpus_b_corroboration.py ---- *)

\* Of the places of corpus A with a link or a CVE, the last holds it.
Holder(places) == IF places = {} THEN 0 ELSE Max(places)

\* Mutant: the best title is taken whether or not it was matched before.
Candidates_Again(a, b, taken, shared) ==
    LET words(k) == Cardinality(a[k].words \cap b.words)
        rich == {k \in DOMAIN a : words(k) >= shared}
    IN  [by |-> "title", of |-> {k \in rich : \A j \in rich :
           words(j) < words(k) \/ (words(j) = words(k) /\ k <= j)}]

\* The places in A that the record b may take when those in taken are gone: by
\* link, else by a CVE (a set: any of them first), else by the most shared words.
Candidates(a, b, taken, shared) ==
    LET free(k) == k # 0 /\ k \notin taken
        link == {k \in {Holder({j \in DOMAIN a : a[j].url = b.url})} : b.url # "" /\ free(k)}
        cves == {k \in {Holder({j \in DOMAIN a : c \in a[j].cves}) : c \in b.cves} : free(k)}
        words(k) == Cardinality(a[k].words \cap b.words)
        rich == {k \in DOMAIN a \ taken : words(k) >= shared}
        best == {k \in rich : \A j \in rich : words(j) < words(k) \/ (words(j) = words(k) /\ k <= j)}
    IN  IF link # {} THEN [by |-> "url", of |-> link]
        ELSE IF cves # {} THEN [by |-> "cve", of |-> cves]
        ELSE [by |-> "title", of |-> best]

\* detect_overlaps: corpus B in its order; each takes the least candidate here,
\* for a set of CVEs any other may be taken by the program.
Overlaps(a, b, shared) ==
    LET step(n, found) ==
          LET c == Candidates(a, b[n], {m.a : m \in found}, shared)
          IN  IF c.of = {} THEN found
              ELSE found \cup {[a |-> Min(c.of), b |-> n, by |-> c.by]}
        after[n \in 0 .. Len(b)] == IF n = 0 THEN {} ELSE step(n, after[n - 1])
    IN  after[Len(b)]

\* compute_agreement: without a label a record is "unclassified", and two of
\* these agree; a divergence is systematic when it occurs twice.
Agreement(overlaps, labelsA, labelsB) ==
    LET label(f, i) == IF i \in DOMAIN f THEN f[i] ELSE "unclassified"
        pair(m) == <<label(labelsA, m.a), label(labelsB, m.b)>>
        agree == {m \in overlaps : pair(m)[1] = pair(m)[2]}
        diverge(p) == {m \in overlaps : pair(m) = p}
    IN  [agree |-> agree, disagree |-> overlaps \ agree,
         systematic |-> {p \in {pair(m) : m \in overlaps \ agree} :
                           "unclassified" \notin Range(p) /\ Cardinality(diverge(p)) >= 2}]
=============================================================================
