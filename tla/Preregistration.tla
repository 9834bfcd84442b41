-------------------------- MODULE Preregistration --------------------------
(***************************************************************************)
(* What is fixed before a number exists: the manifest and its lock         *)
(* (engine/prereg/manifest.py, lock.py, rarr_lock.py), the reviewers       *)
(* (signoff.py, gates.py), the rubric and its adjudications (rubric.py,    *)
(* adjudication.py, engine/cli/rubric.py), the register of post-hoc        *)
(* analyses (engine/erratum) and the deviations from the registration      *)
(* (engine/report/diff.py).                                                *)
(*                                                                         *)
(* A hash is the value it is taken of: equal hashes, equal values.         *)
(***************************************************************************)
EXTENDS Integers, FiniteSets, Functions, Sequences, SequencesExt

(* ---- the manifest: a function from the fields below to values ---- *)

\* One field stands for each group of fields the code treats alike: "analysis"
\* for the fields of schema 1, "f6" for the recall denominators of schema 3,
\* "power" for the prospective power of schema 4.
SchemaTwoFields == {"schema", "goldset_hash", "sigma_u", "overlap_min_fp", "lambda_min"}
Fields == {"analysis", "specs", "f6", "power"} \cup SchemaTwoFields
GovernanceFields == {"schema", "goldset_hash", "f6", "power"}

\* Mutant: the recall denominators are accepted under any schema.
Loadable_AnySchema(m) ==
    /\ m.overlap_min_fp >= 1
    /\ "unsafe/name" \notin m.specs
    /\ "hierarchical_pooling" \in m.specs => m.sigma_u # "none"
    /\ m.power # "off" => m.schema >= 4

\* __post_init__: a manifest that breaks one of these cannot be loaded.
Loadable(m) ==
    /\ m.overlap_min_fp >= 1
    /\ "unsafe/name" \notin m.specs
    /\ "hierarchical_pooling" \in m.specs => m.sigma_u # "none"
    /\ m.f6 # "off" => m.schema >= 3
    /\ m.power # "off" => m.schema >= 4

\* to_dict: the fields in the canonical form.
HashedFields(schema) ==
    (Fields \ (IF schema < 4 THEN {"power"} ELSE {}))
      \ ((IF schema < 3 THEN {"f6"} ELSE {})
           \cup (IF schema = 1 THEN SchemaTwoFields ELSE {}))

\* compute_lock_hash, and verify_lock against a stored hash.
LockHash(m) == Restrict(m, HashedFields(m.schema))
LockVerifies(m, stored) == Loadable(m) /\ LockHash(m) = stored

\* build_rarr_manifest: the fields of the 2026 manifest under a new governance.
RarrManifest(base, goldset) ==
    [base EXCEPT !.schema = 4, !.goldset_hash = goldset, !.f6 = "K8", !.power = "0.8"]

(* ---- reviewers: signoff.py, gates.py ---- *)

\* ReviewerSignoff.verify; file and its commit as git reports them.
SignoffVerifies(signoff, file) ==
    /\ file.exists /\ file.hash = signoff.hash
    /\ file.committed /\ file.at = signoff.at

\* is_publishable; a sign-off that is missing is not given; norm collapses spaces and case of a name.
Publishable(rubric, statistical, author, norm) ==
    /\ rubric.given /\ statistical.given
    /\ \A r \in {rubric, statistical} : ~r.viewed /\ norm[r.name] # norm[author]

(* ---- the rubric: rubric.py, adjudication.py, engine/cli/rubric.py ---- *)

\* validate_completeness; a rubric maps an entry to its record.
Complete(rubric, expected, attested) ==
    /\ DOMAIN rubric = expected
    /\ \A e \in expected :
         /\ rubric[e].scope /\ rubric[e].positive # {} /\ rubric[e].negative # {}
         /\ rubric[e].rollup \/ rubric[e].adjacent # {} \/ e \in attested

\* validate_boundary_rules: known entries, and every rule has its converse.
Paired(rubric) ==
    \A a \in DOMAIN rubric : \A b \in rubric[a].adjacent :
       b \in DOMAIN rubric /\ a \in rubric[b].adjacent

\* validate_co_occurrences.
CoOccurrencesKnown(rubric) ==
    \A e \in DOMAIN rubric : rubric[e].cooccur \subseteq DOMAIN rubric

\* freeze-rubric: without a taxonomy file the completeness check is skipped.
FreezeAccepts(rubric, present, taxonomy, attested, committed, attestation) ==
    /\ committed
    /\ present => Complete(rubric, taxonomy, attested)
    /\ Paired(rubric) /\ CoOccurrencesKnown(rubric)
    /\ attestation = "committed"

\* An adjudication names a winner of its pair, or calls the pair ambiguous.
Adjudication(a) == a.decision \in {"ambiguous", a.left, a.right}

\* AdjudicationLog.validate_coverage: pairs without order.
CoversBoundaries(rubric, log) ==
    UNION {{{e, b} : b \in rubric[e].adjacent} : e \in DOMAIN rubric}
      \subseteq {{a.left, a.right} : a \in log}

(* ---- the register of post-hoc analyses: engine/erratum ---- *)

Genesis == <<>>
Link(prev, payload) == <<prev, payload>>

\* The hash after each entry of a list of payloads (write_register,
\* append_analysis: the whole chain is computed again on each append).
Chain(payloads) ==
    LET after[k \in 0 .. Len(payloads)] ==
          IF k = 0 THEN Genesis ELSE Link(after[k - 1], payloads[k])
    IN  after

WriteRegister(payloads) ==
    [entries  |-> [k \in DOMAIN payloads |->
                     [payload |-> payloads[k], chain |-> Chain(payloads)[k]]],
     terminal |-> Chain(payloads)[Len(payloads)]]

\* Mutant: the links are read, not computed again.
RegisterVerifies_StoredLinks(doc) ==
    Len(doc.entries) > 0 => doc.terminal = doc.entries[Len(doc.entries)].chain

\* read_and_verify_register: every stored link and the terminal hash.
RegisterVerifies(doc) ==
    LET chain == Chain([k \in DOMAIN doc.entries |-> doc.entries[k].payload])
    IN  /\ \A k \in DOMAIN doc.entries : doc.entries[k].chain = chain[k]
        /\ doc.terminal = chain[Len(doc.entries)]

(* ---- deviations and lineage: report/diff.py, erratum/lineage.py ---- *)

Deviations(registered, actual, declared) ==
    {f \in {"primary_spec", "flag_threshold_tau", "measurability_minimum"}
       : registered[f] # actual[f]} \cup declared

Comparable(a, b) == a.cycle = b.cycle /\ a.taxonomy = b.taxonomy
=============================================================================
