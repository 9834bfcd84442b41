-------------------------- MODULE AgreementProofs --------------------------
(* Theorems about the rules that make two paths of the program agree: gold  *)
(* records and verdicts, the two corpora, the engine and its oracle, the    *)
(* ballot of the synthetic cycle and the rates it was made from.            *)
EXTENDS RulesProofs

-----------------------------------------------------------------------------
(* The gold set and what it is merged into *)

\* What the classifier is taken to say of an incident, and the gold set that is loaded.
Claim(i) == IF input.claim[i] # "silent" THEN input.claim[i] ELSE OutOfScope
Adjudicate(i) ==
    [id |-> i, labels |-> input.labels[i], consensus |-> OOS,
     adjudicated |-> IF i \in input.certain THEN "certain" ELSE "uncertain"]
Classifier ==
    [given |-> TRUE,
     labels |-> [i \in {j \in Incident : input.claim[j] # "silent"} |-> input.claim[i]]]
Loaded ==
    LoadGold([curation |-> <<>>, adjudicated |-> [i \in Incident |-> Adjudicate(i)],
              verified |-> input.verified], Classifier, {})

\* The incident of the nth usable record, and the places of those with a verdict.
Usable1 == 1 .. Cardinality(input.certain)
At(n) == Nth(input.certain, n)
Judged == {n \in Usable1 : Claim(At(n)) # OutOfScope /\ input.labels[At(n)] # {}}
Own == [j \in 1 .. Cardinality(Judged) |->
          PrecisionLabel(At(Nth(Judged, j)), Claim(At(Nth(Judged, j))),
                         Claim(At(Nth(Judged, j))) \in input.labels[At(Nth(Judged, j))])]
Labelled == [n \in Usable1 |-> RecallLabel(At(n), input.labels[At(n)], Claim(At(n)))]
Verdicts == [id : Nat, claimed : Valid, correct : BOOLEAN]

\* A bounded sequence is a function on an initial segment.
LEMMA InSeqOf ==
    ASSUME NEW S, NEW n \in Nat, NEW s \in SeqOf(S, n)
    PROVE  \E m \in Nat : s \in [1 .. m -> S]
<1>1. PICK T \in {[1 .. m -> S] : m \in 0 .. n} : s \in T
  BY DEF SeqOf
<1>2. PICK m \in 0 .. n : T = [1 .. m -> S]
  BY <1>1
<1>3. m \in Nat
  OBVIOUS
<1> QED BY <1>1, <1>2, <1>3

LEMMA GoldInput ==
    ASSUME GoldAssumption, ClassificationAssumption, InitGold
    PROVE  /\ input.certain \in SUBSET Int /\ IsFiniteSet(input.certain)
           /\ input.certain \subseteq Incident /\ Incident \subseteq Nat \ {0}
           /\ Cardinality(input.certain) \in Nat
           /\ \A i \in Incident : /\ input.labels[i] \subseteq Entries
                                  /\ Claim(i) \in Valid
                                  /\ \A e \in Entries : Claim(i) = e <=> input.claim[i] = e
           /\ \A n \in Usable1 : At(n) \in input.certain
           /\ \A n \in Usable1 : Upto(input.certain, At(n)) = n
           /\ Judged \in SUBSET Int /\ IsFiniteSet(Judged) /\ Cardinality(Judged) \in Nat
           /\ input.verified \in Seq(Verdicts)
           /\ \A k \in DOMAIN input.verified : input.verified[k].id = 0
<1>1. /\ Adjudicated \in Nat /\ input.certain \subseteq Incident
      /\ input.labels \in [Incident -> SUBSET Entries]
      /\ input.claim \in [Incident -> Valid \cup {"silent"}]
  BY DEF InitGold, GoldAssumption
<1>2. Incident \subseteq Nat \ {0} /\ IsFiniteSet(Incident)
  BY <1>1, CountUpTo DEF Incident
<1>3. /\ input.certain \in SUBSET Int /\ IsFiniteSet(input.certain)
      /\ Cardinality(input.certain) \in Nat
  <2>1. input.certain \in SUBSET Incident
    BY <1>1
  <2>2. IsFiniteSet(input.certain) /\ Cardinality(input.certain) \in Nat
    BY <1>2, <2>1, CountSubset
  <2>3. ASSUME NEW i \in input.certain PROVE i \in Int
    <3>1. i \in Incident
      BY <1>1
    <3> QED BY <1>2, <3>1
  <2> QED BY <2>2, <2>3
<1>4. \A i \in Incident : /\ Claim(i) \in Valid
                          /\ \A e \in Entries : Claim(i) = e <=> input.claim[i] = e
  BY <1>1 DEF Claim, Valid, OutOfScope, OOS, GoldAssumption, ClassificationAssumption
<1>5. \A n \in Usable1 : At(n) \in input.certain /\ Upto(input.certain, At(n)) = n
  BY <1>3, NthIs DEF Usable1, At
<1>6. Judged \in SUBSET Int /\ IsFiniteSet(Judged) /\ Cardinality(Judged) \in Nat
  <2>1. Judged \in SUBSET Usable1
    BY DEF Judged
  <2>2. IsFiniteSet(Usable1) /\ Usable1 \subseteq Int
    BY <1>3, CountUpTo DEF Usable1
  <2> QED BY <2>1, <2>2, CountSubset
<1>7. /\ input.verified \in Seq(Verdicts)
      /\ \A k \in DOMAIN input.verified : input.verified[k].id = 0
  <2> DEFINE S == {PrecisionLabel(0, e, correct) : e \in Entries, correct \in BOOLEAN}
  <2>1. S \subseteq Verdicts /\ \A v \in S : v.id = 0
    BY DEF PrecisionLabel, Verdicts, Valid
  <2>2. input.verified \in SeqOf(S, VerdictsGiven)
    BY DEF InitGold
  <2> HIDE DEF S
  <2>3. VerdictsGiven \in Nat
    BY DEF GoldAssumption
  <2>4. PICK m \in Nat : input.verified \in [1 .. m -> S]
    BY <2>2, <2>3, InSeqOf
  <2>5. input.verified \in [1 .. m -> Verdicts]
    BY <2>1, <2>4
  <2> QED BY <2>1, <2>4, <2>5, SeqDef
<1> QED BY <1>1, <1>2, <1>3, <1>4, <1>5, <1>6, <1>7

LEMMA LoadedIs ==
    ASSUME GoldAssumption, ClassificationAssumption, InitGold
    PROVE  Loaded.recall = Labelled /\ Loaded.precision = Own \o input.verified
<1> DEFINE records == [i \in Incident |-> Adjudicate(i)]
           used == Usable(records)
           kept == {k \in DOMAIN records : records[k].adjudicated # "uncertain"}
<1>1. kept = input.certain
  <2>1. \A i \in Incident : records[i].adjudicated # "uncertain" <=> i \in input.certain
    BY DEF Adjudicate
  <2> QED BY <2>1, GoldInput
<1>2. used = [n \in Usable1 |-> Adjudicate(At(n))]
  <2>1. used = [n \in 1 .. Cardinality(kept) |-> records[Nth(kept, n)]]
    BY DEF Usable, Kept
  <2>2. \A n \in Usable1 : records[At(n)] = Adjudicate(At(n))
    BY GoldInput
  <2> HIDE DEF kept, records
  <2> QED BY <1>1, <2>1, <2>2 DEF Usable1, At
<1>3. ASSUME NEW n \in Usable1
      PROVE  /\ used[n] = Adjudicate(At(n)) /\ used[n].id = At(n)
             /\ used[n].labels = input.labels[At(n)]
             /\ Predicted(used[n], Classifier) = Claim(At(n))
  <2>1. At(n) \in Incident
    BY GoldInput
  <2>2. used[n] = Adjudicate(At(n))
    BY <1>2
  <2> HIDE DEF used
  <2>3. used[n].id = At(n) /\ used[n].labels = input.labels[At(n)]
    BY <2>2 DEF Adjudicate
  <2>4. Predicted(used[n], Classifier) = Claim(At(n))
    BY <2>1, <2>3 DEF Predicted, Classifier, Claim
  <2> QED BY <2>2, <2>3, <2>4
<1>4. DOMAIN used = Usable1
  BY <1>2
<1> DEFINE first == AdjudicatedRecall(records, Classifier)
<1>5. first = Labelled
  <2>1. first = [k \in DOMAIN used |->
                   RecallLabel(used[k].id, used[k].labels, Predicted(used[k], Classifier))]
    BY DEF AdjudicatedRecall
  <2> HIDE DEF first, used
  <2> QED BY <1>3, <1>4, <2>1 DEF Labelled
<1>6. CurationLabels(<<>>, {}) = <<>>
  <2>1. {k \in DOMAIN <<>> : <<>>[k].id \notin {}} = {}
    OBVIOUS
  <2>2. 1 .. Cardinality({}) = {}
    BY FS_EmptySet
  <2>3. Kept(<<>>, {}) = <<>>
    BY <2>2 DEF Kept
  <2> QED BY <2>1, <2>3 DEF CurationLabels
<1>7. Labelled \in Seq(Range(Labelled))
  <2>1. Labelled \in [1 .. Cardinality(input.certain) -> Range(Labelled)]
    BY DEF Labelled, Usable1, Range
  <2>2. Cardinality(input.certain) \in Nat
    BY GoldInput
  <2> QED BY <2>1, <2>2, SeqDef
<1>8. Loaded.recall = CurationLabels(<<>>, {}) \o first
  BY DEF Loaded, LoadGold
<1>9. Loaded.recall = Labelled
  <2> HIDE DEF first
  <2> QED BY <1>5, <1>6, <1>7, <1>8, ConcatEmptySeq
<1> DEFINE K == {k \in DOMAIN used : /\ Predicted(used[k], Classifier) \notin {OutOfScope, "none"}
                                     /\ used[k].labels # {}}
           last == AdjudicatedPrecision(records, Classifier)
<1>10. K = Judged
  <2> HIDE DEF used
  <2>1. ASSUME NEW n \in Usable1 PROVE Claim(At(n)) # "none"
    <3>1. At(n) \in Incident
      BY GoldInput
    <3>2. Claim(At(n)) \in Valid
      BY <3>1, GoldInput
    <3>3. "none" \notin Valid
      BY DEF Valid, OOS, GoldAssumption
    <3> QED BY <3>2, <3>3
  <2> QED BY <1>3, <1>4, <2>1 DEF Judged
<1>11. last = Own
  <2>1. last = [k \in DOMAIN Kept(used, K) |->
                  PrecisionLabel(Kept(used, K)[k].id, Predicted(Kept(used, K)[k], Classifier),
                                 Predicted(Kept(used, K)[k], Classifier) \in Kept(used, K)[k].labels)]
    BY DEF AdjudicatedPrecision
  <2>2. Kept(used, K) = [j \in 1 .. Cardinality(Judged) |-> used[Nth(Judged, j)]]
    <3> HIDE DEF used, K
    <3> QED BY <1>10 DEF Kept
  <2>3. \A j \in 1 .. Cardinality(Judged) : Nth(Judged, j) \in Usable1
    <3>1. \A j \in 1 .. Cardinality(Judged) : Nth(Judged, j) \in Judged
      BY GoldInput, NthIs
    <3> QED BY <3>1 DEF Judged
  <2> HIDE DEF last, used, K
  <2> QED BY <1>3, <2>1, <2>2, <2>3 DEF Own
<1>12. Loaded.precision = last \o input.verified
  BY DEF Loaded, LoadGold
<1> QED BY <1>9, <1>11, <1>12

\* The usable incidents that are claimed for an entry, rightly or not, and those
\* among them that have a label at all.
Right(e) == {i \in input.certain : Claim(i) = e /\ e \in input.labels[i]}
Wrong(e) == {i \in input.certain : Claim(i) = e /\ e \notin input.labels[i]}
Mistaken(e) == {i \in Wrong(e) : input.labels[i] # {}}
Baseless(e) == {i \in Wrong(e) : input.labels[i] = {}}

LEMMA LabelledCount ==
    ASSUME GoldAssumption, ClassificationAssumption, InitGold, NEW A \in SUBSET input.certain
    PROVE  Cardinality({n \in Usable1 : At(n) \in A}) = Cardinality(A)
<1>1. input.certain \in SUBSET Int /\ IsFiniteSet(input.certain)
  BY GoldInput
<1>2. Cardinality({n \in Usable1 : Nth(input.certain, n) \in A}) = Cardinality(A)
  BY <1>1, KeptCount DEF Usable1
<1> QED BY <1>2 DEF At

LEMMA OwnCount ==
    ASSUME GoldAssumption, ClassificationAssumption, InitGold,
           NEW A \in SUBSET {i \in input.certain : Claim(i) # OutOfScope /\ input.labels[i] # {}}
    PROVE  Cardinality({j \in 1 .. Cardinality(Judged) : At(Nth(Judged, j)) \in A}) = Cardinality(A)
<1> DEFINE B == {n \in Usable1 : At(n) \in A}  N == 1 .. Cardinality(Judged)
<1>1. Cardinality(B) = Cardinality(A)
  BY LabelledCount
<1>2. B \in SUBSET Judged
  BY DEF Judged
<1>3. Judged \in SUBSET Int /\ IsFiniteSet(Judged)
  BY GoldInput
<1>4. \A j \in N : Nth(Judged, j) \in Usable1
  <2>1. \A j \in N : Nth(Judged, j) \in Judged
    BY <1>3, NthIs
  <2> QED BY <2>1 DEF Judged
<1>5. {j \in N : At(Nth(Judged, j)) \in A} = {j \in N : Nth(Judged, j) \in B}
  BY <1>4
<1> HIDE DEF B
<1>6. Cardinality({j \in N : Nth(Judged, j) \in B}) = Cardinality(B)
  BY <1>2, <1>3, KeptCount
<1> QED BY <1>1, <1>5, <1>6

\* The verdicts that follow from the adjudicated records, and those given.
LEMMA VerdictCount ==
    ASSUME GoldAssumption, ClassificationAssumption, InitGold, NEW e \in Entries
    PROVE  LET given(c) == {k \in DOMAIN input.verified :
                              input.verified[k].claimed = e /\ input.verified[k].correct = c}
               loaded(c) == {j \in DOMAIN Loaded.precision :
                               Loaded.precision[j].claimed = e /\ Loaded.precision[j].correct = c}
           IN  /\ Cardinality(loaded(TRUE)) = Cardinality(Right(e)) + Cardinality(given(TRUE))
               /\ Cardinality(loaded(FALSE)) = Cardinality(Mistaken(e)) + Cardinality(given(FALSE))
               /\ Cardinality(given(TRUE)) \in Nat /\ Cardinality(given(FALSE)) \in Nat
<1> DEFINE N == 1 .. Cardinality(Judged)  inc(j) == At(Nth(Judged, j))
           W(c) == {v \in Verdicts : v.claimed = e /\ v.correct = c}
           given(c) == {k \in DOMAIN input.verified :
                          input.verified[k].claimed = e /\ input.verified[k].correct = c}
           loaded(c) == {j \in DOMAIN Loaded.precision :
                           Loaded.precision[j].claimed = e /\ Loaded.precision[j].correct = c}
<1>1. \A j \in N : inc(j) \in input.certain /\ Claim(inc(j)) # OutOfScope /\ input.labels[inc(j)] # {}
  <2>1. \A j \in N : Nth(Judged, j) \in Judged
    BY GoldInput, NthIs
  <2>2. \A n \in Judged : /\ At(n) \in input.certain /\ Claim(At(n)) # OutOfScope
                          /\ input.labels[At(n)] # {}
    BY GoldInput DEF Judged
  <2> QED BY <2>1, <2>2
<1>2. DOMAIN Own = N
      /\ \A j \in N : Own[j] = PrecisionLabel(inc(j), Claim(inc(j)), Claim(inc(j)) \in input.labels[inc(j)])
  BY DEF Own
<1>3. \A j \in N : /\ Own[j] \in Verdicts /\ Own[j].claimed = Claim(inc(j))
                   /\ Own[j].correct = TRUE <=> Claim(inc(j)) \in input.labels[inc(j)]
                   /\ Own[j].correct = FALSE <=> Claim(inc(j)) \notin input.labels[inc(j)]
  <2> SUFFICES ASSUME NEW j \in N
               PROVE  /\ Own[j] \in Verdicts /\ Own[j].claimed = Claim(inc(j))
                      /\ Own[j].correct = TRUE <=> Claim(inc(j)) \in input.labels[inc(j)]
                      /\ Own[j].correct = FALSE <=> Claim(inc(j)) \notin input.labels[inc(j)]
    OBVIOUS
  <2> DEFINE i == inc(j)  right == Claim(i) \in input.labels[i]
  <2>1. i \in Nat /\ Claim(i) \in Valid /\ right \in BOOLEAN
    BY <1>1, GoldInput
  <2>2. Own[j] = [id |-> i, claimed |-> Claim(i), correct |-> right]
    BY <1>2 DEF PrecisionLabel
  <2> HIDE DEF i
  <2>3. Own[j] \in Verdicts /\ Own[j].claimed = Claim(i) /\ Own[j].correct = right
    BY <2>1, <2>2 DEF Verdicts
  <2>4. right = TRUE <=> Claim(i) \in input.labels[i]
    OBVIOUS
  <2>5. right = FALSE <=> Claim(i) \notin input.labels[i]
    OBVIOUS
  <2> HIDE DEF right
  <2>6. Own[j].correct = TRUE <=> Claim(i) \in input.labels[i]
    BY <2>3, <2>4
  <2>7. Own[j].correct = FALSE <=> Claim(i) \notin input.labels[i]
    BY <2>3, <2>5
  <2> QED BY <2>3, <2>6, <2>7 DEF i
<1>4. Own \in Seq(Verdicts) /\ input.verified \in Seq(Verdicts)
  <2>1. Own \in [N -> Verdicts]
    BY <1>2, <1>3 DEF Own
  <2> QED BY <2>1, GoldInput, SeqDef
<1>5. Loaded.precision = Own \o input.verified /\ Loaded.precision \in Seq(Verdicts)
  <2>1. Own \o input.verified \in Seq(Verdicts)
    BY <1>4, ConcatProperties
  <2>2. Loaded.precision = Own \o input.verified
    BY LoadedIs
  <2> QED BY <2>1, <2>2
<1>6. ASSUME NEW c \in BOOLEAN
      PROVE  given(c) = Within(input.verified, W(c)) /\ loaded(c) = Within(Loaded.precision, W(c))
  <2>1. ASSUME NEW s \in Seq(Verdicts)
        PROVE  {k \in DOMAIN s : s[k].claimed = e /\ s[k].correct = c} = Within(s, W(c))
    <3>1. \A k \in DOMAIN s : s[k] \in Verdicts
      BY LenProperties, ElementOfSeq
    <3> QED BY <3>1 DEF Within
  <2> QED BY <1>4, <1>5, <2>1
<1>7. ASSUME NEW c \in BOOLEAN
      PROVE  /\ Cardinality(loaded(c)) = Cardinality(Within(Own, W(c))) + Cardinality(given(c))
             /\ Cardinality(given(c)) \in Nat
  <2> HIDE DEF W, loaded, given
  <2>1. /\ Cardinality(Within(Own \o input.verified, W(c)))
             = Cardinality(Within(Own, W(c))) + Cardinality(Within(input.verified, W(c)))
        /\ Cardinality(Within(input.verified, W(c))) \in Nat
    BY <1>4, ConcatCount
  <2> QED BY <1>5, <1>6, <2>1
<1>8. e # OutOfScope
  BY DEF ClassificationAssumption, OOS, OutOfScope
<1>9. Cardinality(Within(Own, W(TRUE))) = Cardinality(Right(e))
  <2>1. \A j \in N : Own[j] \in W(TRUE) <=> inc(j) \in Right(e)
    <3> SUFFICES ASSUME NEW j \in N PROVE Own[j] \in W(TRUE) <=> inc(j) \in Right(e)
      OBVIOUS
    <3>1. /\ Own[j] \in Verdicts /\ Own[j].claimed = Claim(inc(j)) /\ inc(j) \in input.certain
          /\ Own[j].correct = TRUE <=> Claim(inc(j)) \in input.labels[inc(j)]
      BY <1>1, <1>3
    <3> HIDE DEF inc, N
    <3> QED BY <3>1 DEF Right
  <2>2. Within(Own, W(TRUE)) = {j \in N : inc(j) \in Right(e)}
    BY <1>2, <2>1 DEF Within
  <2>3. Right(e) \in SUBSET {i \in input.certain : Claim(i) # OutOfScope /\ input.labels[i] # {}}
    BY <1>8 DEF Right
  <2>4. Cardinality({j \in 1 .. Cardinality(Judged) : At(Nth(Judged, j)) \in Right(e)}) = Cardinality(Right(e))
    BY <2>3, OwnCount
  <2> QED BY <2>2, <2>4
<1>10. Cardinality(Within(Own, W(FALSE))) = Cardinality(Mistaken(e))
  <2>1. \A j \in N : Own[j] \in W(FALSE) <=> inc(j) \in Mistaken(e)
    <3> SUFFICES ASSUME NEW j \in N PROVE Own[j] \in W(FALSE) <=> inc(j) \in Mistaken(e)
      OBVIOUS
    <3>1. /\ Own[j] \in Verdicts /\ Own[j].claimed = Claim(inc(j)) /\ inc(j) \in input.certain
          /\ Own[j].correct = FALSE <=> Claim(inc(j)) \notin input.labels[inc(j)]
          /\ input.labels[inc(j)] # {}
      BY <1>1, <1>3
    <3> HIDE DEF inc, N
    <3> QED BY <3>1 DEF Mistaken, Wrong
  <2>2. Within(Own, W(FALSE)) = {j \in N : inc(j) \in Mistaken(e)}
    BY <1>2, <2>1 DEF Within
  <2>3. Mistaken(e) \in SUBSET {i \in input.certain : Claim(i) # OutOfScope /\ input.labels[i] # {}}
    BY <1>8 DEF Mistaken, Wrong
  <2>4. Cardinality({j \in 1 .. Cardinality(Judged) : At(Nth(Judged, j)) \in Mistaken(e)}) = Cardinality(Mistaken(e))
    BY <2>3, OwnCount
  <2> QED BY <2>2, <2>4
<1> QED BY <1>7, <1>9, <1>10

\* A claim that is wrong counts once more only when the record had no label at all.
LEMMA DerivedIs ==
    ASSUME GoldAssumption, ClassificationAssumption, InitGold
    PROVE  /\ Scored(Loaded, {}) = Usable1
           /\ DerivedFalse(Loaded, {})
                = {n \in Usable1 : Claim(At(n)) # OutOfScope /\ input.labels[At(n)] = {}}
<1> DEFINE N == 1 .. Cardinality(Judged)  inc(j) == At(Nth(Judged, j))
           recall == Loaded.recall  precision == Loaded.precision
           clash(n) == \E j \in DOMAIN precision :
                         precision[j].id = At(n) /\ precision[j].claimed = Claim(At(n))
<1>1. DOMAIN recall = Usable1
      /\ \A n \in Usable1 : /\ recall[n].id = At(n) /\ recall[n].true = input.labels[At(n)]
                            /\ recall[n].predicted = Claim(At(n))
  <2>1. recall = Labelled
    BY LoadedIs
  <2> HIDE DEF recall
  <2> QED BY <2>1 DEF Labelled, RecallLabel
<1>2. \A n \in Usable1 : /\ At(n) \in input.certain /\ At(n) \in Nat \ {0}
                         /\ Claim(At(n)) \in Valid /\ Claim(At(n)) # "none"
  <2>1. "none" \notin Valid
    BY DEF Valid, OOS, GoldAssumption
  <2> QED BY <2>1, GoldInput
<1>3. Scored(Loaded, {}) = Usable1
  <2> HIDE DEF recall
  <2>1. Scored(Loaded, {}) = {k \in DOMAIN recall : recall[k].id \notin {} /\ recall[k].predicted # "none"}
    BY DEF Scored, recall
  <2>2. ASSUME NEW k \in Usable1 PROVE recall[k].predicted # "none"
    <3>1. recall[k].predicted = Claim(At(k)) /\ Claim(At(k)) # "none"
      BY <1>1, <1>2
    <3> QED BY <3>1
  <2>3. DOMAIN recall = Usable1
    BY <1>1
  <2> QED BY <2>1, <2>2, <2>3
<1>4. /\ DOMAIN Own = N
      /\ \A j \in N : Own[j].id = inc(j) /\ Own[j].claimed = Claim(inc(j))
  BY DEF Own, PrecisionLabel
<1>5. \A j \in N : inc(j) \in input.certain /\ input.labels[inc(j)] # {}
  <2>1. \A j \in N : Nth(Judged, j) \in Judged
    BY GoldInput, NthIs
  <2>2. \A n \in Judged : At(n) \in input.certain /\ input.labels[At(n)] # {}
    BY GoldInput DEF Judged
  <2> QED BY <2>1, <2>2
<1>6. /\ Own \in Seq(Range(Own) \cup Verdicts) /\ input.verified \in Seq(Range(Own) \cup Verdicts)
      /\ Len(Own) = Cardinality(Judged) /\ Cardinality(Judged) \in Nat
  <2>1. Cardinality(Judged) \in Nat /\ input.verified \in Seq(Verdicts)
    BY GoldInput
  <2>2. Own \in [N -> Range(Own) \cup Verdicts]
    BY DEF Own, Range
  <2>3. Own \in Seq(Range(Own) \cup Verdicts)
    BY <2>1, <2>2, SeqDef
  <2>4. Len(Own) = Cardinality(Judged)
    BY <2>1, <2>2, <2>3, LenProperties
  <2> QED BY <2>1, <2>3, <2>4, SeqMonotonic
<1>7. /\ DOMAIN precision = 1 .. Len(Own) + Len(input.verified)
      /\ Len(input.verified) \in Nat /\ DOMAIN input.verified = 1 .. Len(input.verified)
      /\ \A j \in 1 .. Len(Own) + Len(input.verified) :
           precision[j] = IF j <= Len(Own) THEN Own[j] ELSE input.verified[j - Len(Own)]
  <2>1. precision = Own \o input.verified
    BY LoadedIs
  <2> HIDE DEF precision
  <2> QED BY <1>6, <2>1, ConcatProperties, LenProperties
<1> HIDE DEF precision, recall
<1>8. ASSUME NEW n \in Usable1, Claim(At(n)) # OutOfScope, input.labels[At(n)] # {}
      PROVE  clash(n)
  <2>1. n \in Judged
    BY <1>8 DEF Judged
  <2>2. Upto(Judged, n) \in N /\ Nth(Judged, Upto(Judged, n)) = n
    BY <2>1, GoldInput, UptoOrder, NthIs
  <2> DEFINE j == Upto(Judged, n)
  <2>3. j \in N /\ inc(j) = At(n)
    BY <2>2
  <2> HIDE DEF j
  <2>4. j \in DOMAIN precision /\ precision[j] = Own[j]
    BY <1>6, <1>7, <2>3
  <2> QED BY <1>4, <2>3, <2>4
<1>9. ASSUME NEW n \in Usable1, input.labels[At(n)] = {}
      PROVE  ~clash(n)
  <2> SUFFICES ASSUME NEW j \in DOMAIN precision, precision[j].id = At(n) PROVE FALSE
    OBVIOUS
  <2>1. CASE j <= Len(Own)
    <3>1. j \in N /\ precision[j] = Own[j]
      BY <1>6, <1>7, <2>1
    <3>2. inc(j) = At(n)
      BY <1>4, <3>1
    <3>3. input.labels[inc(j)] # {}
      BY <1>5, <3>1
    <3> QED BY <1>9, <3>2, <3>3
  <2>2. CASE ~(j <= Len(Own))
    <3>1. j - Len(Own) \in DOMAIN input.verified /\ precision[j] = input.verified[j - Len(Own)]
      BY <1>6, <1>7, <2>2
    <3>2. precision[j].id = 0
      BY <3>1, GoldInput
    <3> QED BY <1>2, <3>2
  <2> QED BY <2>1, <2>2
<1>10. DerivedFalse(Loaded, {})
         = {n \in Usable1 : Claim(At(n)) \notin input.labels[At(n)] \cup {OutOfScope} /\ ~clash(n)}
  <2>1. DerivedFalse(Loaded, {}) =
          {k \in Usable1 : /\ recall[k].predicted \notin recall[k].true \cup {OutOfScope}
                           /\ \A j \in DOMAIN precision :
                                ~(precision[j].id = recall[k].id
                                    /\ precision[j].claimed = recall[k].predicted)}
    BY <1>3 DEF DerivedFalse, recall, precision
  <2> QED BY <1>1, <2>1
<1> HIDE DEF clash
<1> QED BY <1>3, <1>8, <1>9, <1>10

\* What the merge counts of each entry.
LEMMA MergeIs ==
    ASSUME GoldAssumption, ClassificationAssumption, InitGold
    PROVE  LET loaded(e, c) == {j \in DOMAIN Loaded.precision :
                                  Loaded.precision[j].claimed = e /\ Loaded.precision[j].correct = c}
               derived(e) == {n \in Usable1 : At(n) \in Baseless(e)}
               true(e) == {i \in input.certain : e \in input.labels[i]}
               truly(e) == {n \in Usable1 : At(n) \in true(e)}
               found(e) == {n \in Usable1 : At(n) \in Right(e)}
               old == BaseTally.precision
               base(c) == IF c \in DOMAIN old THEN old[c] ELSE [tp |-> 0, fp |-> 0]
           IN  \E claimed :
                 /\ \A e \in Entries : e \notin claimed =>
                      loaded(e, TRUE) = {} /\ loaded(e, FALSE) = {} /\ derived(e) = {}
                 /\ DOMAIN Merge.precision = DOMAIN old \cup (claimed \X {GoldStratum})
                 /\ \A c \in DOMAIN Merge.precision :
                      Merge.precision[c] =
                        IF c[2] # GoldStratum \/ c[1] \notin claimed THEN base(c)
                        ELSE [tp |-> base(c).tp + Cardinality(loaded(c[1], TRUE)),
                              fp |-> base(c).fp + Cardinality(loaded(c[1], FALSE))
                                       + Cardinality({k \in DerivedFalse(Loaded, {}) :
                                                        Loaded.recall[k].predicted = c[1]})]
                 /\ \A e \in Entries :
                      {k \in DerivedFalse(Loaded, {}) : Loaded.recall[k].predicted = e} = derived(e)
                 /\ DOMAIN Merge.recall = {e \in Entries : true(e) # {}} \X {GoldStratum}
                 /\ \A c \in DOMAIN Merge.recall :
                      Merge.recall[c] = [tp |-> Cardinality(found(c[1])),
                                         fn |-> Cardinality(truly(c[1]) \ found(c[1]))]
<1> DEFINE
      loaded(e, c) == {j \in DOMAIN Loaded.precision :
                         Loaded.precision[j].claimed = e /\ Loaded.precision[j].correct = c}
      derived(e) == {n \in Usable1 : At(n) \in Baseless(e)}
      true(e) == {i \in input.certain : e \in input.labels[i]}
      truly(e) == {n \in Usable1 : At(n) \in true(e)}
      found(e) == {n \in Usable1 : At(n) \in Right(e)}
      false(e) == {k \in DerivedFalse(Loaded, {}) : Loaded.recall[k].predicted = e}
      claimed == {Loaded.precision[j].claimed : j \in DOMAIN Loaded.precision}
                   \cup {Loaded.recall[k].predicted : k \in DerivedFalse(Loaded, {})}
      old == BaseTally.precision
      base(c) == IF c \in DOMAIN old THEN old[c] ELSE [tp |-> 0, fp |-> 0]
<1> DEFINE MergedBy(some) ==
      /\ \A e \in Entries : e \notin some =>
           loaded(e, TRUE) = {} /\ loaded(e, FALSE) = {} /\ derived(e) = {}
      /\ DOMAIN Merge.precision = DOMAIN old \cup (some \X {GoldStratum})
      /\ \A c \in DOMAIN Merge.precision :
           Merge.precision[c] =
             IF c[2] # GoldStratum \/ c[1] \notin some THEN base(c)
             ELSE [tp |-> base(c).tp + Cardinality(loaded(c[1], TRUE)),
                   fp |-> base(c).fp + Cardinality(loaded(c[1], FALSE)) + Cardinality(false(c[1]))]
      /\ \A e \in Entries : false(e) = derived(e)
      /\ DOMAIN Merge.recall = {e \in Entries : true(e) # {}} \X {GoldStratum}
      /\ \A c \in DOMAIN Merge.recall :
           Merge.recall[c] = [tp |-> Cardinality(found(c[1])), fn |-> Cardinality(truly(c[1]) \ found(c[1]))]
<1> SUFFICES \E some : MergedBy(some)
  OBVIOUS
<1>1. \A n \in Usable1 : /\ Loaded.recall[n].predicted = Claim(At(n))
                         /\ Loaded.recall[n].true = input.labels[At(n)]
                         /\ At(n) \in input.certain
  BY LoadedIs, GoldInput DEF Labelled, RecallLabel
<1>2. Merge = MergeGold(BaseTally, Loaded, {})
  BY DEF Merge, Loaded, Adjudicate, Classifier
<1>3. Scored(Loaded, {}) = Usable1
      /\ DerivedFalse(Loaded, {})
           = {n \in Usable1 : Claim(At(n)) # OutOfScope /\ input.labels[At(n)] = {}}
  BY DerivedIs
<1>4. \A e \in Entries : false(e) = derived(e)
  <2> SUFFICES ASSUME NEW e \in Entries PROVE false(e) = derived(e)
    OBVIOUS
  <2>1. e # OutOfScope
    BY DEF ClassificationAssumption, OOS, OutOfScope
  <2> QED BY <1>1, <1>3, <2>1 DEF Baseless, Wrong
<1>5. ASSUME NEW e \in Entries, e \notin claimed
      PROVE  loaded(e, TRUE) = {} /\ loaded(e, FALSE) = {} /\ derived(e) = {}
  <2>1. loaded(e, TRUE) = {} /\ loaded(e, FALSE) = {} /\ false(e) = {}
    BY <1>5
  <2> QED BY <1>4, <2>1
<1>6. DOMAIN Merge.precision = DOMAIN old \cup (claimed \X {GoldStratum})
  BY <1>2 DEF MergeGold
<1>7. \A c \in DOMAIN Merge.precision :
        Merge.precision[c] =
          IF c[2] # GoldStratum \/ c[1] \notin claimed THEN base(c)
          ELSE [tp |-> base(c).tp + Cardinality(loaded(c[1], TRUE)),
                fp |-> base(c).fp + Cardinality(loaded(c[1], FALSE)) + Cardinality(false(c[1]))]
  <2> DEFINE count(c) ==
        IF c[2] # GoldStratum \/ c[1] \notin claimed THEN base(c)
        ELSE [tp |-> base(c).tp + Cardinality(loaded(c[1], TRUE)),
              fp |-> base(c).fp + Cardinality(loaded(c[1], FALSE)) + Cardinality(false(c[1]))]
  <2>1. Merge.precision = [c \in DOMAIN old \cup (claimed \X {GoldStratum}) |-> count(c)]
    BY <1>2 DEF MergeGold
  <2>2. \A c \in DOMAIN Merge.precision : Merge.precision[c] = count(c)
    <3> HIDE DEF count, claimed, old
    <3> QED BY <2>1
  <2> QED BY <2>2
<1> DEFINE known == UNION {Loaded.recall[k].true : k \in Scored(Loaded, {})}
<1>8. known = {e \in Entries : true(e) # {}}
  <2>1. \A e : e \in known <=> \E n \in Usable1 : e \in input.labels[At(n)]
    BY <1>1, <1>3
  <2>2. \A i \in input.certain : \E n \in Usable1 : At(n) = i
    <3> SUFFICES ASSUME NEW i \in input.certain PROVE \E n \in Usable1 : At(n) = i
      OBVIOUS
    <3>1. Nth(input.certain, Upto(input.certain, i)) = i /\ Upto(input.certain, i) \in Usable1
      BY GoldInput, NthIs, UptoOrder DEF Usable1
    <3> QED BY <3>1 DEF At
  <2>3. \A i \in input.certain : input.labels[i] \subseteq Entries
    BY GoldInput
  <2> HIDE DEF known
  <2> QED BY <1>1, <2>1, <2>2, <2>3
<1> DEFINE was(e) == {k \in Scored(Loaded, {}) : e \in Loaded.recall[k].true}
           hit(e) == {k \in was(e) : Loaded.recall[k].predicted = e}
           share(c) == [tp |-> Cardinality(hit(c[1])), fn |-> Cardinality(was(c[1]) \ hit(c[1]))]
<1>9. Merge.recall = [c \in known \X {GoldStratum} |-> share(c)]
  BY <1>2 DEF MergeGold
<1>10. /\ DOMAIN Merge.recall = known \X {GoldStratum}
       /\ \A c \in DOMAIN Merge.recall :
            Merge.recall[c] = [tp |-> Cardinality(hit(c[1])), fn |-> Cardinality(was(c[1]) \ hit(c[1]))]
  <2>1. /\ DOMAIN Merge.recall = known \X {GoldStratum}
        /\ \A c \in DOMAIN Merge.recall : Merge.recall[c] = share(c)
    <3> HIDE DEF share, known
    <3> QED BY <1>9
  <2> QED BY <2>1
<1>11. \A e : was(e) = truly(e) /\ hit(e) = found(e)
  <2> SUFFICES ASSUME NEW e PROVE was(e) = truly(e) /\ hit(e) = found(e)
    OBVIOUS
  <2>1. was(e) = truly(e)
    BY <1>1, <1>3
  <2>2. hit(e) = found(e)
    BY <1>1, <1>3 DEF Right
  <2> QED BY <2>1, <2>2
<1> HIDE DEF was, hit, truly, found, known, true
<1>12. \A c \in DOMAIN Merge.recall :
         Merge.recall[c] = [tp |-> Cardinality(found(c[1])), fn |-> Cardinality(truly(c[1]) \ found(c[1]))]
  BY <1>10, <1>11
<1>13. DOMAIN Merge.recall = {e \in Entries : true(e) # {}} \X {GoldStratum}
  BY <1>8, <1>10
<1> HIDE DEF claimed, loaded, derived, false, base, old
<1>14. \A e \in Entries : e \notin claimed =>
         loaded(e, TRUE) = {} /\ loaded(e, FALSE) = {} /\ derived(e) = {}
  BY <1>5
<1>15. MergedBy(claimed)
  BY <1>4, <1>6, <1>7, <1>12, <1>13, <1>14
<1> HIDE DEF MergedBy
<1> QED BY <1>15

LEMMA GoldRule ==
    ASSUME GoldAssumption, ClassificationAssumption, InitGold, rule = "gold", done, result = Merge
    PROVE  GoldScoresTheClassifier
<1> DEFINE
      right(e) == {k \in DOMAIN input.verified :
                     input.verified[k].claimed = e /\ input.verified[k].correct = TRUE}
      wrong(e) == {k \in DOMAIN input.verified :
                     input.verified[k].claimed = e /\ input.verified[k].correct = FALSE}
      good(e) == {j \in DOMAIN Loaded.precision :
                    Loaded.precision[j].claimed = e /\ Loaded.precision[j].correct = TRUE}
      bad(e) == {j \in DOMAIN Loaded.precision :
                   Loaded.precision[j].claimed = e /\ Loaded.precision[j].correct = FALSE}
      derived(e) == {n \in Usable1 : At(n) \in Baseless(e)}
      true(e) == {i \in input.certain : e \in input.labels[i]}
      truly(e) == {n \in Usable1 : At(n) \in true(e)}
      found(e) == {n \in Usable1 : At(n) \in Right(e)}
      old == BaseTally.precision
      base(c) == IF c \in DOMAIN old THEN old[c] ELSE [tp |-> 0, fp |-> 0]
      hits(e) == {i \in input.certain : input.claim[i] = e /\ (e \in input.labels[i]) = TRUE}
      misses(e) == {i \in input.certain : input.claim[i] = e /\ (e \in input.labels[i]) = FALSE}
      tp(e) == Cardinality(hits(e)) + Cardinality(right(e))
      fp(e) == Cardinality(misses(e)) + Cardinality(wrong(e))
      precision(c) == [tp |-> base(c).tp + tp(c[1]), fp |-> base(c).fp + fp(c[1])]
<1>1. PICK claimed :
        /\ \A e \in Entries : e \notin claimed =>
             good(e) = {} /\ bad(e) = {} /\ derived(e) = {}
        /\ DOMAIN Merge.precision = DOMAIN old \cup (claimed \X {GoldStratum})
        /\ \A c \in DOMAIN Merge.precision :
             Merge.precision[c] =
               IF c[2] # GoldStratum \/ c[1] \notin claimed THEN base(c)
               ELSE [tp |-> base(c).tp + Cardinality(good(c[1])),
                     fp |-> base(c).fp + Cardinality(bad(c[1]))
                              + Cardinality({k \in DerivedFalse(Loaded, {}) :
                                               Loaded.recall[k].predicted = c[1]})]
        /\ \A e \in Entries :
             {k \in DerivedFalse(Loaded, {}) : Loaded.recall[k].predicted = e} = derived(e)
        /\ DOMAIN Merge.recall = {e \in Entries : true(e) # {}} \X {GoldStratum}
        /\ \A c \in DOMAIN Merge.recall :
             Merge.recall[c] = [tp |-> Cardinality(found(c[1])),
                                fn |-> Cardinality(truly(c[1]) \ found(c[1]))]
  BY MergeIs
<1>2. ASSUME NEW e \in Entries
      PROVE  hits(e) = Right(e) /\ misses(e) = Wrong(e)
  <2>1. \A i \in input.certain : Claim(i) = e <=> input.claim[i] = e
    BY GoldInput
  <2>2. hits(e) = Right(e)
    BY <2>1 DEF Right
  <2>3. misses(e) = Wrong(e)
    BY <2>1 DEF Wrong
  <2> QED BY <2>2, <2>3
<1>3. ASSUME NEW e \in Entries
      PROVE  /\ Cardinality(good(e)) = tp(e)
             /\ Cardinality(bad(e)) + Cardinality(derived(e)) = fp(e)
             /\ Cardinality(good(e)) \in Nat /\ Cardinality(bad(e)) \in Nat
             /\ Cardinality(derived(e)) \in Nat
  <2>1. /\ Cardinality(good(e)) = Cardinality(Right(e)) + Cardinality(right(e))
        /\ Cardinality(bad(e)) = Cardinality(Mistaken(e)) + Cardinality(wrong(e))
        /\ Cardinality(right(e)) \in Nat /\ Cardinality(wrong(e)) \in Nat
    BY VerdictCount
  <2>2. /\ Right(e) \in SUBSET input.certain /\ Mistaken(e) \in SUBSET input.certain
        /\ Baseless(e) \in SUBSET input.certain /\ IsFiniteSet(input.certain)
    BY GoldInput DEF Right, Mistaken, Baseless, Wrong
  <2>3. Cardinality(derived(e)) = Cardinality(Baseless(e))
    BY <2>2, LabelledCount
  <2>4. /\ Cardinality(Right(e)) \in Nat
        /\ IsFiniteSet(Mistaken(e)) /\ Cardinality(Mistaken(e)) \in Nat
        /\ IsFiniteSet(Baseless(e)) /\ Cardinality(Baseless(e)) \in Nat
    BY <2>2, CountSubset
  <2>5. Wrong(e) = Mistaken(e) \cup Baseless(e) /\ Mistaken(e) \cap Baseless(e) = {}
    BY DEF Mistaken, Baseless
  <2>6. Cardinality(Wrong(e)) = Cardinality(Mistaken(e)) + Cardinality(Baseless(e))
    BY <2>4, <2>5, CountUnion
  <2>7. /\ tp(e) = Cardinality(Right(e)) + Cardinality(right(e))
        /\ fp(e) = Cardinality(Wrong(e)) + Cardinality(wrong(e))
    BY <1>2
  <2> HIDE DEF tp, fp, right, wrong, good, bad, derived
  <2> QED BY <2>1, <2>3, <2>4, <2>6, <2>7
<1>4. \A c \in DOMAIN old : old[c].tp \in Nat /\ old[c].fp \in Nat /\ c = <<c[1], c[2]>>
                              /\ old[c] = [tp |-> old[c].tp, fp |-> old[c].fp]
  BY DEF GoldAssumption
<1>5. ASSUME NEW e \in Entries
      PROVE  LET c == <<e, GoldStratum>>
             IN  IF c \in DOMAIN Merge.precision THEN Merge.precision[c] = precision(c)
                 ELSE precision(c) = [tp |-> 0, fp |-> 0]
  <2> DEFINE c == <<e, GoldStratum>>
  <2>1. base(c).tp \in Nat /\ base(c).fp \in Nat /\ base(c) = [tp |-> base(c).tp, fp |-> base(c).fp]
    BY <1>4
  <2>2. precision(c) = [tp |-> base(c).tp + tp(e), fp |-> base(c).fp + fp(e)]
    OBVIOUS
  <2>3. e \notin claimed => tp(e) = 0 /\ fp(e) = 0
    <3> SUFFICES ASSUME e \notin claimed PROVE tp(e) = 0 /\ fp(e) = 0
      OBVIOUS
    <3>1. good(e) = {} /\ bad(e) = {} /\ derived(e) = {}
      BY <1>1
    <3>2. /\ Cardinality(good(e)) = tp(e)
          /\ Cardinality(bad(e)) + Cardinality(derived(e)) = fp(e)
      BY <1>3
    <3> HIDE DEF good, bad, derived, tp, fp
    <3> QED BY <3>1, <3>2, FS_EmptySet
  <2>4. c \in DOMAIN Merge.precision /\ e \in claimed =>
          Merge.precision[c] = [tp |-> base(c).tp + Cardinality(good(e)),
                                fp |-> base(c).fp + Cardinality(bad(e)) + Cardinality(derived(e))]
    <3> DEFINE claims(d) == {k \in DerivedFalse(Loaded, {}) : Loaded.recall[k].predicted = d}
    <3>1. claims(e) = derived(e)
      BY <1>1
    <3>2. \A d \in DOMAIN Merge.precision :
            Merge.precision[d] =
              IF d[2] # GoldStratum \/ d[1] \notin claimed THEN base(d)
              ELSE [tp |-> base(d).tp + Cardinality(good(d[1])),
                    fp |-> base(d).fp + Cardinality(bad(d[1])) + Cardinality(claims(d[1]))]
      BY <1>1
    <3>3. c[1] = e /\ c[2] = GoldStratum
      OBVIOUS
    <3> HIDE DEF good, bad, derived, base, claims, c
    <3>4. c \in DOMAIN Merge.precision /\ e \in claimed =>
            Merge.precision[c] = [tp |-> base(c).tp + Cardinality(good(e)),
                                  fp |-> base(c).fp + Cardinality(bad(e)) + Cardinality(claims(e))]
      BY <3>2, <3>3
    <3> QED BY <3>1, <3>4
  <2>5. c \in DOMAIN Merge.precision /\ e \notin claimed => Merge.precision[c] = base(c)
    <3> HIDE DEF good, bad, derived, base, old
    <3> QED BY <1>1
  <2>6. c \notin DOMAIN Merge.precision => e \notin claimed /\ base(c) = [tp |-> 0, fp |-> 0]
    <3>1. DOMAIN Merge.precision = DOMAIN old \cup (claimed \X {GoldStratum})
      BY <1>1
    <3>2. c \notin DOMAIN Merge.precision => e \notin claimed /\ c \notin DOMAIN old
      BY <3>1
    <3>3. c \notin DOMAIN old => base(c) = [tp |-> 0, fp |-> 0]
      OBVIOUS
    <3> QED BY <3>2, <3>3
  <2>7. /\ Cardinality(good(e)) = tp(e)
        /\ Cardinality(bad(e)) + Cardinality(derived(e)) = fp(e)
        /\ Cardinality(good(e)) \in Nat /\ Cardinality(bad(e)) \in Nat
        /\ Cardinality(derived(e)) \in Nat
    BY <1>3
  <2> HIDE DEF good, bad, derived, tp, fp, base, precision, c
  <2>8. CASE e \notin claimed
    <3>1. precision(c) = base(c)
      BY <2>1, <2>2, <2>3, <2>8
    <3> QED BY <2>5, <2>6, <2>8, <3>1 DEF c
  <2>9. CASE e \in claimed
    <3>1. c \in DOMAIN Merge.precision
      BY <2>6, <2>9
    <3>2. base(c).fp + Cardinality(bad(e)) + Cardinality(derived(e))
            = base(c).fp + fp(e)
      BY <2>1, <2>7
    <3>3. Merge.precision[c] = precision(c)
      BY <2>2, <2>4, <2>7, <2>9, <3>1, <3>2
    <3> QED BY <3>1, <3>3 DEF c
  <2> QED BY <2>8, <2>9
<1>6. ASSUME NEW c \in DOMAIN old, c[2] # GoldStratum PROVE Merge.precision[c] = old[c]
  <2>1. c \in DOMAIN Merge.precision /\ base(c) = old[c]
    BY <1>1
  <2> HIDE DEF good, bad, derived, base, old
  <2> QED BY <1>1, <1>6, <2>1
<1>7. ASSUME NEW c \in DOMAIN Merge.recall
      PROVE  Merge.recall[c] = [tp |-> Cardinality(hits(c[1])),
                                fn |-> Cardinality(true(c[1])) - Cardinality(hits(c[1]))]
  <2> DEFINE e == c[1]
  <2>1. e \in Entries
    BY <1>1
  <2>2. Merge.recall[c] = [tp |-> Cardinality(found(e)), fn |-> Cardinality(truly(e) \ found(e))]
    BY <1>1
  <2>3. /\ Right(e) \in SUBSET input.certain /\ true(e) \in SUBSET input.certain
        /\ true(e) \ Right(e) \in SUBSET input.certain /\ IsFiniteSet(input.certain)
        /\ true(e) = Right(e) \cup (true(e) \ Right(e))
    BY GoldInput DEF Right
  <2>4. truly(e) \ found(e) = {n \in Usable1 : At(n) \in true(e) \ Right(e)}
    OBVIOUS
  <2> HIDE DEF true
  <2>5. Cardinality(found(e)) = Cardinality(Right(e))
    BY <2>3, LabelledCount
  <2>6. Cardinality({n \in Usable1 : At(n) \in true(e) \ Right(e)}) = Cardinality(true(e) \ Right(e))
    BY <2>3, LabelledCount
  <2>7. /\ IsFiniteSet(Right(e)) /\ Cardinality(Right(e)) \in Nat
        /\ IsFiniteSet(true(e) \ Right(e)) /\ Cardinality(true(e) \ Right(e)) \in Nat
    BY <2>3, CountSubset
  <2>8. Cardinality(true(e)) = Cardinality(Right(e)) + Cardinality(true(e) \ Right(e))
    <3> DEFINE X == Right(e)  Y == true(e) \ Right(e)
    <3>1. X \cap Y = {} /\ IsFiniteSet(X) /\ IsFiniteSet(Y)
      BY <2>7
    <3> HIDE DEF X, Y
    <3>2. Cardinality(X \cup Y) = Cardinality(X) + Cardinality(Y)
      BY <3>1, CountUnion
    <3> QED BY <2>3, <3>2 DEF X, Y
  <2>9. hits(e) = Right(e)
    BY <1>2, <2>1
  <2>10. Cardinality(found(e)) = Cardinality(hits(e))
    BY <2>5, <2>9
  <2>11. Cardinality(truly(e) \ found(e)) = Cardinality(true(e) \ Right(e))
    BY <2>4, <2>6
  <2> DEFINE missed == Cardinality(truly(e) \ found(e))
             caught == Cardinality(found(e))
             all == Cardinality(true(e))
             hit == Cardinality(hits(e))
  <2>12. missed = all - hit /\ caught = hit
    <3> DEFINE a == Cardinality(Right(e))  b == Cardinality(true(e) \ Right(e))
    <3>1. a \in Nat /\ b \in Nat /\ all = a + b /\ missed = b /\ hit = a /\ caught = hit
      BY <2>7, <2>8, <2>9, <2>10, <2>11
    <3> HIDE DEF a, b, all, missed, hit, caught
    <3> QED BY <3>1
  <2>13. Merge.recall[c] = [tp |-> caught, fn |-> missed]
    BY <2>2
  <2> HIDE DEF all, missed, hit, caught
  <2>14. Merge.recall[c] = [tp |-> hit, fn |-> all - hit]
    BY <2>12, <2>13
  <2> QED BY <2>14 DEF all, hit
<1>8. DOMAIN Merge.recall = {e \in Entries : true(e) # {}} \X {GoldStratum}
  BY <1>1
<1> HIDE DEF old, true, hits, misses, precision
<1> QED BY <1>5, <1>6, <1>7, <1>8
      DEF GoldScoresTheClassifier, old, true, hits, misses, precision, tp, fp, right, wrong, base

\* The gold stratum scores the classifier, for any labels, claims and verdicts.
THEOREM GoldScores == Spec => []GoldScoresTheClassifier
<1>1. RuleInv => GoldScoresTheClassifier
  <2> SUFFICES ASSUME RuleInv, rule = "gold", done PROVE GoldScoresTheClassifier
    BY DEF GoldScoresTheClassifier
  <2>1. InitGold
    BY PickedFor DEF RuleInv
  <2> QED BY <2>1, GoldRule, GoldAssumption, ClassificationAssumption DEF RuleInv, Applied
<1> QED BY <1>1, RuleIsApplied, PTL

-----------------------------------------------------------------------------
(* The overlap of the two corpora *)

\* What detect_overlaps does with record n of corpus B after found.
Matched(a, b, n, found) ==
    LET c == Candidates(a, b[n], {m.a : m \in found}, SharedWords)
    IN  IF c.of = {} THEN found ELSE found \cup {[a |-> Min(c.of), b |-> n, by |-> c.by]}

\* The matches after each record of corpus B.
Matches(a, b, after) ==
    after = [n \in 0 .. Len(b) |-> IF n = 0 THEN {} ELSE Matched(a, b, n, after[n - 1])]

LEMMA MatchesExist ==
    ASSUME NEW a, NEW b, Len(b) \in Nat
    PROVE  \E after : Matches(a, b, after)
<1> DEFINE UpTo(n, c) == c = [k \in 0 .. n |-> IF k = 0 THEN {} ELSE Matched(a, b, k, c[k - 1])]
           Ok == {n \in Nat : \E c : UpTo(n, c)}
<1>1. 0 \in Ok
  <2>1. UpTo(0, [k \in 0 .. 0 |-> {}])
    OBVIOUS
  <2>2. \E c : UpTo(0, c)
    BY <2>1
  <2> HIDE DEF UpTo
  <2> QED BY <2>2
<1>2. ASSUME NEW n \in Ok PROVE n + 1 \in Ok
  <2>1. n \in Nat /\ n + 1 \in Nat
    OBVIOUS
  <2>2. PICK c : UpTo(n, c)
    OBVIOUS
  <2> DEFINE more == [k \in 0 .. n + 1 |-> IF k = 0 THEN {} ELSE Matched(a, b, k, c[k - 1])]
  <2>3. \A k \in 0 .. n : more[k] = c[k]
    <3> TAKE k \in 0 .. n
    <3>1. c[k] = IF k = 0 THEN {} ELSE Matched(a, b, k, c[k - 1])
      BY <2>2
    <3>2. k \in 0 .. n + 1
      BY <2>1
    <3> QED BY <3>1, <3>2
  <2>4. \A k \in 0 .. n + 1 : k # 0 => k - 1 \in 0 .. n
    BY <2>1
  <2>5. \A k \in 0 .. n + 1 : k # 0 => c[k - 1] = more[k - 1]
    BY <2>3, <2>4
  <2>6. UpTo(n + 1, more)
    BY <2>5
  <2>7. \E d : UpTo(n + 1, d)
    <3> HIDE DEF UpTo
    <3> QED BY <2>6
  <2> HIDE DEF UpTo
  <2> QED BY <2>1, <2>7
<1>3. Nat \subseteq Ok
  <2> HIDE DEF Ok
  <2> QED BY <1>1, <1>2, AllNumbers
<1>4. Len(b) \in Ok
  BY <1>3
<1> QED BY <1>4 DEF Matches

LEMMA OverlapsAre ==
    ASSUME NEW a, NEW b, Len(b) \in Nat
    PROVE  \E after : Matches(a, b, after) /\ Overlaps(a, b, SharedWords) = after[Len(b)]
<1>1. Overlaps(a, b, SharedWords) = (CHOOSE after : Matches(a, b, after))[Len(b)]
  BY DEF Overlaps, Matches, Matched
<1> QED BY <1>1, MatchesExist

LEMMA TransformKeeps ==
    ASSUME NEW raw, NEW categories
    PROVE  Transform(raw, categories).words = raw.words /\ Transform(raw, categories).id = raw.id
<1> DEFINE severity == IF raw.severity = "Medium" /\ raw.quality # "curated"
                       THEN "unknown" ELSE raw.severity
           class == IF raw.category \in DOMAIN categories
                    THEN categories[raw.category] ELSE "advisory"
           quality == IF raw.quality \in {"curated", "reviewed"} THEN raw.quality ELSE "auto"
           url == IF raw.references = <<>> THEN "" ELSE Head(raw.references)
<1>1. Transform(raw, categories)
        = [id |-> raw.id, stratum |-> raw.corpus, native |-> raw.owasp_llm,
           words |-> raw.words, cves |-> raw.cves, severity |-> severity,
           class |-> class, quality |-> quality, url |-> url]
  BY DEF Transform
<1> HIDE DEF severity, class, quality, url
<1> QED BY <1>1

\* Corpus A as it reaches the rule: each incident is a record from no later
\* than the snapshot.
LEMMA CorpusAIs ==
    ASSUME CorpusAssumption, InitOverlap
    PROVE  \E n \in Nat : /\ DOMAIN CorpusA = 1 .. n
                          /\ \A k \in 1 .. n : /\ IsFiniteSet(CorpusA[k].words)
                                               /\ \E r \in Range(input.a) :
                                                    r.id = CorpusA[k].id /\ r.date <= Snapshot
<1> DEFINE K == {k \in DOMAIN input.a : input.a[k].date <= Snapshot}
           n == Cardinality(K)
<1>1. input.a \in SecurityRecords /\ input.a \in Seq(Range(input.a))
  BY DEF InitOverlap, CorpusAssumption
<1>2. DOMAIN input.a = 1 .. Len(input.a) /\ Len(input.a) \in Nat
  BY <1>1, LenProperties
<1>3. K \in SUBSET Int /\ IsFiniteSet(K) /\ n \in Nat
  <2>1. IsFiniteSet(1 .. Len(input.a))
    BY <1>2, CountUpTo
  <2> QED BY <1>2, <2>1, CountSubset
<1>4. \A k \in 1 .. n : Nth(K, k) \in K
  BY <1>3, NthIs
<1> DEFINE dated == [k \in 1 .. n |-> input.a[Nth(K, k)]]
<1>5. CorpusA = [k \in 1 .. n |-> Transform(dated[k], [report |-> "advisory"])]
  BY DEF CorpusA, Incidents, Kept
<1>6. ASSUME NEW k \in 1 .. n
      PROVE  /\ CorpusA[k].words = input.a[Nth(K, k)].words
             /\ CorpusA[k].id = input.a[Nth(K, k)].id
             /\ input.a[Nth(K, k)] \in Range(input.a)
             /\ input.a[Nth(K, k)].date <= Snapshot
  <2>1. CorpusA[k] = Transform(input.a[Nth(K, k)], [report |-> "advisory"])
    BY <1>5
  <2>2. Nth(K, k) \in DOMAIN input.a /\ input.a[Nth(K, k)].date <= Snapshot
    BY <1>4
  <2> HIDE DEF K
  <2>3. input.a[Nth(K, k)] \in Range(input.a)
    BY <2>2 DEF Range
  <2>4. CorpusA[k].words = input.a[Nth(K, k)].words /\ CorpusA[k].id = input.a[Nth(K, k)].id
    BY <2>1, TransformKeeps
  <2> QED BY <2>2, <2>3, <2>4
<1>7. \A k \in 1 .. n : IsFiniteSet(CorpusA[k].words)
  BY <1>1, <1>6 DEF CorpusAssumption
<1>8. DOMAIN CorpusA = 1 .. n
  BY <1>5
<1> HIDE DEF K, n, dated
<1> QED BY <1>3, <1>6, <1>7, <1>8

LEMMA CorpusBIs ==
    ASSUME CorpusAssumption, InitOverlap
    PROVE  Len(CorpusB) \in Nat /\ DOMAIN CorpusB = 1 .. Len(CorpusB)
<1> DEFINE lines == input.b
           K == {k \in DOMAIN lines : lines[k].kind = "row"
                                        /\ \E h \in {j \in DOMAIN lines : lines[j].kind = "header"} : h < k}
           n == Cardinality(K)
           record(k) == [id |-> k, url |-> Kept(lines, K)[k].url, cves |-> Kept(lines, K)[k].cves,
                         words |-> Kept(lines, K)[k].words]
<1>1. input.b \in TableLines /\ lines \in Seq(Range(lines))
  BY DEF InitOverlap, CorpusAssumption
<1>2. DOMAIN lines = 1 .. Len(lines) /\ Len(lines) \in Nat
  BY <1>1, LenProperties
<1>3. n \in Nat
  <2>1. IsFiniteSet(1 .. Len(lines))
    BY <1>2, CountUpTo
  <2>2. K \in SUBSET (1 .. Len(lines))
    BY <1>2
  <2> HIDE DEF K, lines
  <2> QED BY <2>1, <2>2, CountSubset
<1>4. CorpusB = [k \in 1 .. n |-> record(k)]
  BY DEF CorpusB, TableRows, Kept
<1> HIDE DEF n, record
<1>5. CorpusB \in Seq({record(k) : k \in 1 .. n})
  BY <1>3, <1>4, SeqDef
<1> QED BY <1>5, LenProperties

\* The last of a set of places.
LastOf(k, J) == k \in J /\ \A j \in J : j <= k

\* The places in a with the link of the record r, and with a CVE.
Linked(a, r) == {j \in DOMAIN a : a[j].url = r.url}
Naming(a, c) == {j \in DOMAIN a : c \in a[j].cves}

HasLink(r) == r.url # ""

\* Place k of corpus A has a link, a CVE or words in common with the record r
\* of corpus B and no later place hides it.
Offers(a, r, k) ==
    \/ HasLink(r) /\ LastOf(k, Linked(a, r))
    \/ \E c \in r.cves : LastOf(k, Naming(a, c))
    \/ Cardinality(a[k].words \cap r.words) >= SharedWords

LEMMA HolderIs ==
    ASSUME NEW n \in Nat, NEW J \in SUBSET (1 .. n)
    PROVE  /\ Holder(J) # 0 => LastOf(Holder(J), J)
           /\ \A k : LastOf(k, J) => Holder(J) = k /\ k # 0
<1>1. CASE J = {}
  BY <1>1 DEF Holder, LastOf
<1>2. CASE J # {}
  <2>1. J \in SUBSET Nat /\ IsFiniteSet(J)
    <3>1. IsFiniteSet(1 .. n)
      BY CountUpTo
    <3>2. J \in SUBSET Nat
      OBVIOUS
    <3> QED BY <3>1, <3>2, CountSubset
  <2>2. Holder(J) = Max(J)
    BY <1>2 DEF Holder
  <2>3. LastOf(Max(J), J)
    BY <1>2, <2>1, MaxIs DEF LastOf
  <2>4. ASSUME NEW k, LastOf(k, J) PROVE Max(J) = k /\ k # 0
    <3>1. k \in J /\ Max(J) \in J /\ k <= Max(J) /\ Max(J) <= k
      BY <2>3, <2>4 DEF LastOf
    <3>2. k \in 1 .. n /\ Max(J) \in 1 .. n
      BY <3>1
    <3> QED BY <3>1, <3>2
  <2> QED BY <2>2, <2>3, <2>4
<1> QED BY <1>1, <1>2

\* What a record may take is free and offered, and nothing that is free is
\* offered when it may take nothing.
FreeAndOffered(of, a, r, taken) ==
    /\ of \subseteq DOMAIN a \ taken
    /\ \A k \in of : Offers(a, r, k)
    /\ of = {} => \A k \in DOMAIN a : Offers(a, r, k) => k \in taken

LEMMA CandidatesAre ==
    ASSUME CorpusAssumption, NEW n \in Nat, NEW a, DOMAIN a = 1 .. n,
           \A k \in 1 .. n : IsFiniteSet(a[k].words), NEW r, NEW taken
    PROVE  FreeAndOffered(Candidates(a, r, taken, SharedWords).of, a, r, taken)
<1> DEFINE free(k) == k # 0 /\ k \notin taken
           link == {k \in {Holder(Linked(a, r))} : HasLink(r) /\ free(k)}
           cves == {k \in {Holder(Naming(a, c)) : c \in r.cves} : free(k)}
           words(k) == Cardinality(a[k].words \cap r.words)
           rich == {k \in DOMAIN a \ taken : words(k) >= SharedWords}
           best == {k \in rich : \A j \in rich :
                      words(j) < words(k) \/ (words(j) = words(k) /\ k <= j)}
           of == Candidates(a, r, taken, SharedWords).of
<1>1. of = IF link # {} THEN link ELSE IF cves # {} THEN cves ELSE best
  BY DEF Candidates, Linked, Naming, HasLink
<1>2. Linked(a, r) \in SUBSET (1 .. n) /\ \A c : Naming(a, c) \in SUBSET (1 .. n)
  BY DEF Linked, Naming
<1>3. ASSUME NEW k \in link PROVE k \in DOMAIN a \ taken /\ Offers(a, r, k)
  <2>1. k = Holder(Linked(a, r)) /\ HasLink(r) /\ k # 0 /\ k \notin taken
    OBVIOUS
  <2>2. LastOf(k, Linked(a, r))
    BY <1>2, <2>1, HolderIs
  <2> QED BY <1>2, <2>1, <2>2 DEF LastOf, Offers
<1>4. ASSUME NEW k \in cves PROVE k \in DOMAIN a \ taken /\ Offers(a, r, k)
  <2>1. PICK c \in r.cves : k = Holder(Naming(a, c)) /\ k # 0 /\ k \notin taken
    OBVIOUS
  <2>2. Naming(a, c) \in SUBSET (1 .. n)
    BY <1>2
  <2>3. LastOf(k, Naming(a, c))
    BY <2>1, <2>2, HolderIs
  <2> QED BY <2>1, <2>2, <2>3 DEF LastOf, Offers
<1>5. ASSUME NEW k \in best PROVE k \in DOMAIN a \ taken /\ Offers(a, r, k)
  <2>1. k \in DOMAIN a \ taken /\ words(k) >= SharedWords
    OBVIOUS
  <2> QED BY <2>1 DEF Offers
<1>6. ASSUME link = {}, cves = {}, best = {}, NEW k \in DOMAIN a, Offers(a, r, k)
      PROVE  k \in taken
  <2> SUFFICES ASSUME k \notin taken PROVE FALSE
    OBVIOUS
  <2>1. CASE HasLink(r) /\ LastOf(k, Linked(a, r))
    <3>1. Holder(Linked(a, r)) = k /\ k # 0
      BY <1>2, <2>1, HolderIs
    <3>2. k \in link
      BY <2>1, <3>1
    <3> QED BY <1>6, <3>2
  <2>2. CASE \E c \in r.cves : LastOf(k, Naming(a, c))
    <3>1. PICK c \in r.cves : LastOf(k, Naming(a, c))
      BY <2>2
    <3>2. Naming(a, c) \in SUBSET (1 .. n)
      BY <1>2
    <3>3. Holder(Naming(a, c)) = k /\ k # 0
      BY <3>1, <3>2, HolderIs
    <3>4. k \in cves
      BY <3>3
    <3> QED BY <1>6, <3>4
  <2>3. CASE words(k) >= SharedWords
    <3> DEFINE w == [j \in rich |-> words(j)]
    <3>1. k \in rich /\ rich \in SUBSET (1 .. n)
      BY <2>3
    <3>2. rich \in SUBSET Nat /\ IsFiniteSet(rich) /\ rich # {}
      <4>1. IsFiniteSet(1 .. n)
        BY CountUpTo
      <4> HIDE DEF rich
      <4> QED BY <3>1, <4>1, CountSubset
    <3>3. ASSUME NEW j \in rich PROVE w[j] \in Nat
      <4>1. IsFiniteSet(a[j].words) /\ a[j].words \cap r.words \in SUBSET a[j].words
        OBVIOUS
      <4>2. words(j) \in Nat
        BY <4>1, CountSubset
      <4> QED BY <4>2
    <3> HIDE DEF rich, words
    <3>4. PICK top \in rich : \A j \in rich : NoWorse(w, top, j)
      <4> HIDE DEF w
      <4> QED BY <3>2, <3>3, BestOf
    <3>5. \A j \in rich : words(j) < words(top) \/ (words(j) = words(top) /\ top <= j)
      BY <3>4 DEF NoWorse
    <3>6. top \in best
      BY <3>5
    <3> QED BY <1>6, <3>6
  <2> QED BY <1>6, <2>1, <2>2, <2>3 DEF Offers
<1> HIDE DEF link, cves, best
<1> QED BY <1>1, <1>3, <1>4, <1>5, <1>6 DEF FreeAndOffered

\* The matches found are pairs, and each was offered; who is left over has
\* nothing free that is offered.
PairedUpTo(a, b, n, found) ==
    /\ \A m \in found : m.a \in DOMAIN a /\ m.b \in 1 .. n /\ Offers(a, b[m.b], m.a)
    /\ \A m, o \in found : m.a = o.a \/ m.b = o.b => m = o
    /\ \A j \in 1 .. n : j \notin {m.b : m \in found} =>
         \A k \in DOMAIN a : Offers(a, b[j], k) => k \in {m.a : m \in found}

LEMMA MatchedPairs ==
    ASSUME CorpusAssumption, NEW n \in Nat, NEW a, DOMAIN a = 1 .. n,
           \A k \in 1 .. n : IsFiniteSet(a[k].words),
           NEW b, NEW i \in Nat, NEW found, PairedUpTo(a, b, i, found)
    PROVE  PairedUpTo(a, b, i + 1, Matched(a, b, i + 1, found))
<1> DEFINE taken == {m.a : m \in found}
           next == Candidates(a, b[i + 1], taken, SharedWords)
           new == [a |-> Min(next.of), b |-> i + 1, by |-> next.by]
           more == Matched(a, b, i + 1, found)
<1>1. /\ next.of \subseteq DOMAIN a \ taken
      /\ \A k \in next.of : Offers(a, b[i + 1], k)
      /\ next.of = {} => \A k \in DOMAIN a : Offers(a, b[i + 1], k) => k \in taken
  <2> HIDE DEF taken
  <2>1. FreeAndOffered(next.of, a, b[i + 1], taken)
    BY CandidatesAre
  <2> HIDE DEF next
  <2> QED BY <2>1 DEF FreeAndOffered
<1>2. more = IF next.of = {} THEN found ELSE found \cup {new}
  BY DEF Matched
<1>3. /\ \A m \in found : m.a \in DOMAIN a /\ m.b \in 1 .. i /\ Offers(a, b[m.b], m.a)
      /\ \A m, o \in found : m.a = o.a \/ m.b = o.b => m = o
      /\ \A j \in 1 .. i : j \notin {m.b : m \in found} =>
           \A k \in DOMAIN a : Offers(a, b[j], k) => k \in taken
  BY DEF PairedUpTo
<1>4. 1 .. i \subseteq 1 .. i + 1 /\ i + 1 \in 1 .. i + 1 /\ i + 1 \notin 1 .. i
      /\ \A j \in 1 .. i + 1 : j \in 1 .. i \/ j = i + 1
  OBVIOUS
<1>5. CASE next.of = {}
  <2>1. more = found
    BY <1>2, <1>5
  <2> HIDE DEF next, more
  <2>2. \A m \in more : m.a \in DOMAIN a /\ m.b \in 1 .. i + 1 /\ Offers(a, b[m.b], m.a)
    BY <1>3, <1>4, <2>1
  <2>3. \A m, o \in more : m.a = o.a \/ m.b = o.b => m = o
    BY <1>3, <2>1
  <2>4. \A k \in DOMAIN a : Offers(a, b[i + 1], k) => k \in taken
    BY <1>1, <1>5
  <2>5. \A j \in 1 .. i + 1 : j \notin {m.b : m \in more} =>
          \A k \in DOMAIN a : Offers(a, b[j], k) => k \in {m.a : m \in more}
    BY <1>3, <1>4, <2>1, <2>4
  <2> HIDE DEF taken
  <2> QED BY <2>2, <2>3, <2>5 DEF PairedUpTo, more
<1>6. CASE next.of # {}
  <2>1. Min(next.of) \in next.of
    <3> HIDE DEF next
    <3>1. next.of \in SUBSET Nat
      BY <1>1
    <3> QED BY <1>6, <3>1, LeastIs
  <2>2. new.a \in DOMAIN a /\ new.a \notin taken /\ new.b = i + 1 /\ Offers(a, b[i + 1], new.a)
    BY <1>1, <2>1
  <2>3. more = found \cup {new}
    BY <1>2, <1>6
  <2> HIDE DEF next, new, more
  <2>4. \A m \in more : m.a \in DOMAIN a /\ m.b \in 1 .. i + 1 /\ Offers(a, b[m.b], m.a)
    BY <1>3, <1>4, <2>2, <2>3
  <2>5. \A m \in found : m.a # new.a /\ m.b # new.b
    BY <1>3, <1>4, <2>2
  <2>6. \A m, o \in more : m.a = o.a \/ m.b = o.b => m = o
    BY <1>3, <2>3, <2>5
  <2>7. taken \subseteq {m.a : m \in more} /\ {m.b : m \in more} = {m.b : m \in found} \cup {i + 1}
    BY <2>2, <2>3
  <2>8. \A j \in 1 .. i + 1 : j \notin {m.b : m \in more} =>
          \A k \in DOMAIN a : Offers(a, b[j], k) => k \in {m.a : m \in more}
    BY <1>3, <1>4, <2>7
  <2> QED BY <2>4, <2>6, <2>8 DEF PairedUpTo, more
<1> QED BY <1>5, <1>6

LEMMA OverlapRule ==
    ASSUME CorpusAssumption, InitOverlap, rule = "overlap", done, result = Overlap
    PROVE  OverlapsOneToOne
<1> DEFINE a == CorpusA  b == CorpusB
           found == Overlaps(a, b, SharedWords)
           hidden(k, has(_)) == \E j \in DOMAIN a : j > k /\ has(a[j])
           offers(k, n) ==
             \/ HasLink(b[n]) /\ a[k].url = b[n].url /\ ~hidden(k, LAMBDA r : r.url = b[n].url)
             \/ \E c \in a[k].cves \cap b[n].cves : ~hidden(k, LAMBDA r : c \in r.cves)
             \/ Cardinality(a[k].words \cap b[n].words) >= SharedWords
<1>1. PICK size \in Nat :
        /\ DOMAIN a = 1 .. size
        /\ \A k \in 1 .. size : /\ IsFiniteSet(a[k].words)
                                /\ \E r \in Range(input.a) : r.id = a[k].id /\ r.date <= Snapshot
  BY CorpusAIs
<1>2. Len(b) \in Nat /\ DOMAIN b = 1 .. Len(b)
  BY CorpusBIs
<1> HIDE DEF a, b
<1>3. PICK after : Matches(a, b, after) /\ found = after[Len(b)]
  BY <1>2, OverlapsAre
<1>4. PairedUpTo(a, b, Len(b), found)
  <2> DEFINE Ok == {n \in Nat : n <= Len(b) => PairedUpTo(a, b, n, after[n])}
  <2>1. \A n \in 0 .. Len(b) :
          after[n] = IF n = 0 THEN {} ELSE Matched(a, b, n, after[n - 1])
    BY <1>3 DEF Matches
  <2>2. 0 \in Ok
    <3>1. after[0] = {}
      BY <1>2, <2>1
    <3>2. PairedUpTo(a, b, 0, {})
      BY DEF PairedUpTo
    <3> QED BY <3>1, <3>2
  <2>3. ASSUME NEW n \in Ok PROVE n + 1 \in Ok
    <3>1. n \in Nat /\ n + 1 \in Nat
      OBVIOUS
    <3>2. ASSUME n + 1 <= Len(b) PROVE PairedUpTo(a, b, n + 1, after[n + 1])
      <4>1. n <= Len(b) /\ n + 1 \in 0 .. Len(b) /\ n + 1 # 0 /\ (n + 1) - 1 = n
        BY <1>2, <3>1, <3>2
      <4>2. PairedUpTo(a, b, n, after[n])
        BY <4>1
      <4>3. after[n + 1] = Matched(a, b, n + 1, after[n])
        BY <2>1, <4>1
      <4>4. PairedUpTo(a, b, n + 1, Matched(a, b, n + 1, after[n]))
        BY <1>1, <3>1, <4>2, MatchedPairs
      <4> QED BY <4>3, <4>4
    <3> QED BY <3>1, <3>2
  <2>4. Nat \subseteq Ok
    <3> HIDE DEF Ok
    <3> QED BY <2>2, <2>3, AllNumbers
  <2>5. Len(b) \in Ok
    BY <1>2, <2>4
  <2> QED BY <1>2, <1>3, <2>5
<1>5. ASSUME NEW k \in DOMAIN a, NEW n \in DOMAIN b PROVE offers(k, n) <=> Offers(a, b[n], k)
  <2>1. k \in Int /\ \A j \in DOMAIN a : j \in Int
    BY <1>1
  <2>2. a[k].url = b[n].url /\ ~hidden(k, LAMBDA r : r.url = b[n].url)
          <=> LastOf(k, Linked(a, b[n]))
    BY <2>1 DEF LastOf, Linked
  <2>3. \A c : c \in a[k].cves /\ ~hidden(k, LAMBDA r : c \in r.cves)
                 <=> LastOf(k, Naming(a, c))
    BY <2>1 DEF LastOf, Naming
  <2> QED BY <2>2, <2>3 DEF Offers
<1>6. /\ \A m \in found : m.a \in DOMAIN a /\ m.b \in DOMAIN b /\ Offers(a, b[m.b], m.a)
      /\ \A m, o \in found : m.a = o.a \/ m.b = o.b => m = o
      /\ \A j \in DOMAIN b : j \notin {m.b : m \in found} =>
           \A k \in DOMAIN a : Offers(a, b[j], k) => k \in {m.a : m \in found}
  BY <1>2, <1>4 DEF PairedUpTo
<1>7. result.found = found /\ result.agreement.agree \cup result.agreement.disagree = found
  <2> DEFINE same == Agreement(found, <<"A">>, <<"A", "B">>)
  <2>1. result = [found |-> found, agreement |-> same]
    BY DEF Overlap, a, b
  <2>2. same.agree \cup same.disagree = found
    <3> HIDE DEF found
    <3> QED BY DEF Agreement
  <2> HIDE DEF found, same
  <2> QED BY <2>1, <2>2
<1> HIDE DEF found
<1>8. /\ \A m, n \in result.found : m.a = n.a \/ m.b = n.b => m = n
      /\ \A k \in {m.a : m \in result.found} :
           \E r \in Range(input.a) : r.id = a[k].id /\ r.date <= Snapshot
  BY <1>1, <1>6, <1>7
<1>9. \A n \in DOMAIN b \ {m.b : m \in result.found} : \A k \in DOMAIN a :
        offers(k, n) => k \in {m.a : m \in result.found}
  <2> HIDE DEF offers
  <2> QED BY <1>5, <1>6, <1>7
<1>10. \A m \in result.found : offers(m.a, m.b)
  <2> HIDE DEF offers
  <2> QED BY <1>5, <1>6, <1>7
<1> HIDE DEF offers
<1> QED BY <1>7, <1>8, <1>9, <1>10 DEF OverlapsOneToOne, a, b, offers, HasLink

\* The matches of the two corpora are one to one and leave out nothing that was
\* free, for any records and any order of them.
THEOREM OverlapsPaired == Spec => []OverlapsOneToOne
<1>1. RuleInv => OverlapsOneToOne
  <2> SUFFICES ASSUME RuleInv, rule = "overlap", done PROVE OverlapsOneToOne
    BY DEF OverlapsOneToOne
  <2>1. InitOverlap
    BY PickedFor DEF RuleInv
  <2> QED BY <2>1, OverlapRule, CorpusAssumption DEF RuleInv, Applied
<1> QED BY <1>1, RuleIsApplied, PTL

-----------------------------------------------------------------------------
(* The engine and the oracle *)

LEMMA MedianIs ==
    ASSUME NEW s, NEW n \in Nat \ {0}, s \in [1 .. n -> Nat]
    PROVE  Median2(s) \in Nat
<1>1. s \in Seq(Nat) /\ Len(s) = n /\ DOMAIN s = 1 .. n /\ \A k \in 1 .. n : s[k] \in Nat
  <2>1. s \in Seq(Nat)
    BY SeqDef
  <2> QED BY <2>1, LenProperties
<1>2. \A p \in 1 .. n : NthValue(s, p) \in Nat
  BY <1>1, NthValueIs
<1>3. CASE n % 2 = 1
  <2>1. (n + 1) \div 2 \in 1 .. n
    BY <1>3
  <2>2. Median2(s) = 2 * NthValue(s, (n + 1) \div 2)
    BY <1>1, <1>3 DEF Median2
  <2> QED BY <1>2, <2>1, <2>2
<1>4. CASE n % 2 # 1
  <2>1. n \div 2 \in 1 .. n /\ n \div 2 + 1 \in 1 .. n
    BY <1>4
  <2>2. Median2(s) = NthValue(s, n \div 2) + NthValue(s, n \div 2 + 1)
    BY <1>1, <1>4 DEF Median2
  <2> QED BY <1>2, <2>1, <2>2
<1> QED BY <1>3, <1>4

\* The rows of the corpus, the rates and the incidences both sides rank by.
Strata1 == EntryStrata(RowsOf)
Sizes1 == StratumSizes(RowsOf)
Rate(e) == MedianDraw2(input.draws, List)[e]
Incidence == [e \in Range(List) |-> Rate(e) * Exposure(e, Strata1, Sizes1)]

LEMMA RowsAre ==
    ASSUME RankingAssumption, InitOracle
    PROVE  /\ Len(input.rows) \in Nat /\ DOMAIN input.rows = 1 .. Len(input.rows)
           /\ DOMAIN RowsOf = DOMAIN input.rows
           /\ \A k \in DOMAIN input.rows :
                /\ RowsOf[k] = [id |-> input.rows[k].id, entry |-> input.rows[k].entry,
                                stratum |-> input.strata[input.rows[k].id]]
                /\ input.rows[k] = [id |-> input.rows[k].id, entry |-> input.rows[k].entry]
           /\ {input.rows[k].entry : k \in DOMAIN input.rows} = Range(List)
<1>1. input.rows \in Rows
  BY DEF InitOracle
<1>2. /\ input.rows \in Seq([id : LabelledIds, entry : Range(List)])
      /\ {input.rows[k].entry : k \in DOMAIN input.rows} = Range(List)
  BY <1>1 DEF RankingAssumption
<1>3. Len(input.rows) \in Nat /\ DOMAIN input.rows = 1 .. Len(input.rows)
  BY <1>2, LenProperties
<1>4. \A k \in DOMAIN input.rows : input.rows[k] \in [id : LabelledIds, entry : Range(List)]
  BY <1>2, <1>3, ElementOfSeq
<1>5. \A k \in DOMAIN input.rows :
        input.rows[k] = [id |-> input.rows[k].id, entry |-> input.rows[k].entry]
  BY <1>4
<1>6. /\ DOMAIN RowsOf = DOMAIN input.rows
      /\ \A k \in DOMAIN input.rows :
           RowsOf[k] = [id |-> input.rows[k].id, entry |-> input.rows[k].entry,
                        stratum |-> input.strata[input.rows[k].id]]
  BY DEF RowsOf
<1> QED BY <1>2, <1>3, <1>5, <1>6

\* Every size is the number of rows of the stratum, at least one.
LEMMA SizesAre ==
    ASSUME RankingAssumption, InitOracle
    PROVE  /\ DOMAIN Sizes1 = {RowsOf[k].stratum : k \in DOMAIN RowsOf}
           /\ IsFiniteSet(DOMAIN Sizes1)
           /\ \A s \in DOMAIN Sizes1 :
                LET of == {k \in DOMAIN RowsOf : RowsOf[k].stratum = s}
                IN  /\ Sizes1[s] = Cardinality(of)
                    /\ IsFiniteSet(of) /\ Cardinality(of) \in Nat \ {0}
<1> DEFINE D == DOMAIN RowsOf
           of(s) == {k \in D : RowsOf[k].stratum = s}
           stratum == [k \in D |-> RowsOf[k].stratum]
<1>1. Sizes1 = [s \in {r.stratum : r \in Range(RowsOf)} |-> Cardinality(of(s))]
  BY DEF Sizes1, StratumSizes
<1>2. {r.stratum : r \in Range(RowsOf)} = {RowsOf[k].stratum : k \in D}
  BY DEF Range
<1>3. IsFiniteSet(D)
  <2>1. D = 1 .. Len(input.rows) /\ Len(input.rows) \in Nat
    BY RowsAre
  <2> QED BY <2>1, CountUpTo
<1> HIDE DEF D
<1>4. {stratum[k] : k \in D} = {RowsOf[k].stratum : k \in D}
  OBVIOUS
<1>5. IsFiniteSet({RowsOf[k].stratum : k \in D})
  <2>1. IsFiniteSet({stratum[k] : k \in D})
    <3> HIDE DEF stratum
    <3> QED BY <1>3, Image
  <2> QED BY <1>4, <2>1
<1>6. ASSUME NEW s \in {RowsOf[k].stratum : k \in D}
      PROVE  IsFiniteSet(of(s)) /\ Cardinality(of(s)) \in Nat \ {0}
  <2>1. of(s) \in SUBSET D /\ of(s) # {}
    OBVIOUS
  <2> HIDE DEF of
  <2> QED BY <1>3, <2>1, CountSubset, FS_EmptySet
<1>7. /\ DOMAIN Sizes1 = {RowsOf[k].stratum : k \in D}
      /\ \A s \in DOMAIN Sizes1 : Sizes1[s] = Cardinality(of(s))
  BY <1>1, <1>2
<1> HIDE DEF of
<1> QED BY <1>5, <1>6, <1>7 DEF of, D

LEMMA IncidenceIs ==
    ASSUME RankingAssumption, InitOracle
    PROVE  Listed(List, Incidence)
<1>1. List \in Seq(Range(List)) /\ IsInjective(List)
  BY DEF RankingAssumption
<1>2. ASSUME NEW e \in Range(List) PROVE Rate(e) \in Nat
  <2> DEFINE draws == input.draws  s == [d \in DOMAIN draws |-> draws[d][e]]
  <2>1. draws \in Seq([Range(List) -> Nat]) /\ draws # <<>>
    BY DEF InitOracle, RankingAssumption
  <2>2. DOMAIN draws = 1 .. Len(draws) /\ Len(draws) \in Nat \ {0}
    BY <2>1, LenProperties, EmptySeq
  <2>3. \A d \in DOMAIN draws : draws[d] \in [Range(List) -> Nat]
    BY <2>1, <2>2, ElementOfSeq
  <2> HIDE DEF draws
  <2>4. s \in [1 .. Len(draws) -> Nat]
    BY <2>2, <2>3
  <2>5. Median2(s) \in Nat
    <3> HIDE DEF s
    <3> QED BY <2>2, <2>4, MedianIs
  <2> QED BY <2>5 DEF Rate, MedianDraw2, draws
<1>3. ASSUME NEW e \in Range(List) PROVE Exposure(e, Strata1, Sizes1) \in Int
  <2>1. Strata1 = [f \in {r.entry : r \in Range(RowsOf)} |->
                     {r.stratum : r \in {q \in Range(RowsOf) : q.entry = f}}]
    BY DEF Strata1, EntryStrata
  <2>2. e \in {r.entry : r \in Range(RowsOf)}
    <3>0. /\ {input.rows[k].entry : k \in DOMAIN input.rows} = Range(List)
          /\ DOMAIN RowsOf = DOMAIN input.rows
          /\ \A k \in DOMAIN input.rows :
               RowsOf[k] = [id |-> input.rows[k].id, entry |-> input.rows[k].entry,
                            stratum |-> input.strata[input.rows[k].id]]
      BY RowsAre
    <3>1. PICK k \in DOMAIN input.rows : input.rows[k].entry = e
      BY <3>0
    <3>2. k \in DOMAIN RowsOf /\ RowsOf[k].entry = e
      <4>1. RowsOf[k] = [id |-> input.rows[k].id, entry |-> input.rows[k].entry,
                         stratum |-> input.strata[input.rows[k].id]]
        BY <3>0
      <4>2. RowsOf[k].entry = input.rows[k].entry
        BY <4>1
      <4> QED BY <3>0, <3>1, <4>2
    <3> QED BY <3>2 DEF Range
  <2>3. Strata1[e] \subseteq DOMAIN Sizes1
    <3>1. Strata1[e] = {r.stratum : r \in {q \in Range(RowsOf) : q.entry = e}}
      BY <2>1, <2>2
    <3>2. DOMAIN Sizes1 = {RowsOf[k].stratum : k \in DOMAIN RowsOf}
      BY SizesAre
    <3> QED BY <3>1, <3>2 DEF Range
  <2>4. IsFiniteSet(DOMAIN Sizes1) /\ \A s \in DOMAIN Sizes1 : Sizes1[s] \in Int
    <3>1. /\ IsFiniteSet(DOMAIN Sizes1)
          /\ \A s \in DOMAIN Sizes1 :
               LET of == {k \in DOMAIN RowsOf : RowsOf[k].stratum = s}
               IN  /\ Sizes1[s] = Cardinality(of)
                   /\ IsFiniteSet(of) /\ Cardinality(of) \in Nat \ {0}
      BY SizesAre
    <3>2. \A s \in DOMAIN Sizes1 : Sizes1[s] \in Nat
      BY <3>1
    <3> QED BY <3>1, <3>2
  <2>5. Summable(Strata1[e], Sizes1)
    BY <2>3, <2>4, FS_Subset DEF Summable
  <2>6. Total(Strata1[e], Sizes1) \in Int
    BY <2>5, TotalType
  <2> QED BY <2>6 DEF Exposure, Total
<1>4. ASSUME NEW e \in Range(List) PROVE Incidence[e] \in Int
  <2>1. Incidence[e] = Rate(e) * Exposure(e, Strata1, Sizes1)
    BY DEF Incidence
  <2> QED BY <1>2, <1>3, <2>1
<1> QED BY <1>1, <1>4 DEF Listed

\* The rows of a stratum, counted label by label as the model's exposure is.
LEMMA ObservedSizes ==
    ASSUME RankingAssumption, InitOracle
    PROVE  LET labels == [r \in {[id |-> RowsOf[k].id, entry |-> RowsOf[k].entry] : k \in DOMAIN RowsOf} |->
                            Cardinality({k \in DOMAIN RowsOf : RowsOf[k].id = r.id
                                                                 /\ RowsOf[k].entry = r.entry})]
           IN  Observed(labels, input.strata).sizes = Sizes1
<1> DEFINE D == DOMAIN RowsOf
           label(k) == [id |-> RowsOf[k].id, entry |-> RowsOf[k].entry]
           Marks == {label(k) : k \in D}
           rowsOf(r) == {k \in D : RowsOf[k].id = r.id /\ RowsOf[k].entry = r.entry}
           labels == [r \in Marks |-> Cardinality(rowsOf(r))]
           strata == {input.strata[r.id] : r \in Marks}
           those(s) == {r \in Marks : input.strata[r.id] = s}
           of(s) == {k \in D : RowsOf[k].stratum = s}
<1>1. Observed(labels, input.strata).sizes = [s \in strata |-> Max({1, Total(those(s), labels)})]
  BY DEF Observed, Total
<1>2. /\ D = 1 .. Len(input.rows) /\ Len(input.rows) \in Nat
      /\ \A k \in D : RowsOf[k] = [id |-> input.rows[k].id, entry |-> input.rows[k].entry,
                                   stratum |-> input.strata[input.rows[k].id]]
  BY RowsAre
<1>3. IsFiniteSet(D)
  BY <1>2, CountUpTo
<1>4. \A k \in D : /\ RowsOf[k].stratum = input.strata[RowsOf[k].id]
                   /\ label(k).id = RowsOf[k].id /\ label(k).entry = RowsOf[k].entry
  <2> SUFFICES ASSUME NEW k \in D PROVE RowsOf[k].stratum = input.strata[RowsOf[k].id]
    OBVIOUS
  <2>1. RowsOf[k] = [id |-> input.rows[k].id, entry |-> input.rows[k].entry,
                     stratum |-> input.strata[input.rows[k].id]]
    BY <1>2
  <2>2. RowsOf[k].stratum = input.strata[input.rows[k].id] /\ RowsOf[k].id = input.rows[k].id
    BY <2>1
  <2> QED BY <2>2
<1>5. strata = {RowsOf[k].stratum : k \in D}
  <2>1. ASSUME NEW k \in D PROVE label(k) \in Marks /\ input.strata[label(k).id] = RowsOf[k].stratum
    BY <1>4
  <2>2. ASSUME NEW r \in Marks PROVE \E k \in D : r = label(k)
    OBVIOUS
  <2> HIDE DEF label, Marks, D
  <2>3. strata \subseteq {RowsOf[k].stratum : k \in D}
    BY <2>1, <2>2
  <2>4. {RowsOf[k].stratum : k \in D} \subseteq strata
    BY <2>1
  <2> QED BY <2>3, <2>4
<1>6. /\ DOMAIN Sizes1 = {RowsOf[k].stratum : k \in D}
      /\ Sizes1 = [s \in DOMAIN Sizes1 |-> Sizes1[s]]
      /\ \A s \in DOMAIN Sizes1 : Sizes1[s] = Cardinality(of(s)) /\ Cardinality(of(s)) \in Nat \ {0}
  <2>1. Sizes1 = [s \in DOMAIN Sizes1 |-> Sizes1[s]]
    BY DEF Sizes1, StratumSizes
  <2>2. /\ DOMAIN Sizes1 = {RowsOf[k].stratum : k \in DOMAIN RowsOf}
        /\ \A s \in DOMAIN Sizes1 :
             LET those1 == {k \in DOMAIN RowsOf : RowsOf[k].stratum = s}
             IN  /\ Sizes1[s] = Cardinality(those1)
                 /\ IsFiniteSet(those1) /\ Cardinality(those1) \in Nat \ {0}
    BY SizesAre
  <2> QED BY <2>1, <2>2
<1>7. ASSUME NEW s \in strata PROVE Total(those(s), labels) = Cardinality(of(s))
  <2> DEFINE one == [k \in D |-> 1]  key == [k \in D |-> label(k)]
  <2>1. of(s) \in SUBSET D /\ IsFiniteSet(of(s)) /\ Cardinality(of(s)) \in Nat
    <3>1. of(s) \in SUBSET D
      OBVIOUS
    <3> HIDE DEF of
    <3> QED BY <1>3, <3>1, CountSubset
  <2>2. those(s) = {key[k] : k \in of(s)}
    <3>1. ASSUME NEW k \in D
          PROVE  /\ label(k) \in Marks /\ key[k] = label(k)
                 /\ input.strata[label(k).id] = RowsOf[k].stratum
      BY <1>4
    <3>2. ASSUME NEW r \in Marks PROVE \E k \in D : r = label(k)
      OBVIOUS
    <3> HIDE DEF label, Marks, key, D
    <3>3. those(s) \subseteq {key[k] : k \in of(s)}
      <4> SUFFICES ASSUME NEW r \in those(s) PROVE r \in {key[k] : k \in of(s)}
        OBVIOUS
      <4>1. PICK k \in D : r = label(k)
        BY <3>2
      <4>2. k \in of(s) /\ r = key[k]
        BY <3>1, <4>1
      <4> QED BY <4>2
    <3>4. {key[k] : k \in of(s)} \subseteq those(s)
      BY <3>1
    <3> QED BY <3>3, <3>4
  <2>3. ASSUME NEW c \in {key[k] : k \in of(s)}
        PROVE  labels[c] = Total({k \in of(s) : key[k] = c}, one)
    <3>1. PICK i \in of(s) : c = label(i)
      OBVIOUS
    <3>2. i \in D /\ c \in Marks /\ c.id = RowsOf[i].id /\ c.entry = RowsOf[i].entry
      BY <3>1
    <3>3. ASSUME NEW k \in D
          PROVE  k \in rowsOf(c) <=> k \in of(s) /\ key[k] = c
      <4>1. key[k] = c <=> RowsOf[k].id = c.id /\ RowsOf[k].entry = c.entry
        BY <3>1
      <4>2. RowsOf[k].id = c.id => RowsOf[k].stratum = s
        <5>1. RowsOf[k].stratum = input.strata[RowsOf[k].id]
          BY <1>4
        <5>2. RowsOf[i].stratum = input.strata[RowsOf[i].id] /\ RowsOf[i].id = c.id
          BY <1>4, <3>2
        <5>3. RowsOf[i].stratum = s
          BY <3>1
        <5> QED BY <5>1, <5>2, <5>3
      <4> QED BY <4>1, <4>2
    <3>4. rowsOf(c) = {k \in of(s) : key[k] = c}
      BY <2>1, <3>3
    <3>5. Summable(rowsOf(c), one) /\ Total(rowsOf(c), one) = Cardinality(rowsOf(c))
      <4>1. rowsOf(c) \in SUBSET D
        OBVIOUS
      <4>2. \A k \in rowsOf(c) : one[k] = 1
        BY <4>1
      <4> HIDE DEF rowsOf, one
      <4>3. IsFiniteSet(rowsOf(c))
        BY <1>3, <4>1, CountSubset
      <4> QED BY <4>2, <4>3, TotalOnes
    <3>6. labels[c] = Cardinality(rowsOf(c)) /\ Cardinality(rowsOf(c)) \in Nat
      <4>1. rowsOf(c) \in SUBSET D
        OBVIOUS
      <4>2. Cardinality(rowsOf(c)) \in Nat
        <5> HIDE DEF rowsOf
        <5> QED BY <1>3, <4>1, CountSubset
      <4> QED BY <3>2, <4>2
    <3> HIDE DEF rowsOf, one, key, labels, of
    <3> QED BY <3>4, <3>5, <3>6
  <2>4. ByKey(of(s), one, key, labels)
    <3> HIDE DEF one, key, labels, of
    <3> QED BY <2>3 DEF ByKey
  <2>5. Summable(of(s), one) /\ Total(of(s), one) = Cardinality(of(s))
    <3>1. \A k \in of(s) : one[k] = 1
      OBVIOUS
    <3> HIDE DEF of, one
    <3> QED BY <2>1, <3>1, TotalOnes
  <2> HIDE DEF one, key, labels, of, those
  <2>6. Total({key[k] : k \in of(s)}, labels) = Total(of(s), one)
    BY <2>4, <2>5, TotalFibres
  <2> QED BY <2>1, <2>2, <2>5, <2>6
<1>8. ASSUME NEW s \in strata PROVE Max({1, Total(those(s), labels)}) = Sizes1[s]
  <2>1. Sizes1[s] = Cardinality(of(s)) /\ Cardinality(of(s)) \in Nat \ {0}
    <3>1. s \in DOMAIN Sizes1
      BY <1>5, <1>6
    <3> HIDE DEF of
    <3> QED BY <1>6, <3>1
  <2>2. Total(those(s), labels) = Sizes1[s] /\ Sizes1[s] \in Nat \ {0}
    BY <1>7, <2>1
  <2> DEFINE x == Sizes1[s]
  <2>3. Max({1, x}) = x
    <3>1. x \in Nat \ {0}
      BY <2>2
    <3> HIDE DEF x
    <3> QED BY <3>1, MaxOne
  <2> HIDE DEF those, labels
  <2> QED BY <2>2, <2>3
<1>9. Observed(labels, input.strata).sizes = Sizes1
  <2> DEFINE size(s) == Max({1, Total(those(s), labels)})
  <2>1. \A s \in strata : size(s) = Sizes1[s]
    BY <1>8
  <2>2. Observed(labels, input.strata).sizes = [s \in strata |-> size(s)]
    BY <1>1
  <2> HIDE DEF size, labels, strata
  <2> QED BY <1>5, <1>6, <2>1, <2>2
<1> QED BY <1>9

\* The oracle's order of two entries.
OracleBefore(f, e) ==
    \/ Rate(f) * Exposure(f, Strata1, Sizes1) > Rate(e) * Exposure(e, Strata1, Sizes1)
    \/ /\ Rate(f) * Exposure(f, Strata1, Sizes1) = Rate(e) * Exposure(e, Strata1, Sizes1)
       /\ \E j, k \in DOMAIN List : j < k /\ List[j] = f /\ List[k] = e

LEMMA OracleCounts ==
    ASSUME RankingAssumption, InitOracle, NEW e \in Range(List)
    PROVE  Cardinality({f \in Range(List) : OracleBefore(f, e)}) = Ordinal(List, Incidence)[e] - 1
<1> DEFINE R == Range(List)  place == [f \in R |-> PlaceOf(List, f)]
           A == {f \in R : OracleBefore(f, e)}
           B == Before(List, Incidence, PlaceOf(List, e))
<1>1. Listed(List, Incidence)
  BY IncidenceIs
<1>2. DOMAIN List = 1 .. Len(List) /\ Len(List) \in Nat
  BY <1>1 DEF Listed
<1>3. \A f \in R : place[f] \in DOMAIN List /\ List[place[f]] = f
  BY <1>1, <1>2, PlaceOfListed
<1>4. \A j, k \in DOMAIN List : List[j] = List[k] => j = k
  BY <1>1 DEF Listed, IsInjective
<1>5. \A j \in DOMAIN List : List[j] \in R
  BY DEF Range
<1>6. ASSUME NEW f \in R
      PROVE  OracleBefore(f, e) <=> RankedAhead(List, Incidence, place[f], place[e])
  <2>1. Incidence[f] = Rate(f) * Exposure(f, Strata1, Sizes1)
        /\ Incidence[e] = Rate(e) * Exposure(e, Strata1, Sizes1)
    BY DEF Incidence
  <2>2. (\E j, k \in DOMAIN List : j < k /\ List[j] = f /\ List[k] = e) <=> place[f] < place[e]
    <3> HIDE DEF place
    <3>1. ASSUME NEW j \in DOMAIN List, NEW k \in DOMAIN List, j < k, List[j] = f, List[k] = e
          PROVE  place[f] < place[e]
      <4>1. j = place[f] /\ k = place[e]
        BY <1>3, <1>4, <3>1
      <4> QED BY <3>1, <4>1
    <3>2. ASSUME place[f] < place[e]
          PROVE  \E j, k \in DOMAIN List : j < k /\ List[j] = f /\ List[k] = e
      BY <1>3, <3>2
    <3> QED BY <3>1, <3>2
  <2> HIDE DEF place
  <2> QED BY <1>3, <2>1, <2>2 DEF OracleBefore, RankedAhead
<1>7. place[e] = PlaceOf(List, e)
  OBVIOUS
<1> HIDE DEF place
<1>8. /\ \A f \in A : place[f] \in B
      /\ \A f, g \in A : place[f] = place[g] => f = g
      /\ \A k \in B : \E f \in A : place[f] = k
  <2>1. \A f \in A : place[f] \in B
    BY <1>3, <1>6, <1>7 DEF Before
  <2>2. \A f, g \in A : place[f] = place[g] => f = g
    BY <1>3
  <2>3. ASSUME NEW k \in B PROVE \E f \in A : place[f] = k
    <3>1. k \in DOMAIN List /\ RankedAhead(List, Incidence, k, place[e])
      BY <1>7 DEF Before
    <3>2. List[k] \in R /\ place[List[k]] = k
      BY <1>3, <1>4, <1>5, <3>1
    <3>3. List[k] \in A
      BY <1>6, <3>1, <3>2
    <3> QED BY <3>2, <3>3
  <2> QED BY <2>1, <2>2, <2>3
<1>9. IsFiniteSet(B) /\ Cardinality(B) \in Nat
  <2>1. PlaceOf(List, e) \in DOMAIN List
    BY <1>3, <1>7
  <2>2. IsFiniteSet(B) /\ Cardinality(B) \in 0 .. Len(List) - 1
    BY <1>1, <2>1, BeforeCount
  <2> QED BY <1>2, <2>2
<1> HIDE DEF A, B
<1>10. Cardinality(A) = Cardinality(B)
  BY <1>8, <1>9, SameCount
<1>11. Ordinal(List, Incidence)[e] = 1 + Cardinality(B)
  BY OrdinalIs DEF B
<1> QED BY <1>9, <1>10, <1>11 DEF A

\* The listing of the input, and what the two sides rank.
Engine1 == EngineRanking(input.draws, input.listing, Strata1, Sizes1)
Oracle1 == OracleRanking(input.draws, List, Strata1, Sizes1)

\* A sequence that has the entries at their ranks.
AtRanks(s, list, value) ==
    /\ s = [r \in DOMAIN list |-> s[r]]
    /\ \A r \in DOMAIN list : s[r] \in Range(list) /\ Ordinal(list, value)[s[r]] = r

\* Such a sequence names every entry once and never a greater value later.
LEMMA AtRanksIs ==
    ASSUME NEW list, NEW value, Listed(list, value), NEW s, AtRanks(s, list, value)
    PROVE  /\ Range(s) = Range(list) /\ IsInjective(s) /\ DOMAIN s = 1 .. Len(list)
           /\ \A j, k \in DOMAIN s : j < k => value[s[j]] >= value[s[k]]
<1> DEFINE R == Range(list)  rank == Ordinal(list, value)
<1>1. DOMAIN s = 1 .. Len(list) /\ DOMAIN list = 1 .. Len(list) /\ Len(list) \in Nat
  <2>1. s = [r \in DOMAIN list |-> s[r]]
    BY DEF AtRanks
  <2>2. DOMAIN s = DOMAIN list
    BY <2>1
  <2>3. DOMAIN list = 1 .. Len(list) /\ Len(list) \in Nat
    BY DEF Listed
  <2> QED BY <2>2, <2>3
<1>2. \A r \in DOMAIN s : s[r] \in R /\ rank[s[r]] = r
  BY <1>1 DEF AtRanks
<1>3. \A e, f \in R : /\ rank[e] \in 1 .. Len(list) /\ (rank[e] = rank[f] => e = f)
                      /\ rank[e] < rank[f] =>
                           RankedAhead(list, value, PlaceOf(list, e), PlaceOf(list, f))
  BY OrdinalTells
<1>4. \A e \in R : list[PlaceOf(list, e)] = e /\ value[e] \in Int
  BY PlaceOfListed DEF Listed
<1> HIDE DEF rank
<1>5. Range(s) = R
  <2>1. Range(s) \subseteq R
    BY <1>2 DEF Range
  <2>2. ASSUME NEW e \in R PROVE e \in Range(s)
    <3>1. rank[e] \in DOMAIN s
      BY <1>1, <1>3
    <3>2. s[rank[e]] = e
      BY <1>2, <1>3, <3>1
    <3> QED BY <3>1, <3>2 DEF Range
  <2> QED BY <2>1, <2>2
<1>6. IsInjective(s)
  <2>1. \A j, k \in DOMAIN s : s[j] = s[k] => j = k
    BY <1>2
  <2> QED BY <2>1 DEF IsInjective
<1>7. ASSUME NEW j \in DOMAIN s, NEW k \in DOMAIN s, j < k PROVE value[s[j]] >= value[s[k]]
  <2>1. s[j] \in R /\ s[k] \in R /\ rank[s[j]] < rank[s[k]]
    BY <1>2, <1>7
  <2>2. RankedAhead(list, value, PlaceOf(list, s[j]), PlaceOf(list, s[k]))
    BY <1>3, <2>1
  <2> QED BY <1>4, <2>1, <2>2 DEF RankedAhead
<1> QED BY <1>1, <1>5, <1>6, <1>7

\* Ranks of different values do not depend on the listing.
LEMMA OrdinalDistinct ==
    ASSUME NEW list, NEW other, NEW value, Listed(list, value), Listed(other, value),
           Range(other) = Range(list),
           \A e, f \in Range(list) : value[e] = value[f] => e = f
    PROVE  Ordinal(other, value) = Ordinal(list, value)
<1> DEFINE R == Range(list)  above(e) == {f \in R : value[f] > value[e]}
<1>1. ASSUME NEW l, Listed(l, value), Range(l) = R, NEW e \in R
      PROVE  Ordinal(l, value)[e] = 1 + Cardinality(above(e))
  <2> DEFINE B == Before(l, value, PlaceOf(l, e))
  <2>1. PlaceOf(l, e) \in DOMAIN l /\ l[PlaceOf(l, e)] = e /\ DOMAIN l = 1 .. Len(l)
    <3>1. DOMAIN l = 1 .. Len(l)
      BY <1>1 DEF Listed
    <3>2. e \in Range(l)
      BY <1>1
    <3>3. PlaceOf(l, e) \in 1 .. Len(l) /\ l[PlaceOf(l, e)] = e
      BY <1>1, <3>2, PlaceOfListed
    <3> QED BY <3>1, <3>3
  <2>2. /\ \A j \in DOMAIN l : l[j] \in R /\ value[l[j]] \in Int
        /\ \A j, k \in DOMAIN l : l[j] = l[k] => j = k
    BY <1>1 DEF Listed, IsInjective, Range
  <2>3. \A j \in DOMAIN l : j \in B <=> value[l[j]] > value[e]
    BY <2>1, <2>2 DEF Before, RankedAhead
  <2>4. /\ \A j \in B : l[j] \in above(e)
        /\ \A j, k \in B : l[j] = l[k] => j = k
        /\ \A f \in above(e) : \E j \in B : l[j] = f
    <3>1. B \subseteq DOMAIN l
      BY DEF Before
    <3>2. ASSUME NEW f \in above(e) PROVE \E j \in B : l[j] = f
      <4>1. PICK j \in DOMAIN l : l[j] = f
        BY <1>1 DEF Range
      <4> QED BY <2>3, <4>1
    <3> HIDE DEF B
    <3> QED BY <2>2, <2>3, <3>1, <3>2
  <2>5. IsFiniteSet(B)
    BY <1>1, <2>1, BeforeCount
  <2>6. IsFiniteSet(above(e))
    <3>1. IsFiniteSet(R)
      BY ListedFinite DEF Listed
    <3> QED BY <3>1, FS_Subset
  <2> DEFINE A == above(e)
  <2> HIDE DEF A, B
  <2>7. Cardinality(B) = Cardinality(A)
    BY <2>4, <2>5, <2>6, SameCount DEF A
  <2> QED BY <1>1, <2>7, OrdinalIs DEF A, B
<1>2. ASSUME NEW e \in R PROVE Ordinal(other, value)[e] = Ordinal(list, value)[e]
  BY <1>1, <1>2
<1>3. /\ Ordinal(other, value) = [e \in R |-> Ordinal(other, value)[e]]
      /\ Ordinal(list, value) = [e \in R |-> Ordinal(list, value)[e]]
  BY DEF Ordinal
<1> QED BY <1>2, <1>3

LEMMA ListingOf ==
    ASSUME RankingAssumption, InitOracle
    PROVE  /\ Listed(input.listing, Incidence) /\ Range(input.listing) = Range(List)
           /\ DOMAIN input.listing = 1 .. Len(List) /\ Len(input.listing) = Len(List)
           /\ Len(List) \in Nat /\ Len(List) > 1 /\ DOMAIN List = 1 .. Len(List)
<1>1. Listed(List, Incidence) /\ Len(List) > 1
  BY IncidenceIs DEF RankingAssumption
<1>2. IsFiniteSet(Range(List)) /\ Cardinality(Range(List)) = Len(List)
  BY <1>1, ListedFinite DEF Listed
<1>3. input.listing \in Listings(Range(List))
  BY DEF InitOracle
<1>4. /\ Range(input.listing) = Range(List) /\ IsInjective(input.listing)
      /\ input.listing \in Seq(Range(input.listing))
      /\ DOMAIN input.listing = 1 .. Len(input.listing) /\ Len(input.listing) = Len(List)
  BY <1>2, <1>3, ListingIs
<1> QED BY <1>1, <1>4 DEF Listed

\* The engine ranks by the listing of its input, the oracle by the names.
LEMMA BothAtRanks ==
    ASSUME RankingAssumption, InitOracle
    PROVE  AtRanks(Engine1, input.listing, Incidence) /\ AtRanks(Oracle1, List, Incidence)
<1> DEFINE R == Range(List)  N == 1 .. Len(List)  list == input.listing
           before(e) == Cardinality({f \in R : OracleBefore(f, e)})
<1>1. Listed(List, Incidence) /\ Cardinality(R) = Len(List)
  BY IncidenceIs, ListedFinite DEF Listed
<1>2. /\ Listed(list, Incidence) /\ Range(list) = R /\ DOMAIN list = N
      /\ DOMAIN List = N /\ Len(List) \in Nat
  BY ListingOf
<1>3. AtRanks(Engine1, list, Incidence)
  <2> DEFINE rank == Ordinal(list, Incidence)
             rates == MedianDraw2(input.draws, list)
  <2>1. IncidenceRanks(rates, list, Strata1, Sizes1) = rank
    <3>1. rates = MedianDraw2(input.draws, List)
      BY <1>2 DEF MedianDraw2
    <3>2. Incidence = [e \in Range(list) |-> rates[e] * Exposure(e, Strata1, Sizes1)]
      BY <1>2, <3>1 DEF Incidence, Rate
    <3> QED BY <3>2 DEF IncidenceRanks
  <2>2. Engine1 = [r \in N |-> CHOOSE e \in R : rank[e] = r]
    BY <1>2, <2>1 DEF Engine1, EngineRanking
  <2>3. ASSUME NEW r \in N PROVE \E e \in R : rank[e] = r
    <3>1. r \in DOMAIN list /\ Listed(list, Incidence)
      BY <1>2
    <3> HIDE DEF list
    <3>2. \E e \in Range(list) : Ordinal(list, Incidence)[e] = r
      BY ONLY <3>1, OrdinalOnto
    <3> QED BY <1>2, <3>2
  <2> HIDE DEF rank
  <2>4. \A r \in N : Engine1[r] \in R /\ rank[Engine1[r]] = r
    BY <2>2, <2>3
  <2>5. Engine1 = [r \in N |-> Engine1[r]]
    BY <2>2
  <2> QED BY <1>2, <2>4, <2>5 DEF AtRanks, rank
<1>4. AtRanks(Oracle1, List, Incidence)
  <2> DEFINE rank == Ordinal(List, Incidence)
  <2>1. Oracle1 = [n \in N |-> CHOOSE e \in R : before(e) = n - 1]
    BY <1>1 DEF Oracle1, OracleRanking, Sorted, OracleBefore, Rate
  <2>2. \A e \in R : before(e) = rank[e] - 1 /\ rank[e] \in N
    BY <1>1, OracleCounts, OrdinalTells
  <2>3. ASSUME NEW r \in N PROVE \E e \in R : rank[e] = r
    <3>1. r \in DOMAIN List /\ Listed(List, Incidence)
      BY <1>1, <1>2
    <3>2. \E e \in Range(List) : Ordinal(List, Incidence)[e] = r
      BY ONLY <3>1, OrdinalOnto
    <3> QED BY <3>2
  <2> HIDE DEF rank, before
  <2>4. ASSUME NEW r \in N PROVE Oracle1[r] \in R /\ rank[Oracle1[r]] = r
    <3>1. \E e \in R : before(e) = r - 1
      BY <2>2, <2>3
    <3>2. Oracle1[r] \in R /\ before(Oracle1[r]) = r - 1
      BY <2>1, <3>1
    <3> QED BY <2>2, <3>2
  <2>5. Oracle1 = [r \in N |-> Oracle1[r]]
    BY <2>1
  <2> QED BY <1>2, <2>4, <2>5 DEF AtRanks, rank
<1> QED BY <1>3, <1>4

\* A ranking passes the comparison with itself, whatever the floor.
LEMMA SamePasses ==
    ASSUME NEW n \in Nat, n > 1, NEW V, NEW s \in Seq(V), DOMAIN s = 1 .. n, NEW floor \in 0 .. 100
    PROVE  CompareRanking(s, s, floor) = "PASS"
<1> DEFINE pairs == (Len(s) * (Len(s) - 1)) \div 2
<1>1. Len(s) = n
  BY LenProperties
<1>2. pairs \in Nat /\ pairs > 0
  <2> DEFINE x == n * (n - 1)
  <2>1. x \in Nat /\ x >= 1 * 2
    <3>1. n - 1 \in Nat /\ n - 1 >= 1 /\ n >= 2
      OBVIOUS
    <3>2. x \in Nat /\ n * 1 <= n * (n - 1)
      BY <3>1
    <3> QED BY <3>1, <3>2
  <2>2. x = Len(s) * (Len(s) - 1)
    BY <1>1
  <2> HIDE DEF x
  <2>3. x \div 2 \in Nat /\ x \div 2 >= 1
    BY <2>1
  <2> QED BY <2>2, <2>3
<1>3. Swapped(s, s) = {}
  <2> DEFINE at(e) == CHOOSE k \in DOMAIN s : s[k] = e
  <2>1. \A e \in Range(s) : at(e) \in 1 .. n
    BY DEF Range
  <2>2. Swapped(s, s) = {p \in Range(s) \X Range(s) : at(p[1]) < at(p[2]) /\ at(p[1]) > at(p[2])}
    BY DEF Swapped
  <2> HIDE DEF at
  <2>3. \A p \in Range(s) \X Range(s) : ~(at(p[1]) < at(p[2]) /\ at(p[1]) > at(p[2]))
    <3> SUFFICES ASSUME NEW p \in Range(s) \X Range(s)
                 PROVE  ~(at(p[1]) < at(p[2]) /\ at(p[1]) > at(p[2]))
      OBVIOUS
    <3>1. at(p[1]) \in 1 .. n /\ at(p[2]) \in 1 .. n
      BY <2>1
    <3> QED BY <3>1
  <2> QED BY <2>2, <2>3
<1>4. Cardinality(Swapped(s, s)) = 0
  BY <1>3, FS_EmptySet
<1> DEFINE swapped == Cardinality(Swapped(s, s))
<1>5. CompareRanking(s, s, floor)
        = IF pairs > 0 /\ 100 * (pairs - 2 * swapped) >= floor * pairs THEN "PASS" ELSE "FAIL"
  BY DEF CompareRanking
<1>6. 100 * (pairs - 2 * swapped) >= floor * pairs
  <2>1. pairs * floor <= pairs * 100
    <3> HIDE DEF pairs
    <3> QED BY <1>2, TimesOrder
  <2> HIDE DEF pairs
  <2>2. floor * pairs = pairs * floor /\ 100 * pairs = pairs * 100 /\ pairs * floor \in Int
    BY <1>2
  <2> QED BY <1>2, <1>4, <2>1, <2>2
<1> HIDE DEF pairs, swapped
<1> QED BY <1>2, <1>5, <1>6

\* The pairs that a sequence puts in the wrong order.
WrongPairs(s, value, R) ==
    {p \in R \X R : /\ value[p[1]] < value[p[2]]
                    /\ \E j, k \in DOMAIN s : j < k /\ s[j] = p[1] /\ s[k] = p[2]}

\* Where each of them is swapped in a sequence at the ranks.
LEMMA WrongIsSwapped ==
    ASSUME NEW list, NEW value, Listed(list, value), NEW t, AtRanks(t, list, value),
           NEW s, Range(s) = Range(list), IsInjective(s), DOMAIN s \subseteq Int
    PROVE  /\ WrongPairs(s, value, Range(list)) \subseteq Swapped(s, t)
           /\ IsFiniteSet(Swapped(s, t))
<1> DEFINE R == Range(list)
           in(q, e) == CHOOSE k \in DOMAIN q : q[k] = e
<1>1. /\ Range(t) = R /\ IsInjective(t) /\ DOMAIN t = 1 .. Len(list)
      /\ \A j, k \in DOMAIN t : j < k => value[t[j]] >= value[t[k]]
  BY AtRanksIs
<1>2. Swapped(s, t) = {p \in R \X R : in(s, p[1]) < in(s, p[2]) /\ in(t, p[1]) > in(t, p[2])}
  BY DEF Swapped
<1>3. \A e \in R : in(t, e) \in DOMAIN t /\ t[in(t, e)] = e /\ value[e] \in Int
  BY <1>1 DEF Range, Listed
<1>4. ASSUME NEW j \in DOMAIN s PROVE in(s, s[j]) = j
  BY DEF IsInjective
<1> HIDE DEF in
<1>5. ASSUME NEW p \in WrongPairs(s, value, R) PROVE p \in Swapped(s, t)
  <2>1. p \in R \X R /\ value[p[1]] < value[p[2]]
    BY DEF WrongPairs
  <2>2. PICK j \in DOMAIN s, k \in DOMAIN s : j < k /\ s[j] = p[1] /\ s[k] = p[2]
    BY DEF WrongPairs
  <2>3. in(s, p[1]) = j /\ in(s, p[2]) = k
    BY <1>4, <2>2
  <2>4. p[1] \in R /\ p[2] \in R
    BY <2>1
  <2> DEFINE a == in(t, p[1])  b == in(t, p[2])
  <2>5. a \in DOMAIN t /\ b \in DOMAIN t /\ value[t[a]] < value[t[b]]
        /\ value[t[a]] \in Int /\ value[t[b]] \in Int
    BY <1>3, <2>1, <2>4
  <2> HIDE DEF a, b
  <2>6. ~(a < b) /\ a # b
    BY <1>1, <2>5
  <2>7. a > b
    BY <1>1, <2>5, <2>6
  <2> QED BY <1>2, <2>1, <2>2, <2>3, <2>7 DEF a, b
<1>6. IsFiniteSet(R \X R)
  <2>1. IsFiniteSet(R)
    BY ListedFinite DEF Listed
  <2> HIDE DEF R
  <2> QED BY <2>1, FS_Product
<1>7. Swapped(s, t) \in SUBSET (R \X R)
  BY <1>2
<1> HIDE DEF R
<1> QED BY <1>5, <1>6, <1>7, CountSubset DEF R

\* The top tier of a sequence at the ranks has the greatest values.
LEMMA TopTierLeads ==
    ASSUME NEW list, NEW value, Listed(list, value), NEW t \in Seq(Range(list)),
           AtRanks(t, list, value), Len(list) > 1
    PROVE  \A e \in TopTier(t) : \A f \in Range(list) \ TopTier(t) : value[e] >= value[f]
<1> DEFINE n == Len(t)  m == IF n <= 3 THEN Min({1, n}) ELSE n \div 3
<1>1. /\ Range(t) = Range(list) /\ DOMAIN t = 1 .. Len(list)
      /\ \A j, k \in DOMAIN t : j < k => value[t[j]] >= value[t[k]]
  BY AtRanksIs
<1>2. n = Len(list) /\ n \in Nat /\ DOMAIN t = 1 .. n
  BY <1>1, LenProperties DEF Listed
<1>3. m \in 0 .. n
  <2>1. Min({1, n}) \in {1, n}
    <3>1. {1, n} \in SUBSET Nat /\ {1, n} # {}
      BY <1>2
    <3> HIDE DEF n
    <3> QED BY <3>1, LeastIs
  <2>2. n \div 3 \in 0 .. n
    <3> HIDE DEF n
    <3> QED BY <1>2
  <2>3. n >= 1
    BY <1>2
  <2> HIDE DEF n
  <2> QED BY <1>2, <2>1, <2>2, <2>3
<1>4. TopTier(t) = {t[k] : k \in 1 .. m}
  BY DEF TopTier
<1> HIDE DEF n, m
<1>5. ASSUME NEW e \in TopTier(t), NEW f \in Range(list) \ TopTier(t) PROVE value[e] >= value[f]
  <2>1. PICK j \in 1 .. m : e = t[j]
    BY <1>4
  <2>2. PICK k \in DOMAIN t : f = t[k]
    BY <1>1 DEF Range
  <2>3. k \notin 1 .. m
    BY <1>4, <2>2
  <2>4. j \in DOMAIN t /\ j < k
    BY <1>2, <1>3, <2>3, SMTT(30)
  <2> QED BY <1>1, <2>1, <2>2, <2>4
<1> QED BY <1>5

\* The incidence of an entry is its median rate times the rows in its strata.
LEMMA IncidenceCounts ==
    ASSUME RankingAssumption, InitOracle, NEW e \in Range(List)
    PROVE  LET of == {input.strata[input.rows[k].id] :
                        k \in {j \in DOMAIN input.rows : input.rows[j].entry = e}}
               among == {k \in DOMAIN input.rows : input.strata[input.rows[k].id] \in of}
           IN  Incidence[e] = Rate(e) * Cardinality(among)
<1> DEFINE D == DOMAIN input.rows
           own == {j \in D : input.rows[j].entry = e}
           key == [k \in D |-> input.strata[input.rows[k].id]]
           of == {input.strata[input.rows[k].id] : k \in own}
           among == {k \in D : input.strata[input.rows[k].id] \in of}
           one == [k \in D |-> 1]
<1>1. /\ Len(input.rows) \in Nat /\ D = 1 .. Len(input.rows) /\ DOMAIN RowsOf = D
      /\ \A k \in D : RowsOf[k] = [id |-> input.rows[k].id, entry |-> input.rows[k].entry,
                                   stratum |-> input.strata[input.rows[k].id]]
      /\ {input.rows[k].entry : k \in D} = Range(List)
  BY RowsAre
<1>2. \A k \in D : RowsOf[k].stratum = key[k] /\ RowsOf[k].entry = input.rows[k].entry
  <2> SUFFICES ASSUME NEW k \in D
               PROVE  RowsOf[k].stratum = key[k] /\ RowsOf[k].entry = input.rows[k].entry
    OBVIOUS
  <2>1. RowsOf[k] = [id |-> input.rows[k].id, entry |-> input.rows[k].entry,
                     stratum |-> input.strata[input.rows[k].id]]
    BY <1>1
  <2> QED BY <2>1
<1>3. IsFiniteSet(D)
  BY <1>1, CountUpTo
<1>4. Strata1[e] = of
  <2>1. PICK k \in D : input.rows[k].entry = e
    BY <1>1
  <2>2. e \in {r.entry : r \in Range(RowsOf)}
    BY <1>1, <1>2, <2>1 DEF Range
  <2>3. Strata1[e] = {r.stratum : r \in {q \in Range(RowsOf) : q.entry = e}}
    BY <2>2 DEF Strata1, EntryStrata
  <2>4. of = {key[j] : j \in own}
    OBVIOUS
  <2>5. ASSUME NEW r \in {q \in Range(RowsOf) : q.entry = e}
        PROVE  r.stratum \in {key[j] : j \in own}
    <3>1. PICK j \in D : r = RowsOf[j]
      BY <1>1 DEF Range
    <3>2. j \in own /\ r.stratum = key[j]
      BY <1>2, <3>1
    <3> QED BY <3>2
  <2>6. ASSUME NEW j \in own
        PROVE  key[j] \in {r.stratum : r \in {q \in Range(RowsOf) : q.entry = e}}
    <3>1. RowsOf[j] \in Range(RowsOf) /\ RowsOf[j].entry = e /\ RowsOf[j].stratum = key[j]
      BY <1>1, <1>2 DEF Range
    <3> HIDE DEF key
    <3> QED BY <3>1
  <2> HIDE DEF key, own, of
  <2> QED BY <2>3, <2>4, <2>5, <2>6, ZenonT(30)
<1>5. {key[k] : k \in among} = of
  <2>1. \A k \in D : key[k] = input.strata[input.rows[k].id]
    OBVIOUS
  <2>2. \A k \in among : k \in D /\ key[k] \in of
    OBVIOUS
  <2>3. \A s \in of : \E k \in D : s = key[k]
    OBVIOUS
  <2>4. \A k \in D : key[k] \in of => k \in among
    OBVIOUS
  <2> HIDE DEF key, of, among
  <2> QED BY <2>2, <2>3, <2>4
<1>6. IsFiniteSet(among) /\ Cardinality(among) \in Nat
  <2>1. among \in SUBSET D
    OBVIOUS
  <2> HIDE DEF among, D
  <2> QED BY <1>3, <2>1, CountSubset
<1>7. Summable(among, one) /\ Total(among, one) = Cardinality(among)
  <2>1. \A k \in among : one[k] = 1
    BY SMTT(30)
  <2> HIDE DEF among, one
  <2> QED BY <1>6, <2>1, TotalOnes
<1>8. ASSUME NEW s \in {key[k] : k \in among}
      PROVE  Sizes1[s] = Total({k \in among : key[k] = s}, one)
  <2> DEFINE those == {k \in DOMAIN RowsOf : RowsOf[k].stratum = s}
  <2>1. those = {k \in among : key[k] = s}
    <3>1. s \in of
      BY <1>5
    <3>2. \A k \in D : key[k] \in of => k \in among
      OBVIOUS
    <3>3. among \subseteq D
      BY SMTT(30)
    <3> HIDE DEF key, of, among
    <3> QED BY <1>1, <1>2, <3>1, <3>2, <3>3
  <2>2. s \in DOMAIN Sizes1
    <3>1. DOMAIN Sizes1 = {RowsOf[k].stratum : k \in DOMAIN RowsOf}
      BY SizesAre
    <3>2. PICK k \in among : s = key[k]
      OBVIOUS
    <3>3. k \in D /\ s = RowsOf[k].stratum
      BY <1>2, <3>2
    <3> QED BY <1>1, <3>1, <3>3, ZenonT(30)
  <2>3. Sizes1[s] = Cardinality(those) /\ IsFiniteSet(those)
    BY <2>2, SizesAre
  <2>4. \A k \in those : one[k] = 1
    BY <1>1
  <2> HIDE DEF those, one
  <2>5. Total(those, one) = Cardinality(those)
    BY <2>3, <2>4, TotalOnes
  <2> QED BY <2>1, <2>3, <2>5, ZenonT(30)
<1>9. ByKey(among, one, key, Sizes1)
  <2> HIDE DEF among, one, key
  <2> QED BY <1>8 DEF ByKey
<1>10. Total(of, Sizes1) = Cardinality(among)
  <2> HIDE DEF among, one, key, of
  <2> QED BY <1>5, <1>7, <1>9, TotalFibres
<1>11. Exposure(e, Strata1, Sizes1) = Cardinality(among)
  <2> HIDE DEF among, of
  <2> QED BY <1>4, <1>10 DEF Exposure, Total
<1> QED BY <1>11 DEF Incidence

LEMMA StoredRanking ==
    ASSUME RankingAssumption, InitOracle, CompareRanking(input.listing, Oracle1, input.floor) = "PASS"
    PROVE  /\ \A e \in TopTier(input.listing) : \A f \in Range(List) \ TopTier(input.listing) :
                Incidence[e] >= Incidence[f]
           /\ 200 * Cardinality(WrongPairs(input.listing, Incidence, Range(List)))
                <= (100 - input.floor) * ((Len(List) * (Len(List) - 1)) \div 2)
<1> DEFINE list == input.listing  floor == input.floor
           pairs == (Len(list) * (Len(list) - 1)) \div 2
           swapped == Cardinality(Swapped(list, Oracle1))
           wrong == Cardinality(WrongPairs(list, Incidence, Range(List)))
<1>1. /\ Listed(list, Incidence) /\ Range(list) = Range(List) /\ DOMAIN list = 1 .. Len(List)
      /\ Len(list) = Len(List) /\ Len(List) \in Nat /\ Len(List) > 1
  BY ListingOf
<1>2. Listed(List, Incidence) /\ AtRanks(Oracle1, List, Incidence)
  BY IncidenceIs, BothAtRanks
<1>3. floor \in 0 .. 100
  BY DEF InitOracle, RankingAssumption
<1>4. TopTier(list) = TopTier(Oracle1) /\ 100 * (pairs - 2 * swapped) >= floor * pairs
  BY DEF CompareRanking
<1>5. Oracle1 \in Seq(Range(List))
  <2>0. DOMAIN List = 1 .. Len(List)
    BY ListingOf
  <2>1. /\ Oracle1 = [r \in 1 .. Len(List) |-> Oracle1[r]]
        /\ \A r \in 1 .. Len(List) : Oracle1[r] \in Range(List)
    BY <1>2, <2>0 DEF AtRanks
  <2>2. Oracle1 \in [1 .. Len(List) -> Range(List)]
    BY <2>1
  <2> QED BY <1>1, <2>2, InSeq
<1>6. \A e \in TopTier(list) : \A f \in Range(List) \ TopTier(list) : Incidence[e] >= Incidence[f]
  BY <1>1, <1>2, <1>4, <1>5, TopTierLeads
<1>7. wrong <= swapped /\ wrong \in Nat /\ swapped \in Nat
  <2> DEFINE A == WrongPairs(list, Incidence, Range(List))  B == Swapped(list, Oracle1)
  <2>1. DOMAIN list \subseteq Int /\ IsInjective(list)
    BY <1>1 DEF Listed
  <2>2. A \subseteq B /\ IsFiniteSet(B)
    BY <1>1, <1>2, <2>1, WrongIsSwapped
  <2> HIDE DEF A, B
  <2>3. Cardinality(A) <= Cardinality(B) /\ Cardinality(A) \in Nat /\ Cardinality(B) \in Nat
    BY <2>2, CountSubset, FS_CardinalityType
  <2> QED BY <2>3 DEF A, B
<1>8. pairs \in Int
  <2> DEFINE x == Len(list) * (Len(list) - 1)
  <2>1. x \in Int
    BY <1>1
  <2> HIDE DEF x
  <2>2. x \div 2 \in Int
    BY <2>1
  <2> QED BY <2>2 DEF x
<1>9. pairs = (Len(List) * (Len(List) - 1)) \div 2
  BY <1>1
<1> HIDE DEF pairs, swapped, wrong, floor
<1>10. (100 - floor) * pairs = 100 * pairs - floor * pairs /\ floor * pairs \in Int
  BY <1>3, <1>8
<1>11. 200 * wrong <= (100 - floor) * pairs
  BY <1>4, <1>7, <1>8, <1>10
<1> QED BY <1>6, <1>9, <1>11 DEF wrong, floor

LEMMA EngineVerdict ==
    ASSUME RankingAssumption, InitOracle
    PROVE  /\ WrongPairs(Engine1, Incidence, Range(List)) = {}
           /\ CompareRanking(Engine1, Oracle1, input.floor) = "FAIL" =>
                \E e, f \in Range(List) : e # f /\ Incidence[e] = Incidence[f]
<1> DEFINE list == input.listing  n == Len(List)
<1>1. /\ Listed(list, Incidence) /\ Range(list) = Range(List) /\ DOMAIN list = 1 .. n
      /\ Len(list) = n /\ n \in Nat /\ n > 1 /\ DOMAIN List = 1 .. n
  BY ListingOf
<1>2. Listed(List, Incidence)
  BY IncidenceIs
<1>3. AtRanks(Engine1, list, Incidence) /\ AtRanks(Oracle1, List, Incidence)
  BY BothAtRanks
<1>4. WrongPairs(Engine1, Incidence, Range(List)) = {}
  <2>1. DOMAIN Engine1 = 1 .. n
        /\ \A j, k \in DOMAIN Engine1 : j < k => Incidence[Engine1[j]] >= Incidence[Engine1[k]]
    BY <1>1, <1>3, AtRanksIs
  <2>2. \A r \in DOMAIN Engine1 : Engine1[r] \in Range(List)
    BY <1>1, <1>3 DEF AtRanks
  <2>3. \A e \in Range(List) : Incidence[e] \in Int
    BY <1>2 DEF Listed
  <2>4. ASSUME NEW p \in WrongPairs(Engine1, Incidence, Range(List)) PROVE FALSE
    <3>1. PICK j \in DOMAIN Engine1, k \in DOMAIN Engine1 :
            j < k /\ Engine1[j] = p[1] /\ Engine1[k] = p[2]
      BY <2>4 DEF WrongPairs
    <3>2. Incidence[p[1]] < Incidence[p[2]]
      BY <2>4 DEF WrongPairs
    <3>3. Incidence[Engine1[j]] >= Incidence[Engine1[k]]
      BY <2>1, <3>1
    <3>4. Incidence[Engine1[j]] \in Int /\ Incidence[Engine1[k]] \in Int
      BY <2>2, <2>3
    <3> QED BY <3>1, <3>2, <3>3, <3>4
  <2> QED BY <2>4
<1>5. ASSUME \A e, f \in Range(List) : Incidence[e] = Incidence[f] => e = f
      PROVE  CompareRanking(Engine1, Oracle1, input.floor) = "PASS"
  <2> DEFINE rank == Ordinal(List, Incidence)
  <2>1. Ordinal(list, Incidence) = rank
    BY <1>1, <1>2, <1>5, OrdinalDistinct
  <2>2. \A e, f \in Range(List) : rank[e] = rank[f] => e = f
    BY <1>2, OrdinalTells
  <2>3. \A r \in 1 .. n : /\ Engine1[r] \in Range(List) /\ rank[Engine1[r]] = r
                          /\ Oracle1[r] \in Range(List) /\ rank[Oracle1[r]] = r
    BY <1>1, <1>3, <2>1 DEF AtRanks
  <2> HIDE DEF rank
  <2>4. ASSUME NEW r \in 1 .. n PROVE Engine1[r] = Oracle1[r]
    <3>1. /\ Engine1[r] \in Range(List) /\ Oracle1[r] \in Range(List)
          /\ rank[Engine1[r]] = rank[Oracle1[r]]
      BY <2>3
    <3> QED BY <2>2, <3>1
  <2>5. Engine1 = [r \in 1 .. n |-> Engine1[r]] /\ Oracle1 = [r \in 1 .. n |-> Oracle1[r]]
    BY <1>1, <1>3 DEF AtRanks
  <2>6. Engine1 = Oracle1 /\ DOMAIN Engine1 = 1 .. n
    BY <2>4, <2>5
  <2>7. Engine1 \in Seq(Range(List))
    <3>1. Engine1 \in [1 .. n -> Range(List)]
      BY <2>3, <2>5
    <3> QED BY <1>1, <3>1, InSeq
  <2>8. input.floor \in 0 .. 100
    BY DEF InitOracle, RankingAssumption
  <2> QED BY <1>1, <2>6, <2>7, <2>8, SamePasses
<1>6. ASSUME CompareRanking(Engine1, Oracle1, input.floor) = "FAIL"
      PROVE  \E e, f \in Range(List) : e # f /\ Incidence[e] = Incidence[f]
  <2>1. CompareRanking(Engine1, Oracle1, input.floor) # "PASS"
    BY <1>6, SMTT(30)
  <2> QED BY <1>5, <2>1
<1> QED BY <1>4, <1>6

LEMMA OracleRule ==
    ASSUME RankingAssumption, InitOracle, rule = "oracle", done, result = Oracle
    PROVE  OracleJudgesIncidence
<1> DEFINE labels == [r \in {[id |-> RowsOf[k].id, entry |-> RowsOf[k].entry] : k \in DOMAIN RowsOf} |->
                        Cardinality({k \in DOMAIN RowsOf : RowsOf[k].id = r.id
                                                             /\ RowsOf[k].entry = r.entry})]
           observed == Observed(labels, input.strata).sizes
           disjoint == StrataDisjoint(RowsOf, Strata1)
           verdict == CompareRanking(Engine1, Oracle1, input.floor)
           stored == CompareRanking(input.listing, Oracle1, input.floor)
<1>1. result = [ranking |-> Engine1, verdict |-> verdict, stored |-> stored, sizes |-> Sizes1,
                observed |-> observed, disjoint |-> disjoint]
  BY DEF Oracle, Strata1, Sizes1, Engine1, Oracle1
<1>2. observed = Sizes1
  BY ObservedSizes
<1>3. disjoint
  <2>1. DOMAIN RowsOf = DOMAIN input.rows
        /\ \A k \in DOMAIN input.rows :
             RowsOf[k] = [id |-> input.rows[k].id, entry |-> input.rows[k].entry,
                          stratum |-> input.strata[input.rows[k].id]]
    BY RowsAre
  <2>2. \A k \in DOMAIN RowsOf : RowsOf[k].stratum = input.strata[RowsOf[k].id]
    <3> SUFFICES ASSUME NEW k \in DOMAIN RowsOf PROVE RowsOf[k].stratum = input.strata[RowsOf[k].id]
      OBVIOUS
    <3>1. RowsOf[k] = [id |-> input.rows[k].id, entry |-> input.rows[k].entry,
                       stratum |-> input.strata[input.rows[k].id]]
      BY <2>1
    <3>2. RowsOf[k].stratum = input.strata[input.rows[k].id] /\ RowsOf[k].id = input.rows[k].id
      BY <3>1
    <3> QED BY <3>2
  <2>3. \A e \in DOMAIN Strata1 : Strata1[e] \subseteq {r.stratum : r \in Range(RowsOf)}
    BY DEF Strata1, EntryStrata
  <2> QED BY <2>2, <2>3 DEF StrataDisjoint
<1> HIDE DEF verdict, stored, observed, disjoint
<1>4. /\ result.ranking = Engine1 /\ result.verdict = verdict /\ result.stored = stored
      /\ result.sizes = result.observed /\ (result.disjoint <=> disjoint)
  BY <1>1, <1>2
<1> DEFINE of(e) == {input.strata[input.rows[k].id] :
                       k \in {j \in DOMAIN input.rows : input.rows[j].entry = e}}
           among(e) == {k \in DOMAIN input.rows : input.strata[input.rows[k].id] \in of(e)}
           median(e) == Median2([d \in DOMAIN input.draws |-> input.draws[d][e]])
           incidence(e) == median(e) * Cardinality(among(e))
           pairs == (Len(List) * (Len(List) - 1)) \div 2
           wrong(s) == {p \in Range(List) \X Range(List) :
                          /\ incidence(p[1]) < incidence(p[2])
                          /\ \E j, k \in DOMAIN s : j < k /\ s[j] = p[1] /\ s[k] = p[2]}
<1>5. ASSUME NEW e \in Range(List) PROVE incidence(e) = Incidence[e]
  <2>1. Incidence[e] = Rate(e) * Cardinality(among(e))
    BY IncidenceCounts
  <2>2. Rate(e) = median(e)
    BY DEF Rate, MedianDraw2
  <2> HIDE DEF among, median
  <2> QED BY <2>1, <2>2
<1> HIDE DEF incidence
<1>6. ASSUME NEW s PROVE wrong(s) = WrongPairs(s, Incidence, Range(List))
  <2>1. \A p \in Range(List) \X Range(List) :
          incidence(p[1]) = Incidence[p[1]] /\ incidence(p[2]) = Incidence[p[2]]
    BY <1>5
  <2> QED BY <2>1 DEF WrongPairs
<1> HIDE DEF wrong, pairs
<1>7. wrong(result.ranking) = {}
  BY <1>4, <1>6, EngineVerdict
<1>8. result.verdict = "FAIL" => \E e, f \in Range(List) : e # f /\ incidence(e) = incidence(f)
  BY <1>4, <1>5, EngineVerdict DEF verdict
<1>9. ASSUME result.stored = "PASS"
      PROVE  /\ \A e \in TopTier(input.listing) : \A f \in Range(List) \ TopTier(input.listing) :
                  incidence(e) >= incidence(f)
             /\ 200 * Cardinality(wrong(input.listing)) <= (100 - input.floor) * pairs
  <2>1. stored = "PASS"
    BY <1>4, <1>9
  <2>2. /\ \A e \in TopTier(input.listing) : \A f \in Range(List) \ TopTier(input.listing) :
             Incidence[e] >= Incidence[f]
        /\ 200 * Cardinality(WrongPairs(input.listing, Incidence, Range(List)))
             <= (100 - input.floor) * pairs
    BY <2>1, StoredRanking DEF stored, pairs
  <2>3. TopTier(input.listing) \subseteq Range(List)
    <3>1. /\ Range(input.listing) = Range(List) /\ DOMAIN input.listing = 1 .. Len(List)
          /\ Len(input.listing) = Len(List) /\ Len(List) \in Nat /\ Len(List) > 1
      BY ListingOf
    <3> DEFINE n == Len(List)  m == IF n <= 3 THEN Min({1, n}) ELSE n \div 3
    <3>2. TopTier(input.listing) = {input.listing[k] : k \in 1 .. m}
      BY <3>1 DEF TopTier
    <3>3. 1 .. m \subseteq DOMAIN input.listing
      <4>1. Min({1, n}) \in {1, n}
        <5>1. {1, n} \in SUBSET Nat /\ {1, n} # {}
          BY <3>1
        <5> HIDE DEF n
        <5> QED BY <5>1, LeastIs
      <4>2. n \div 3 \in 0 .. n
        BY <3>1
      <4> QED BY <3>1, <4>1, <4>2
    <3> HIDE DEF m
    <3> QED BY <3>1, <3>2, <3>3 DEF Range
  <2> QED BY <1>5, <1>6, <2>2, <2>3
<1> QED BY <1>3, <1>4, <1>7, <1>8, <1>9, ZenonT(30)
      DEF OracleJudgesIncidence, wrong, incidence, median, among, of, pairs

\* The verdict of the oracle is about the incidences, for any draws, rows, strata
\* and floor, and for any ranking of the entries that may have been stored.
THEOREM OracleJudges == Spec => []OracleJudgesIncidence
<1>1. RuleInv => OracleJudgesIncidence
  <2> SUFFICES ASSUME RuleInv, rule = "oracle", done PROVE OracleJudgesIncidence
    BY Zenon DEF OracleJudgesIncidence
  <2>1. InitOracle
    BY PickedFor DEF RuleInv
  <2> QED BY <2>1, OracleRule, RankingAssumption, ZenonT(30) DEF RuleInv, Applied
<1> QED BY <1>1, RuleIsApplied, PTL

-----------------------------------------------------------------------------
(* Orders *)

\* The ranks themselves, best first, are ranked as they are.
LEMMA OrdinalAgain ==
    ASSUME NEW list, NEW value, Listed(list, value), NEW c \in Nat \ {0}, NEW other,
           \A e \in Range(list) : other[e] = -(c * Ordinal(list, value)[e])
    PROVE  Ordinal(list, other) = Ordinal(list, value)
<1> DEFINE rank == Ordinal(list, value)
<1>0. Len(list) \in Nat /\ DOMAIN list = 1 .. Len(list) /\ IsInjective(list)
  BY LenProperties DEF Listed
<1>1. ASSUME NEW k \in DOMAIN list
      PROVE  Before(list, other, k) = Before(list, value, k)
  <2>1. ASSUME NEW j \in DOMAIN list
        PROVE  RankedAhead(list, other, j, k) <=> RankedAhead(list, value, j, k)
    <3> DEFINE e == list[j]  f == list[k]  x == rank[e]  y == rank[f]
    <3>1. e \in Range(list) /\ f \in Range(list)
      BY DEF Range
    <3>2. PlaceOf(list, e) = j /\ PlaceOf(list, f) = k
      <4>1. /\ PlaceOf(list, e) \in 1 .. Len(list) /\ list[PlaceOf(list, e)] = e
            /\ PlaceOf(list, f) \in 1 .. Len(list) /\ list[PlaceOf(list, f)] = f
        BY <3>1, PlaceOfListed
      <4> QED BY <1>0, <4>1 DEF IsInjective
    <3>3. /\ x \in 1 .. Len(list) /\ y \in 1 .. Len(list)
          /\ x = y => e = f
          /\ x < y <=> RankedAhead(list, value, j, k)
      BY <3>1, <3>2, OrdinalTells
    <3>4. x \in Int /\ y \in Int
      <4> HIDE DEF x, y
      <4> QED BY <1>0, <3>3
    <3>5. other[e] = -(c * x) /\ other[f] = -(c * y)
      BY <3>1
    <3> HIDE DEF x, y, e, f
    <3>6. y > x <=> c * y > c * x
      <4>1. x < y => c * x < c * y
        BY <3>4, TimesStrict
      <4>2. y <= x => c * y <= c * x
        BY <3>4, TimesOrder
      <4>3. c * x \in Int /\ c * y \in Int
        BY <3>4
      <4> QED BY <3>4, <4>1, <4>2, <4>3
    <3>7. c * x \in Int /\ c * y \in Int
      BY <3>4
    <3>8. other[e] > other[f] <=> x < y
      BY <3>4, <3>5, <3>6, <3>7
    <3>9. other[e] = other[f] => x = y
      <4>1. x < y => c * x < c * y
        BY <3>4, TimesStrict
      <4>2. y < x => c * y < c * x
        BY <3>4, TimesStrict
      <4> QED BY <3>4, <3>5, <3>7, <4>1, <4>2
    <3>10. ~(other[e] = other[f] /\ j < k)
      <4> SUFFICES ASSUME other[e] = other[f] PROVE j = k
        BY <1>0
      <4> QED BY <3>2, <3>3, <3>9
    <3> QED BY <3>3, <3>8, <3>10 DEF RankedAhead, e, f
  <2> QED BY <2>1 DEF Before
<1>2. ASSUME NEW e \in Range(list) PROVE Ordinal(list, other)[e] = rank[e]
  <2>1. PlaceOf(list, e) \in DOMAIN list
    BY DEF PlaceOf, Range
  <2> QED BY <1>1, <2>1, OrdinalIs
<1>3. /\ Ordinal(list, other) = [e \in Range(list) |-> Ordinal(list, other)[e]]
      /\ Ordinal(list, value) = [e \in Range(list) |-> Ordinal(list, value)[e]]
  BY DEF Ordinal
<1> QED BY <1>2, <1>3

\* The median of equal numbers is that number.
LEMMA MedianSame ==
    ASSUME NEW n \in Nat \ {0}, NEW s, NEW v \in Nat, s \in [1 .. n -> {v}]
    PROVE  Median2(s) = 2 * v
<1>1. s \in Seq({v}) /\ Len(s) = n /\ DOMAIN s = 1 .. n /\ \A k \in 1 .. n : s[k] = v
  <2>1. s \in Seq({v})
    BY InSeq
  <2> QED BY <2>1, LenProperties
<1>2. ASSUME NEW p \in 1 .. n PROVE NthValue(s, p) = v
  <2>1. {s[k] : k \in DOMAIN s} = {v}
    BY <1>1, <1>2
  <2>2. {k \in DOMAIN s : s[k] < v} = {} /\ {k \in DOMAIN s : s[k] <= v} = 1 .. n
    BY <1>1
  <2>3. /\ Cardinality({k \in DOMAIN s : s[k] < v}) = 0
        /\ Cardinality({k \in DOMAIN s : s[k] <= v}) = n
    BY <2>2, CountUpTo, FS_EmptySet
  <2>4. p \in Nat /\ 0 < p /\ p <= n
    OBVIOUS
  <2>5. NthValue(s, p) = CHOOSE u \in {v} : /\ Cardinality({k \in DOMAIN s : s[k] < u}) < p
                                            /\ p <= Cardinality({k \in DOMAIN s : s[k] <= u})
    BY <2>1 DEF NthValue
  <2> QED BY <2>3, <2>4, <2>5
<1>3. CASE n % 2 = 1
  <2>1. (n + 1) \div 2 \in 1 .. n
    BY <1>3
  <2>2. Median2(s) = 2 * NthValue(s, (n + 1) \div 2)
    BY <1>1, <1>3 DEF Median2
  <2> QED BY <1>2, <2>1, <2>2
<1>4. CASE n % 2 # 1
  <2>1. n \div 2 \in 1 .. n /\ n \div 2 + 1 \in 1 .. n
    BY <1>4
  <2>2. Median2(s) = NthValue(s, n \div 2) + NthValue(s, n \div 2 + 1)
    BY <1>1, <1>4 DEF Median2
  <2> QED BY <1>2, <2>1, <2>2
<1> QED BY <1>3, <1>4

LEMMA TierType ==
    ASSUME NEW n \in Nat, NEW rank
    PROVE  Tier(rank, n) \in Nat /\ Tier2(rank, n) \in Nat
<1>1. IsFiniteSet(Boundaries(n))
  <2>1. IsFiniteSet(1 .. n - 1)
    BY FS_Interval
  <2>2. IsFiniteSet({n \div 3, 2 * (n \div 3)})
    <3> DEFINE x == n \div 3  y == 2 * x
    <3> HIDE DEF x, y
    <3>1. IsFiniteSet({x}) /\ {x, y} = {x} \cup {y}
      BY FS_Singleton
    <3>2. IsFiniteSet({x, y})
      BY <3>1, FS_AddElement
    <3> QED BY <3>2 DEF x, y
  <2> QED BY <2>1, <2>2 DEF Boundaries
<1>2. /\ {b \in Boundaries(n) : rank > b} \subseteq Boundaries(n)
      /\ {b \in Boundaries(n) : rank > 2 * b} \subseteq Boundaries(n)
  OBVIOUS
<1>3. /\ Cardinality({b \in Boundaries(n) : rank > b}) \in Nat
      /\ Cardinality({b \in Boundaries(n) : rank > 2 * b}) \in Nat
  <2> DEFINE B == Boundaries(n)  S == {b \in B : rank > b}  T == {b \in B : rank > 2 * b}
  <2>1. IsFiniteSet(B) /\ S \subseteq B /\ T \subseteq B
    BY <1>1, <1>2
  <2> HIDE DEF B, S, T
  <2>2. Cardinality(S) \in Nat /\ Cardinality(T) \in Nat
    BY <2>1, CountSubset
  <2> QED BY <2>2 DEF S, T, B
<1> QED BY <1>3 DEF Tier, Tier2

\* The kappa of ranks with themselves is one.
LEMMA KappaSame ==
    ASSUME NEW a, IsFiniteSet(DOMAIN a)
    PROVE  Kappa(a, a) = Scale
<1> DEFINE D == DOMAIN a  n == Cardinality(D)
           gap(e, f) == LET d == Tier(a[e], n) - Tier(a[f], n) IN d * d
           g == [e \in D |-> gap(e, e)]  h == [p \in D \X D |-> gap(p[1], p[2])]
           zero == [p \in D \X D |-> 0]
           observed == SumFunction(g)  expected == SumFunction(h)
<1>1. Kappa(a, a) = IF expected = 0 THEN Scale ELSE Scale - (Scale * n * observed) \div expected
  BY DEF Kappa
<1>2. n \in Nat /\ IsFiniteSet(D \X D)
  BY FS_CardinalityType, FS_Product
<1>3. ASSUME NEW e \in D, NEW f \in D PROVE gap(e, f) \in Nat /\ gap(e, e) = 0
  <2> DEFINE x == Tier(a[e], n)  y == Tier(a[f], n)
  <2>1. x \in Nat /\ y \in Nat
    <3> HIDE DEF n
    <3> QED BY <1>2, TierType
  <2> HIDE DEF x, y
  <2>2. (x - y) * (x - y) \in Nat /\ (x - x) * (x - x) = 0
    <3>1. x - y \in Int
      BY <2>1
    <3>2. \A d \in Int : d * d \in Nat
      OBVIOUS
    <3> QED BY <2>1, <3>1, <3>2
  <2> QED BY <2>2 DEF x, y
<1> HIDE DEF gap, n
<1>4. DOMAIN g = D /\ \A e \in D : g[e] = 0
  BY <1>3
<1>5. DOMAIN h = D \X D /\ \A p \in D \X D : h[p] \in Nat /\ zero[p] = 0
  BY <1>3
<1> HIDE DEF g, h, zero
<1>6. observed = 0
  <2>1. Total(D, g) = 0 * Cardinality(D)
    BY <1>4, TotalConstant
  <2>2. observed = Total(D, g)
    BY <1>4 DEF SumFunction, Total
  <2>3. Cardinality(D) \in Nat
    BY FS_CardinalityType
  <2> QED BY <2>1, <2>2, <2>3
<1>7. expected \in Nat
  <2> DEFINE P == D \X D
  <2>1. IsFiniteSet(P) /\ DOMAIN h = P /\ \A p \in P : h[p] \in Nat /\ zero[p] = 0
    BY <1>2, <1>5
  <2> HIDE DEF P
  <2>2. Summable(P, h) /\ Total(P, h) \in Int
    BY <2>1, TotalType DEF Summable
  <2>3. Summable(P, zero) /\ Total(P, zero) = 0 * Cardinality(P)
    BY <2>1, TotalConstant
  <2>4. Total(P, zero) <= Total(P, h)
    <3>1. \A p \in P : zero[p] <= h[p]
      BY <2>1
    <3> QED BY <2>2, <2>3, <3>1, TotalOrder
  <2>5. Cardinality(P) \in Nat
    BY <2>1, FS_CardinalityType
  <2>6. expected = Total(P, h)
    BY <2>1 DEF SumFunction, Total
  <2> QED BY <2>2, <2>3, <2>4, <2>5, <2>6
<1> HIDE DEF observed, expected
<1>8. Scale * n * observed = 0 /\ Scale \in Nat
  BY <1>2, <1>6 DEF Scale
<1>9. expected # 0 => 0 \div expected = 0
  BY <1>7
<1> QED BY <1>1, <1>7, <1>8, <1>9

-----------------------------------------------------------------------------
(* Ballots that all follow one order *)

\* A vote without noise follows the order of the totals.
LEMMA BallotSame ==
    ASSUME NEW list, NEW total, Listed(list, total), NEW shift,
           \A e \in Range(list) : shift[e] = 0
    PROVE  SyntheticBallot(list, total, shift) = Ordinal(list, total)
<1> DEFINE place == Ordinal(list, total)
           score == [e \in Range(list) |-> -(10 * place[e] + shift[e])]
<1>1. \A e \in Range(list) : place[e] \in 1 .. Len(list)
  BY OrdinalTells
<1>2. Len(list) \in Nat
  BY LenProperties DEF Listed
<1>3. \A e \in Range(list) : place[e] \in Int
  <2> HIDE DEF place
  <2> QED BY <1>1, <1>2
<1>4. \A e \in Range(list) : score[e] = -(10 * place[e])
  <2> HIDE DEF place
  <2> QED BY <1>3
<1> HIDE DEF score
<1>5. Ordinal(list, score) = place
  BY <1>4, OrdinalAgain
<1> QED BY <1>5 DEF SyntheticBallot, score

\* So does a replicate, whoever is picked and however its sort treats ties.
LEMMA ReplicateSame ==
    ASSUME NEW list, NEW total, Listed(list, total), NEW ballots, NEW picks, NEW n \in Nat \ {0},
           DOMAIN picks = 1 .. n, NEW other, Listed(other, total), Range(other) = Range(list),
           \A k \in 1 .. n : ballots[picks[k]] = Ordinal(list, total)
    PROVE  Replicate(ballots, other, picks) = Ordinal(list, total)
<1> DEFINE R == Range(list)  place == Ordinal(list, total)
           score == [e \in R |-> -SumFunction([k \in DOMAIN picks |-> ballots[picks[k]][e]])]
<1>1. \A e, f \in R : place[e] \in 1 .. Len(list) /\ (place[e] = place[f] => e = f)
  BY OrdinalTells
<1>2. Len(list) \in Nat
  BY LenProperties DEF Listed
<1> HIDE DEF place
<1>3. ASSUME NEW e \in R
      PROVE  SumFunction([k \in DOMAIN picks |-> ballots[picks[k]][e]]) = n * place[e]
  <2> DEFINE D == 1 .. n  g == [k \in D |-> ballots[picks[k]][e]]
  <2>1. \A k \in D : g[k] = place[e]
    BY DEF place
  <2>2. IsFiniteSet(D) /\ Cardinality(D) = n /\ DOMAIN g = D
    BY CountUpTo
  <2>3. place[e] \in Int
    BY <1>1, <1>2
  <2> HIDE DEF D, g
  <2>4. Total(D, g) = place[e] * n
    BY <2>1, <2>2, <2>3, TotalConstant
  <2>5. SumFunction(g) = place[e] * n
    BY <2>2, <2>4 DEF SumFunction, Total
  <2>6. place[e] * n = n * place[e]
    BY <2>3
  <2> QED BY <2>5, <2>6 DEF g, D
<1>4. \A e \in R : score[e] = -(n * place[e])
  BY <1>3
<1> HIDE DEF score
<1>5. Ordinal(list, score) = place
  BY <1>4, OrdinalAgain DEF place
<1>6. \A e \in R : place[e] \in Int /\ score[e] \in Int
  BY <1>1, <1>2, <1>4
<1>7. ASSUME NEW e \in R, NEW f \in R, score[e] = score[f] PROVE e = f
  <2> DEFINE x == place[e]  y == place[f]
  <2>1. x \in Int /\ y \in Int /\ n * x = n * y
    BY <1>4, <1>6, <1>7
  <2> HIDE DEF x, y
  <2>2. x < y => n * x < n * y
    BY <2>1, TimesStrict
  <2>3. y < x => n * y < n * x
    BY <2>1, TimesStrict
  <2>4. x = y
    BY <2>1, <2>2, <2>3
  <2> QED BY <1>1, <2>4 DEF x, y
<1>8. Listed(list, score) /\ Listed(other, score)
  BY <1>6 DEF Listed
<1>9. Ordinal(other, score) = Ordinal(list, score)
  BY <1>7, <1>8, OrdinalDistinct
<1>10. Replicate(ballots, other, picks) = Ordinal(other, score)
  BY DEF Replicate, score
<1> QED BY <1>5, <1>9, <1>10 DEF place

-----------------------------------------------------------------------------
(* The synthetic cycle *)

\* What was seen of an entry, and the entries that are measured, in their order.
CellsOf(e) == {c \in DOMAIN input.seen.counts : c[1] = e}
SeenOf(e) == SumFunctionOnSet(input.seen.counts, CellsOf(e))
CycleStrata ==
    [e \in {c[1] : c \in DOMAIN input.seen.counts} |-> {c[2] : c \in CellsOf(e)}]
MeasuredList == Common(CycleList, Measured)
SeenTotal == [e \in Range(MeasuredList) |-> SeenOf(e)]
CyclePlace == Ordinal(MeasuredList, SeenTotal)

LEMMA MeasuredListIs ==
    ASSUME CycleAssumption
    PROVE  /\ MeasuredList \in Seq(Range(MeasuredList)) /\ IsInjective(MeasuredList)
           /\ Range(MeasuredList) = Measured
           /\ Len(MeasuredList) = Cardinality(Measured) /\ Cardinality(Measured) \in Nat
           /\ DOMAIN MeasuredList = 1 .. Len(MeasuredList)
           /\ IsFiniteSet(Measured)
<1> DEFINE K == {k \in DOMAIN CycleList : CycleList[k] \in Measured}  n == Cardinality(K)
           s == MeasuredList
<1>1. CycleList \in Seq(Range(CycleList)) /\ IsInjective(CycleList)
  BY DEF CycleAssumption
<1>2. Len(CycleList) \in Nat /\ DOMAIN CycleList = 1 .. Len(CycleList)
  BY <1>1, LenProperties
<1>3. K \in SUBSET Int /\ IsFiniteSet(K) /\ n \in Nat
  <2>1. IsFiniteSet(1 .. Len(CycleList)) /\ K \subseteq 1 .. Len(CycleList)
    BY <1>2, CountUpTo
  <2>2. IsFiniteSet(K) /\ Cardinality(K) \in Nat
    BY <2>1, CountSubset
  <2> QED BY <2>1, <2>2
<1>4. s = [k \in 1 .. n |-> CycleList[Nth(K, k)]]
  BY DEF MeasuredList, Common, Kept
<1>5. \A k \in K : k \in DOMAIN CycleList /\ CycleList[k] \in Measured
  OBVIOUS
<1>6. \A e \in Measured : \E k \in K : CycleList[k] = e
  BY DEF Measured, Range
<1> HIDE DEF K, s
<1>7. /\ \A i \in 1 .. n : Nth(K, i) \in K /\ Upto(K, Nth(K, i)) = i
      /\ \A k \in K : Nth(K, Upto(K, k)) = k /\ Upto(K, k) \in 1 .. n
  BY <1>3, NthIs, UptoOrder
<1> HIDE DEF n
<1>8. DOMAIN s = 1 .. n /\ \A i \in 1 .. n : s[i] = CycleList[Nth(K, i)]
  BY <1>4
<1>9. Range(s) = Measured
  <2>1. \A i \in 1 .. n : s[i] \in Measured
    BY <1>5, <1>7, <1>8
  <2>2. ASSUME NEW e \in Measured PROVE \E i \in 1 .. n : s[i] = e
    <3>1. PICK k \in K : CycleList[k] = e
      BY <1>6
    <3> QED BY <1>7, <1>8, <3>1
  <2> QED BY <1>8, <2>1, <2>2 DEF Range
<1>10. IsInjective(s)
  <2> SUFFICES ASSUME NEW i \in 1 .. n, NEW j \in 1 .. n, s[i] = s[j] PROVE i = j
    BY <1>8 DEF IsInjective
  <2>1. Nth(K, i) \in DOMAIN CycleList /\ Nth(K, j) \in DOMAIN CycleList
    BY <1>5, <1>7
  <2>2. CycleList[Nth(K, i)] = CycleList[Nth(K, j)]
    BY <1>8
  <2>3. Nth(K, i) = Nth(K, j)
    BY <1>1, <2>1, <2>2 DEF IsInjective
  <2> QED BY <1>7, <2>3
<1>11. s \in Seq(Range(s)) /\ Len(s) = n
  <2>1. s \in [1 .. n -> Range(s)]
    BY <1>4, <1>8 DEF Range
  <2>2. s \in Seq(Range(s))
    BY <1>3, <2>1, InSeq
  <2> QED BY <1>3, <1>8, <2>2, LenProperties
<1>12. IsFiniteSet(Range(s)) /\ Cardinality(Range(s)) = Len(s)
  BY <1>10, <1>11, ListedFinite
<1> QED BY <1>3, <1>8, <1>9, <1>10, <1>11, <1>12 DEF s

\* One measured entry is listed before another as it is in the taxonomy.
Earlier(e, f) == \E j, k \in DOMAIN CycleList : j < k /\ CycleList[j] = e /\ CycleList[k] = f

LEMMA MeasuredOrder ==
    ASSUME CycleAssumption, NEW i \in DOMAIN MeasuredList, NEW m \in DOMAIN MeasuredList
    PROVE  i < m <=> Earlier(MeasuredList[i], MeasuredList[m])
<1> DEFINE K == {k \in DOMAIN CycleList : CycleList[k] \in Measured}  n == Cardinality(K)
           s == MeasuredList
<1>1. CycleList \in Seq(Range(CycleList)) /\ IsInjective(CycleList)
  BY DEF CycleAssumption
<1>2. Len(CycleList) \in Nat /\ DOMAIN CycleList = 1 .. Len(CycleList)
  BY <1>1, LenProperties
<1>3. K \in SUBSET Int /\ IsFiniteSet(K) /\ n \in Nat /\ K \subseteq DOMAIN CycleList
  <2>1. IsFiniteSet(1 .. Len(CycleList)) /\ K \subseteq 1 .. Len(CycleList)
    BY <1>2, CountUpTo
  <2>2. IsFiniteSet(K) /\ Cardinality(K) \in Nat
    BY <2>1, CountSubset
  <2> QED BY <1>2, <2>1, <2>2
<1>4. s = [k \in 1 .. n |-> CycleList[Nth(K, k)]]
  BY DEF MeasuredList, Common, Kept
<1> HIDE DEF K, s
<1>5. \A k \in 1 .. n : Nth(K, k) \in K /\ Upto(K, Nth(K, k)) = k
  BY <1>3, NthIs
<1> HIDE DEF n
<1>6. i \in 1 .. n /\ m \in 1 .. n /\ s[i] = CycleList[Nth(K, i)] /\ s[m] = CycleList[Nth(K, m)]
  BY <1>4 DEF s
<1> DEFINE a == Nth(K, i)  b == Nth(K, m)
<1>7. a \in K /\ b \in K /\ a \in Int /\ b \in Int /\ Upto(K, a) = i /\ Upto(K, b) = m
  BY <1>3, <1>5, <1>6
<1> HIDE DEF a, b
<1>8. (a < b => i < m) /\ (b < a => m < i) /\ (a = b => i = m)
  BY <1>3, <1>7, UptoOrder
<1>9. i < m <=> a < b
  BY <1>3, <1>6, <1>7, <1>8
<1>10. Earlier(s[i], s[m]) <=> a < b
  <2>1. s[i] = CycleList[a] /\ s[m] = CycleList[b] /\ a \in DOMAIN CycleList /\ b \in DOMAIN CycleList
    BY <1>3, <1>6, <1>7 DEF a, b
  <2>2. ASSUME NEW j \in DOMAIN CycleList, NEW k \in DOMAIN CycleList, j < k,
               CycleList[j] = s[i], CycleList[k] = s[m]
        PROVE  a < b
    <3>1. j = a /\ k = b
      BY <1>1, <2>1, <2>2 DEF IsInjective
    <3> QED BY <2>2, <3>1
  <2> QED BY <2>1, <2>2 DEF Earlier
<1> QED BY <1>9, <1>10 DEF s

\* A listing of the measured entries, which the common ones of it are.
LEMMA MeasuredListing ==
    ASSUME CycleAssumption, NEW l \in Listings(Measured)
    PROVE  /\ Range(l) = Measured /\ IsInjective(l) /\ l \in Seq(Range(l))
           /\ Common(l, Measured) = l
<1>1. IsFiniteSet(Measured)
  BY MeasuredListIs
<1>2. /\ Range(l) = Measured /\ IsInjective(l) /\ l \in Seq(Range(l))
      /\ DOMAIN l = 1 .. Len(l) /\ Len(l) \in Nat
  BY <1>1, ListingIs
<1>3. {k \in DOMAIN l : l[k] \in Measured} = 1 .. Len(l)
  BY <1>2 DEF Range
<1>4. Common(l, Measured) = [k \in 1 .. Len(l) |-> l[k]]
  <2>1. Kept(l, 1 .. Len(l)) = [k \in 1 .. Len(l) |-> l[k]]
    BY ONLY <1>2, KeptAll
  <2> QED BY <1>3, <2>1 DEF Common
<1>5. l = [k \in 1 .. Len(l) |-> l[k]]
  BY <1>2
<1> QED BY <1>2, <1>4, <1>5

\* Every draw and every replicate has a listing for its ties.
LEMMA TiesAre ==
    ASSUME CycleAssumption, InitSynthetic
    PROVE  /\ \A d \in DOMAIN input.picks : input.ties.votes[d] \in Listings(Measured)
           /\ \A d \in DOMAIN input.lambda : input.ties.rates[d] \in Listings(Measured)
<1> DEFINE L == Listings(Measured)  votes == input.ties.votes  rates == input.ties.rates
           picks == input.picks  lambda == input.lambda  V == [Measured -> Nat]
           W == Seq(1 .. CycleVoters)
<1>1. votes \in CycleTies /\ rates \in CycleTies /\ picks \in CyclePicks /\ lambda \in CycleDraws
  BY DEF InitSynthetic
<1>2. /\ votes \in Seq(L) /\ Len(picks) <= Len(votes)
      /\ rates \in Seq(L) /\ Len(lambda) <= Len(rates)
      /\ picks \in Seq(W) /\ lambda \in Seq(V)
  BY <1>1 DEF CycleAssumption
<1> HIDE DEF L, votes, rates, picks, lambda, V, W
<1>3. /\ DOMAIN picks = 1 .. Len(picks) /\ DOMAIN lambda = 1 .. Len(lambda)
      /\ DOMAIN votes = 1 .. Len(votes) /\ DOMAIN rates = 1 .. Len(rates)
      /\ Len(picks) \in Nat /\ Len(lambda) \in Nat /\ Len(votes) \in Nat /\ Len(rates) \in Nat
  BY <1>2, LenProperties
<1>4. \A d \in DOMAIN picks : votes[d] \in L
  <2>1. \A d \in DOMAIN picks : d \in 1 .. Len(votes)
    BY <1>2, <1>3
  <2> QED BY <1>2, <2>1, ElementOfSeq
<1>5. \A d \in DOMAIN lambda : rates[d] \in L
  <2>1. \A d \in DOMAIN lambda : d \in 1 .. Len(rates)
    BY <1>2, <1>3
  <2> QED BY <1>2, <2>1, ElementOfSeq
<1> QED BY <1>4, <1>5 DEF L, votes, rates, picks, lambda

\* The totals and the exposures are numbers.
LEMMA SeenIs ==
    ASSUME CycleAssumption, InitSynthetic
    PROVE  /\ \A e : SeenOf(e) \in Int
           /\ Listed(MeasuredList, SeenTotal)
           /\ \A e : e \in DOMAIN CycleStrata <=> CellsOf(e) # {}
           /\ \A e \in DOMAIN CycleStrata :
                /\ CycleStrata[e] = {c[2] : c \in CellsOf(e)}
                /\ CycleStrata[e] \subseteq DOMAIN input.seen.sizes
                /\ Exposure(e, CycleStrata, input.seen.sizes) \in Int
<1> DEFINE counts == input.seen.counts  sizes == input.seen.sizes
<1>1. input.seen \in CycleSeen
  BY DEF InitSynthetic
<1>2. /\ IsFiniteSet(DOMAIN counts) /\ IsFiniteSet(DOMAIN sizes)
      /\ \A c \in DOMAIN counts : c[2] \in DOMAIN sizes /\ counts[c] \in Nat
      /\ \A s \in DOMAIN sizes : sizes[s] \in Nat
  BY <1>1 DEF CycleAssumption
<1>3. ASSUME NEW e PROVE SeenOf(e) \in Int
  <2>1. CellsOf(e) \subseteq DOMAIN counts
    BY DEF CellsOf
  <2>2. IsFiniteSet(CellsOf(e)) /\ \A c \in CellsOf(e) : counts[c] \in Int
    BY <1>2, <2>1, FS_Subset
  <2>3. Total(CellsOf(e), counts) \in Int
    BY <2>2, TotalType DEF Summable
  <2> QED BY <2>3 DEF SeenOf, Total
<1>4. Listed(MeasuredList, SeenTotal)
  BY <1>3, MeasuredListIs DEF Listed, SeenTotal
<1>5. \A e : e \in DOMAIN CycleStrata <=> CellsOf(e) # {}
  BY DEF CycleStrata, CellsOf
<1>6. ASSUME NEW e \in DOMAIN CycleStrata
      PROVE  /\ CycleStrata[e] = {c[2] : c \in CellsOf(e)}
             /\ CycleStrata[e] \subseteq DOMAIN sizes
             /\ Exposure(e, CycleStrata, sizes) \in Int
  <2>1. CycleStrata[e] = {c[2] : c \in CellsOf(e)}
    BY DEF CycleStrata
  <2>2. CycleStrata[e] \subseteq DOMAIN sizes
    BY <1>2, <2>1 DEF CellsOf
  <2> DEFINE S == CycleStrata[e]
  <2>3. IsFiniteSet(S) /\ \A s \in S : sizes[s] \in Int
    BY <1>2, <2>2, FS_Subset
  <2>4. Total(S, sizes) \in Int
    BY <2>3, TotalType DEF Summable
  <2> QED BY <2>1, <2>2, <2>4 DEF Exposure, Total
<1> QED BY <1>3, <1>4, <1>5, <1>6

NoShift == [e \in Measured |-> 0]
CycleBallots ==
    [k \in DOMAIN [j \in 1 .. CycleVoters |-> NoShift] |->
       SyntheticBallot(MeasuredList, SeenTotal, [j \in 1 .. CycleVoters |-> NoShift][k])]
CycleVotes ==
    [d \in DOMAIN input.picks |->
       Replicate(CycleBallots, input.ties.votes[d], input.picks[d])]
CycleConcordance ==
    Concordance(input.lambda, MeasuredList, input.ties.rates, CycleVotes, Range(MeasuredList),
                Len(MeasuredList), CycleLimits.meaningful, CycleLimits.minimum, CycleLimits.tau,
                CycleStrata, input.seen.sizes)

LEMMA CycleIs ==
    /\ Synthetic.published = FALSE
    /\ Synthetic.concordance =
         IF ~input.fits THEN [status |-> "n/a", below |-> Len(MeasuredList) < CycleLimits.minimum]
         ELSE CycleConcordance
BY DEF Synthetic, SyntheticCycle, CycleConcordance, CycleVotes, CycleBallots, NoShift, CycleStrata,
   CellsOf, SeenOf, SeenTotal, MeasuredList, Measured

\* All respondents vote alike, and so does every replicate.
LEMMA VotesAre ==
    ASSUME CycleAssumption, InitSynthetic
    PROVE  /\ Len(CycleVotes) \in Nat \ {0} /\ DOMAIN CycleVotes = 1 .. Len(CycleVotes)
           /\ \A d \in DOMAIN CycleVotes : CycleVotes[d] = CyclePlace
<1> DEFINE picks == input.picks
<1>1. /\ picks # <<>> /\ picks \in Seq(Seq(1 .. CycleVoters)) /\ <<>> \notin Range(picks)
      /\ CycleVoters \in Nat
  BY DEF InitSynthetic, CycleAssumption
<1>2. Len(picks) \in Nat \ {0} /\ DOMAIN picks = 1 .. Len(picks)
  BY <1>1, LenProperties, EmptySeq
<1>3. ASSUME NEW d \in DOMAIN picks
      PROVE  /\ Len(picks[d]) \in Nat \ {0} /\ DOMAIN picks[d] = 1 .. Len(picks[d])
             /\ \A k \in DOMAIN picks[d] : picks[d][k] \in 1 .. CycleVoters
  <2>1. picks[d] \in Seq(1 .. CycleVoters)
    BY <1>1, <1>2, ElementOfSeq
  <2>2. picks[d] # <<>>
    BY <1>1 DEF Range
  <2> DEFINE p == picks[d]  V == 1 .. CycleVoters
  <2>3. p \in Seq(V) /\ p # <<>>
    BY <2>1, <2>2
  <2> HIDE DEF p, V
  <2>4. Len(p) \in Nat \ {0} /\ DOMAIN p = 1 .. Len(p)
    BY <2>3, LenProperties, EmptySeq
  <2>5. \A k \in DOMAIN p : p[k] \in V
    BY <2>3, <2>4, ElementOfSeq
  <2> QED BY <2>4, <2>5 DEF p, V
<1>4. Listed(MeasuredList, SeenTotal)
  BY SeenIs
<1>5. ASSUME NEW k \in 1 .. CycleVoters PROVE CycleBallots[k] = CyclePlace
  <2>1. CycleBallots[k] = SyntheticBallot(MeasuredList, SeenTotal, NoShift)
    BY DEF CycleBallots
  <2>2. \A e \in Range(MeasuredList) : NoShift[e] = 0
    BY MeasuredListIs DEF NoShift
  <2> QED BY <1>4, <2>1, <2>2, BallotSame DEF CyclePlace
<1>6. ASSUME NEW d \in DOMAIN picks
      PROVE  Replicate(CycleBallots, input.ties.votes[d], picks[d]) = CyclePlace
  <2> DEFINE p == picks[d]  n == Len(p)  l == input.ties.votes[d]
  <2>0. Listed(l, SeenTotal) /\ Range(l) = Range(MeasuredList)
    <3>1. l \in Listings(Measured)
      BY TiesAre
    <3> HIDE DEF l
    <3>2. Range(l) = Measured /\ IsInjective(l) /\ l \in Seq(Range(l))
      BY <3>1, MeasuredListing
    <3> QED BY <1>4, <3>2, MeasuredListIs DEF Listed
  <2>1. n \in Nat \ {0} /\ DOMAIN p = 1 .. n /\ \A k \in 1 .. n : p[k] \in 1 .. CycleVoters
    BY <1>3
  <2> HIDE DEF p, n, l
  <2>2. \A k \in 1 .. n : CycleBallots[p[k]] = Ordinal(MeasuredList, SeenTotal)
    BY <1>5, <2>1 DEF CyclePlace
  <2>3. Replicate(CycleBallots, l, p) = Ordinal(MeasuredList, SeenTotal)
    BY ONLY <1>4, <2>0, <2>1, <2>2, ReplicateSame
  <2> QED BY <2>3 DEF CyclePlace, p, l
<1>7. DOMAIN CycleVotes = 1 .. Len(picks) /\ \A d \in 1 .. Len(picks) : CycleVotes[d] = CyclePlace
  BY <1>2, <1>6 DEF CycleVotes
<1>8. Len(CycleVotes) = Len(picks)
  <2> DEFINE n == Len(picks)  V == {CyclePlace}  s == CycleVotes
  <2>1. n \in Nat /\ s \in [1 .. n -> V]
    BY <1>2, <1>7 DEF CycleVotes
  <2> HIDE DEF n, V, s
  <2>2. s \in Seq(V) /\ DOMAIN s = 1 .. n
    BY <2>1, InSeq
  <2>3. Len(s) = n
    BY <2>1, <2>2, LenProperties
  <2> QED BY <2>3 DEF s, n
<1> QED BY <1>2, <1>7, <1>8

ExposureOf(e) == SumFunctionOnSet(input.seen.sizes, {c[2] : c \in CellsOf(e)})
SeenAhead(e, f) == SeenOf(e) > SeenOf(f) \/ (SeenOf(e) = SeenOf(f) /\ Earlier(e, f))
Faithful ==
    \A d \in DOMAIN input.lambda : \A e, f \in Measured :
      SeenAhead(e, f)
        <=> input.lambda[d][e] * ExposureOf(e) > input.lambda[d][f] * ExposureOf(f)

\* A posterior that orders as was observed ranks as the votes do, in any listing.
LEMMA FaithfulRanks ==
    ASSUME CycleAssumption, InitSynthetic, Faithful, \A e \in Measured : CellsOf(e) # {},
           NEW d \in DOMAIN input.lambda, NEW l \in Listings(Measured)
    PROVE  IncidenceRanks(input.lambda[d], l, CycleStrata, input.seen.sizes) = CyclePlace
<1> DEFINE M == Measured  list == MeasuredList
           other == [e \in M |-> input.lambda[d][e] * Exposure(e, CycleStrata, input.seen.sizes)]
<1>1. /\ Range(list) = M /\ list \in Seq(Range(list)) /\ IsInjective(list)
      /\ DOMAIN list = 1 .. Len(list) /\ Len(list) \in Nat
  BY MeasuredListIs
<1>2. \A e \in M : Exposure(e, CycleStrata, input.seen.sizes) \in Int
  BY SeenIs
<1>3. \A e \in M : Exposure(e, CycleStrata, input.seen.sizes) = ExposureOf(e)
  <2>1. \A e \in M : CycleStrata[e] = {c[2] : c \in CellsOf(e)}
    BY SeenIs
  <2> QED BY <2>1 DEF Exposure, ExposureOf
<1>4. input.lambda[d] \in [Measured -> Nat]
  <2>1. input.lambda \in Seq([Measured -> Nat])
    BY DEF InitSynthetic, CycleAssumption
  <2> DEFINE draws == input.lambda  V == [Measured -> Nat]
  <2>2. draws \in Seq(V) /\ d \in DOMAIN draws
    BY <2>1
  <2> HIDE DEF draws, V
  <2>3. draws[d] \in V
    BY <2>2, LenProperties, ElementOfSeq
  <2> QED BY <2>3 DEF draws, V
<1>5. \A e \in M : SeenOf(e) \in Int /\ SeenTotal[e] = SeenOf(e)
  BY <1>1, SeenIs DEF SeenTotal
<1>6. \A e \in M : other[e] \in Int /\ other[e] = input.lambda[d][e] * ExposureOf(e)
  <2>1. \A e \in M : input.lambda[d][e] \in Int
    BY <1>4
  <2> QED BY <1>2, <1>3, <2>1
<1>7. Range(l) = M /\ IsInjective(l) /\ l \in Seq(Range(l))
  BY MeasuredListing
<1>8. IncidenceRanks(input.lambda[d], l, CycleStrata, input.seen.sizes) = Ordinal(l, other)
  BY <1>7 DEF IncidenceRanks
<1> HIDE DEF other
<1>9. \A e, f \in M : SeenAhead(e, f) <=> other[e] > other[f]
  BY <1>6 DEF Faithful
<1>10. ASSUME NEW j \in DOMAIN list, NEW k \in DOMAIN list
       PROVE  /\ list[j] \in M /\ list[k] \in M
              /\ SeenAhead(list[j], list[k]) <=> RankedAhead(list, SeenTotal, j, k)
  <2>1. list[j] \in M /\ list[k] \in M
    BY <1>1 DEF Range
  <2>2. j < k <=> Earlier(list[j], list[k])
    BY MeasuredOrder
  <2> QED BY <1>5, <2>1, <2>2 DEF SeenAhead, RankedAhead
<1>11. ASSUME NEW e \in M, NEW f \in M, other[e] = other[f] PROVE e = f
  <2>1. PICK j \in DOMAIN list : list[j] = e
    BY <1>1 DEF Range
  <2>2. PICK k \in DOMAIN list : list[k] = f
    BY <1>1 DEF Range
  <2>3. ~SeenAhead(e, f) /\ ~SeenAhead(f, e)
    BY <1>6, <1>9, <1>11
  <2>4. ~RankedAhead(list, SeenTotal, j, k) /\ ~RankedAhead(list, SeenTotal, k, j)
    BY <1>10, <2>1, <2>2, <2>3
  <2>5. SeenTotal[list[j]] \in Int /\ SeenTotal[list[k]] \in Int /\ j \in Int /\ k \in Int
    BY <1>1, <1>5, <1>10
  <2>6. j = k
    BY <2>4, <2>5 DEF RankedAhead
  <2> QED BY <2>1, <2>2, <2>6
<1>12. Listed(list, other) /\ Listed(l, other)
  BY <1>1, <1>6, <1>7 DEF Listed
<1>13. Ordinal(l, other) = Ordinal(list, other)
  BY <1>1, <1>7, <1>11, <1>12, OrdinalDistinct
<1>14. ASSUME NEW k \in DOMAIN list PROVE Before(list, other, k) = Before(list, SeenTotal, k)
  <2>1. ASSUME NEW j \in DOMAIN list
        PROVE  RankedAhead(list, other, j, k) <=> RankedAhead(list, SeenTotal, j, k)
    <3>1. list[j] \in M /\ list[k] \in M
          /\ (RankedAhead(list, SeenTotal, j, k) <=> other[list[j]] > other[list[k]])
      BY <1>9, <1>10
    <3>2. other[list[j]] = other[list[k]] => j = k
      BY <1>1, <1>11, <3>1 DEF IsInjective
    <3>3. j \in Int /\ k \in Int
      BY <1>1
    <3> QED BY <3>1, <3>2, <3>3 DEF RankedAhead
  <2> QED BY <2>1 DEF Before
<1>15. ASSUME NEW e \in M PROVE Ordinal(list, other)[e] = Ordinal(list, SeenTotal)[e]
  <2>1. PlaceOf(list, e) \in DOMAIN list
    BY <1>1 DEF PlaceOf, Range
  <2> QED BY <1>1, <1>14, <2>1, OrdinalIs
<1>16. /\ Ordinal(list, other) = [e \in M |-> Ordinal(list, other)[e]]
       /\ Ordinal(list, SeenTotal) = [e \in M |-> Ordinal(list, SeenTotal)[e]]
  BY <1>1 DEF Ordinal
<1>17. Ordinal(list, other) = Ordinal(list, SeenTotal)
  BY <1>15, <1>16
<1> QED BY <1>8, <1>13, <1>17 DEF CyclePlace

\* The median rank of an entry, compared with itself.
LEMMA ComparedWithItself ==
    ASSUME NEW v \in Nat, NEW n \in Nat
    PROVE  Comparison(v, v, n) = [direction |-> "concordant", action |-> "confirmed"]
<1> DEFINE t == Tier2(v, n)
<1>1. t \in Nat
  BY TierType
<1> HIDE DEF t
<1>2. Abs(t - t) = 0 /\ Abs(v - v) = 0
  BY <1>1 DEF Abs
<1> QED BY <1>2 DEF Comparison, t

\* When the ranks and the votes are the same in every draw, nothing differs.
LEMMA ConcordanceIs ==
    ASSUME CycleAssumption, InitSynthetic
    PROVE  /\ (\E e \in Measured : CellsOf(e) = {}) => CycleConcordance.status = "refused"
           /\ (\A e \in Measured : CellsOf(e) # {}) =>
                IF Cardinality(Measured) < CycleLimits.meaningful
                THEN CycleConcordance.status = "n/a"
                ELSE /\ CycleConcordance.status = "computed"
                     /\ Faithful =>
                          /\ CycleConcordance.kappa2 = 2 * Scale
                          /\ DOMAIN CycleConcordance.flags = {}
                          /\ \A e \in Measured :
                               CycleConcordance.rows[e]
                                 = [direction |-> "concordant", action |-> "confirmed"]
<1> DEFINE list == MeasuredList  lambda == input.lambda  votes == CycleVotes
           strata == CycleStrata  sizes == input.seen.sizes  tau == CycleLimits.tau
           ties == input.ties.rates
           common == Common(list, Range(list))
           n == Len(common)
           draws == Min({Len(lambda), Len(votes)})
           ranks == [d \in 1 .. draws |->
                       IncidenceRanks(lambda[d], Common(ties[d], Range(list)), strata, sizes)]
           voteOf(d) == Restrict(votes[d], Range(common))
           differs(e) == {d \in 1 .. draws : Tier(ranks[d][e], n) # Tier(votes[d][e], n)}
           inc2(e, k) == Median2([d \in 1 .. Min({draws, k}) |-> ranks[d][e]])
           vote2(e, k) == Median2([d \in 1 .. k |-> votes[d][e]])
           flagged == {e \in Range(common) : Cardinality(differs(e)) * Scale > tau * draws}
           kappas == [d \in 1 .. draws |-> Kappa(ranks[d], voteOf(d))]
           empty == \E e \in Range(common) : e \notin DOMAIN strata
                      \/ ~(strata[e] \subseteq DOMAIN sizes)
           few == Len(list) < CycleLimits.meaningful \/ n < CycleLimits.meaningful
           below == Len(list) < CycleLimits.minimum
           full == [status |-> "computed", below |-> below, kappa2 |-> Median2(kappas),
                    flags |-> [e \in flagged |->
                                 Direction(vote2(e, Len(votes)), inc2(e, FlagDraws))],
                    rows |-> [e \in Range(common) |->
                                Comparison(vote2(e, draws), inc2(e, draws), n)]]
<1>1. CycleConcordance = IF empty THEN [status |-> "refused"]
                         ELSE IF few THEN [status |-> "n/a", below |-> below] ELSE full
  BY DEF CycleConcordance, Concordance
<1>2. /\ list \in Seq(Range(list)) /\ Range(list) = Measured /\ Len(list) = Cardinality(Measured)
      /\ Cardinality(Measured) \in Nat /\ DOMAIN list = 1 .. Len(list) /\ IsFiniteSet(Measured)
  BY MeasuredListIs
<1>3. common = list
  <2>1. list \in [1 .. Cardinality(Measured) -> Measured]
    <3>1. list = [k \in 1 .. Len(list) |-> list[k]] /\ \A k \in 1 .. Len(list) : list[k] \in Range(list)
      BY <1>2 DEF Range
    <3> QED BY <1>2, <3>1
  <2>2. list \in Listings(Measured)
    BY <2>1, MeasuredListIs DEF Listings
  <2>3. Common(list, Measured) = list
    BY <2>2, MeasuredListing
  <2> QED BY <1>2, <2>3
<1> HIDE DEF common
<1>4. n = Cardinality(Measured) /\ n \in Nat /\ Range(common) = Measured
  BY <1>2, <1>3
<1>5. empty <=> \E e \in Measured : CellsOf(e) = {}
  BY <1>4, SeenIs
<1>6. few <=> Cardinality(Measured) < CycleLimits.meaningful
  BY <1>2, <1>4
<1>7. /\ Len(votes) \in Nat \ {0} /\ DOMAIN votes = 1 .. Len(votes)
      /\ \A d \in DOMAIN votes : votes[d] = CyclePlace
  BY VotesAre
<1>8. Len(lambda) \in Nat \ {0} /\ DOMAIN lambda = 1 .. Len(lambda)
  <2>1. lambda \in Seq([Measured -> Nat]) /\ lambda # <<>>
    BY DEF InitSynthetic, CycleAssumption
  <2> HIDE DEF lambda
  <2> QED BY <2>1, LenProperties, EmptySeq
<1>9. draws \in Nat \ {0} /\ draws <= Len(lambda) /\ draws <= Len(votes)
  <2> DEFINE S == {Len(lambda), Len(votes)}
  <2>1. S \in SUBSET Nat /\ S # {}
    BY <1>7, <1>8
  <2> HIDE DEF S
  <2>2. Min(S) \in S /\ \A x \in S : Min(S) <= x
    BY <2>1, LeastIs
  <2> QED BY <1>7, <1>8, <2>2 DEF S
<1> HIDE DEF draws, votes, lambda, n
<1>10. ASSUME Faithful, \A e \in Measured : CellsOf(e) # {}
       PROVE  /\ Median2(kappas) = 2 * Scale /\ flagged = {}
              /\ \A e \in Measured : Comparison(vote2(e, draws), inc2(e, draws), n)
                                       = [direction |-> "concordant", action |-> "confirmed"]
  <2>1. ASSUME NEW d \in 1 .. draws PROVE ranks[d] = CyclePlace
    <3> DEFINE l == ties[d]
    <3>1. d \in DOMAIN input.lambda
      BY <1>8, <1>9 DEF lambda
    <3>2. l \in Listings(Measured)
      BY <3>1, TiesAre
    <3>3. ranks[d] = IncidenceRanks(lambda[d], Common(l, Measured), strata, sizes)
      BY <1>2
    <3> HIDE DEF l, ranks
    <3>4. Common(l, Measured) = l
      BY <3>2, MeasuredListing
    <3>5. IncidenceRanks(input.lambda[d], l, CycleStrata, input.seen.sizes) = CyclePlace
      BY <1>10, <3>1, <3>2, FaithfulRanks
    <3> QED BY <3>3, <3>4, <3>5 DEF lambda
  <2>2. \A d \in 1 .. draws : votes[d] = CyclePlace
    BY <1>7, <1>9
  <2>3. DOMAIN CyclePlace = Measured
    BY <1>2 DEF CyclePlace, Ordinal
  <2>4. \A e \in Measured : CyclePlace[e] \in Nat
    <3>1. \A e \in Measured : CyclePlace[e] \in 1 .. Len(list)
      BY <1>2, SeenIs, OrdinalTells DEF CyclePlace
    <3> QED BY <1>2, <3>1
  <2>5. \A d \in 1 .. draws : voteOf(d) = CyclePlace
    <3>1. CyclePlace = [e \in Measured |-> CyclePlace[e]]
      BY <1>2 DEF CyclePlace, Ordinal
    <3> QED BY <1>4, <2>2, <3>1 DEF Restrict
  <2> HIDE DEF ranks, voteOf
  <2>6. Median2(kappas) = 2 * Scale
    <3>1. Kappa(CyclePlace, CyclePlace) = Scale
      BY <1>2, <2>3, KappaSame
    <3>2. kappas \in [1 .. draws -> {Scale}]
      BY <2>1, <2>5, <3>1
    <3>3. Scale \in Nat
      BY DEF Scale
    <3> HIDE DEF kappas
    <3> QED BY <1>9, <3>2, <3>3, MedianSame
  <2>7. \A e \in Measured : differs(e) = {}
    BY <2>1, <2>2
  <2>8. flagged = {}
    <3>1. \A e \in Measured : Cardinality(differs(e)) = 0
      BY <2>7, FS_EmptySet
    <3>2. tau * draws \in Nat /\ Scale \in Nat
      <4>1. tau \in Nat
        BY DEF CycleAssumption
      <4> QED BY <1>9, <4>1 DEF Scale
    <3> HIDE DEF differs, tau
    <3> QED BY <1>4, <3>1, <3>2
  <2>9. ASSUME NEW e \in Measured
        PROVE  Comparison(vote2(e, draws), inc2(e, draws), n)
                 = [direction |-> "concordant", action |-> "confirmed"]
    <3> DEFINE v == CyclePlace[e]
    <3>1. v \in Nat
      BY <2>4
    <3>2. vote2(e, draws) = 2 * v
      <4> DEFINE s == [d \in 1 .. draws |-> votes[d][e]]
      <4>1. s \in [1 .. draws -> {v}]
        BY <2>2
      <4> HIDE DEF s, v
      <4>2. Median2(s) = 2 * v
        BY <1>9, <3>1, <4>1, MedianSame
      <4> QED BY <4>2 DEF s
    <3>3. inc2(e, draws) = 2 * v
      <4> DEFINE s == [d \in 1 .. draws |-> ranks[d][e]]
      <4>1. s \in [1 .. draws -> {v}]
        BY <2>1
      <4>2. Min({draws, draws}) = draws
        <5>1. {draws, draws} = {draws}
          OBVIOUS
        <5>2. {draws} \in SUBSET Nat /\ {draws} # {}
          BY <1>9
        <5>3. Min({draws}) \in {draws}
          BY <5>2, LeastIs
        <5> QED BY <5>1, <5>3
      <4> HIDE DEF s, v
      <4>3. Median2(s) = 2 * v
        BY <1>9, <3>1, <4>1, MedianSame
      <4> QED BY <4>2, <4>3 DEF s
    <3> HIDE DEF v, vote2, inc2
    <3>4. 2 * v \in Nat
      BY <3>1
    <3> QED BY <1>4, <3>2, <3>3, <3>4, ComparedWithItself
  <2> QED BY <2>6, <2>8, <2>9
<1> HIDE DEF kappas, flagged, vote2, inc2
<1>11. /\ full.status = "computed" /\ full.kappa2 = Median2(kappas)
       /\ DOMAIN full.flags = flagged
       /\ \A e \in Measured : full.rows[e] = Comparison(vote2(e, draws), inc2(e, draws), n)
  BY <1>4
<1> HIDE DEF full, empty, few
<1>12. ASSUME \E e \in Measured : CellsOf(e) = {} PROVE CycleConcordance.status = "refused"
  BY <1>1, <1>5, <1>12
<1>13. ASSUME \A e \in Measured : CellsOf(e) # {}, few PROVE CycleConcordance.status = "n/a"
  BY <1>1, <1>5, <1>13
<1>14. ASSUME \A e \in Measured : CellsOf(e) # {}, ~few PROVE CycleConcordance = full
  BY <1>1, <1>5, <1>14
<1>15. ASSUME \A e \in Measured : CellsOf(e) # {}, ~few
       PROVE  /\ CycleConcordance.status = "computed"
              /\ Faithful =>
                   /\ CycleConcordance.kappa2 = 2 * Scale
                   /\ DOMAIN CycleConcordance.flags = {}
                   /\ \A e \in Measured :
                        CycleConcordance.rows[e]
                          = [direction |-> "concordant", action |-> "confirmed"]
  <2>1. CycleConcordance = full
    BY <1>14, <1>15
  <2> QED BY <1>10, <1>11, <1>15, <2>1
<1> QED BY <1>6, <1>12, <1>13, <1>15

LEMMA SyntheticRule ==
    ASSUME CycleAssumption, InitSynthetic, rule = "synthetic", done, result = Synthetic
    PROVE  SyntheticCycleConcordant
<1> DEFINE cells(e) == {c \in DOMAIN input.seen.counts : c[1] = e}
           total(e) == SumFunctionOnSet(input.seen.counts, cells(e))
           exposure(e) == SumFunctionOnSet(input.seen.sizes, {c[2] : c \in cells(e)})
           seenAhead(e, f) == total(e) > total(f)
                                \/ (total(e) = total(f) /\ \E j, k \in DOMAIN CycleList :
                                      j < k /\ CycleList[j] = e /\ CycleList[k] = f)
           faithful == \A d \in DOMAIN input.lambda : \A e, f \in Measured :
                         seenAhead(e, f)
                           <=> input.lambda[d][e] * exposure(e) > input.lambda[d][f] * exposure(f)
           c == result.concordance
           Outcome ==
             /\ ~result.published
             /\ c.status = (IF ~input.fits THEN "n/a"
                            ELSE IF \E e \in Measured : cells(e) = {} THEN "refused"
                            ELSE IF Cardinality(Measured) < CycleLimits.meaningful THEN "n/a"
                            ELSE "computed")
             /\ c.status = "computed" /\ faithful =>
                  /\ c.kappa2 = 2 * Scale /\ DOMAIN c.flags = {}
                  /\ \A e \in Measured : c.rows[e] = [direction |-> "concordant",
                                                      action |-> "confirmed"]
<1>1. Outcome => SyntheticCycleConcordant
  BY DEF SyntheticCycleConcordant
<1>2. \A e : cells(e) = CellsOf(e)
  BY DEF CellsOf
<1>3. \A e : total(e) = SeenOf(e) /\ exposure(e) = ExposureOf(e)
  BY DEF CellsOf, SeenOf, ExposureOf
<1> HIDE DEF total, exposure
<1>4. faithful => Faithful
  <2>1. \A e, f : seenAhead(e, f) <=> SeenAhead(e, f)
    BY <1>3 DEF SeenAhead, Earlier
  <2> HIDE DEF seenAhead
  <2> QED BY <1>3, <2>1 DEF Faithful
<1> HIDE DEF cells, faithful
<1>5. ~result.published
  BY CycleIs
<1>6. ASSUME ~input.fits PROVE Outcome
  <2>1. c.status = "n/a"
    BY <1>6, CycleIs
  <2> HIDE DEF c
  <2> QED BY <1>5, <1>6, <2>1
<1>7. ASSUME input.fits PROVE Outcome
  <2>1. c = CycleConcordance
    BY <1>7, CycleIs
  <2> HIDE DEF c
  <2>2. CASE \E e \in Measured : cells(e) = {}
    <3>1. c.status = "refused"
      BY <1>2, <2>1, <2>2, ConcordanceIs
    <3> QED BY <1>5, <1>7, <2>2, <3>1
  <2>3. CASE ~(\E e \in Measured : cells(e) = {})
    <3>1. \A e \in Measured : CellsOf(e) # {}
      BY <1>2, <2>3
    <3>2. CASE Cardinality(Measured) < CycleLimits.meaningful
      <4>1. c.status = "n/a"
        BY <2>1, <3>1, <3>2, ConcordanceIs
      <4> QED BY <1>5, <1>7, <2>3, <3>2, <4>1
    <3>3. CASE ~(Cardinality(Measured) < CycleLimits.meaningful)
      <4>1. c.status = "computed"
        BY <2>1, <3>1, <3>3, ConcordanceIs
      <4>2. Faithful => /\ c.kappa2 = 2 * Scale /\ DOMAIN c.flags = {}
                        /\ \A e \in Measured : c.rows[e] = [direction |-> "concordant",
                                                            action |-> "confirmed"]
        BY <2>1, <3>1, <3>3, ConcordanceIs
      <4> QED BY <1>4, <1>5, <1>7, <2>3, <3>3, <4>1, <4>2
    <3> QED BY <3>2, <3>3
  <2> QED BY <2>2, <2>3
<1> HIDE DEF Outcome
<1> QED BY <1>1, <1>6, <1>7

\* In a synthetic cycle whose votes carry no noise and whose posterior orders the
\* entries as they were observed, of equal counts the one listed first, kappa is
\* one, nothing is flagged and every entry is confirmed; an entry that was never
\* observed stops the cycle.  Holds for every taxonomy, every corpus, any number
\* of draws, respondents and replicates and whoever these pick, however the two
\* sorts treat ties, and for every share that flags an entry.
THEOREM SyntheticConcordant == Spec => []SyntheticCycleConcordant
<1>1. RuleInv => SyntheticCycleConcordant
  <2> SUFFICES ASSUME RuleInv, rule = "synthetic", done PROVE SyntheticCycleConcordant
    BY DEF SyntheticCycleConcordant
  <2>1. InitSynthetic /\ result = Synthetic
    BY PickedFor DEF RuleInv, Applied
  <2> QED BY <2>1, CycleAssumption, SyntheticRule
<1> QED BY <1>1, RuleIsApplied, PTL
=============================================================================
