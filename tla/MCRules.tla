------------------------------- MODULE MCRules -------------------------------
(* The universes over which TLC applies the rules of Rules. *)
EXTENDS Rules

\* Selecting places is selecting elements, and the closed forms of sorting sort.
ASSUME KeptIsSelectSeq ==
    \A s \in SeqOf({"a", "b"}, 4) :
      Kept(s, {k \in DOMAIN s : s[k] = "a"}) = SelectSeq(s, LAMBDA x : x = "a")
ASSUME SortedIsSortSeq ==
    \A S \in SUBSET (0 .. 3) :
      Sorted(S, LAMBDA a, b : a > b) = SortSeq(SetToSeq(S), LAMBDA a, b : a > b)
ASSUME NthValueIsSortSeq ==
    \A s \in SeqOf(0 .. 2, 4) : \A n \in DOMAIN s :
      NthValue(s, n) = SortSeq(s, LAMBDA a, b : a < b)[n]

\* The variance registered for the joint model of decide/prospective_power.py, a
\* fifth on the diagonal and a fifteenth off it, is 0.936; to detect a kappa of
\* 0.40 with a power of 0.8 takes 46 entries, and 20 do not tell it from zero.
ASSUME PowerIsAsRegistered ==
    LET H1 == [i \in 1 .. 3 |-> [j \in 1 .. 3 |-> IF i = j THEN 3 ELSE 1]]
        sure == [i \in 1 .. 3 |-> [j \in 1 .. 3 |-> IF i = j THEN 1 ELSE 0]]
    IN  /\ Sigma2(H1) = 936 /\ Sigma2(sure) = 0
        /\ SampleSize(936, 7849, 160) = 46
        /\ ~ExcludesZero(936, 3841, 160, 20) /\ ExcludesZero(936, 3841, 160, 23)
\* The twin with full recall and no leakage is the observed rate, half the recall
\* doubles it; it agrees with a posterior of the same order on every pair and
\* with one of the opposite order on none.
ASSUME TwinIsDebiased ==
    LET cells == {"e"} \X {"s", "t"}
        count(n) == [c \in cells |-> IF c[2] = "s" THEN 2 * n ELSE n]
        flat(n) == [c \in cells |-> n]
        estimate(n, recall, leak) ==
          TwinEstimate("e", {"s", "t"}, count(n), [s |-> 1, t |-> 2], flat(recall), flat(leak))
        list == <<"A", "B", "C">>
        f == [A |-> 1, B |-> 2, C |-> 3]
    IN  /\ \A n \in 0 .. 4 :
             /\ estimate(n, Scale, 0) = Scale * n
             /\ estimate(n, Scale \div 2, 0) = 2 * Scale * n
             /\ estimate(n, Scale, 8 * Scale) = 0
        /\ TwinDisagreements(list, f, [e \in DOMAIN f |-> 7 * f[e]], 3) = {}
        /\ \A top \in 2 .. 3 :
             Cardinality(TwinDisagreements(list, f, [e \in DOMAIN f |-> -f[e]], top)) = 3

\* Two entries, one with two patterns and a counter-pattern.
MCRuleBook == [A |-> [positive |-> {"w1", "w2"}, negative |-> {"n"}],
               B |-> [positive |-> {"w2"}, negative |-> {}]]

\* Half of the pairs of fields that are treated alike is left out.
MCManifests ==
    {m \in [schema : 1 .. 4, analysis : {"a", "b"}, f6 : {"off", "K8"},
            power : {"off", "0.8"}, specs : {{}, {"hierarchical_pooling"}},
            sigma_u : {"none", "1"}, goldset_hash : {"g", "h"},
            overlap_min_fp : {1}, lambda_min : {0}] :
       m.analysis = "a" \/ (m.goldset_hash = "g" /\ m.power = "off")}

MCBaseTally ==
    [precision |-> [c \in {<<"A", "security">>, <<"A", "ai-harm">>} |-> [tp |-> 1, fp |-> 2]],
     recall |-> [c \in {<<"A", "ai-harm">>} |-> [tp |-> 5, fn |-> 5]],
     rollup |-> [c \in {} |-> 0]]
MCParts == {{}, {1}, {1, 2}, {2, 3}}

\* Every entry is observed once, and a fourth row may label an incident again.
MCList == <<"A", "B", "C">>
MCRows == {[k \in 1 .. 4 |-> IF k = 4 THEN [id |-> i, entry |-> e] ELSE [id |-> k, entry |-> MCList[k]]]
             : i \in {1, 4}, e \in {"A", "B", "C"}}
MCDraws == {<<f, [A |-> 2, B |-> 0, C |-> 1]>> : f \in [{"A", "B", "C"} -> 0 .. 2]}
MCColumns == <<"A", "B", "C", "A">>
MCVotePicks == {<<1>>, <<1, 2>>, <<2, 2>>}

\* Two records of either corpus; a date after 2 is after the snapshot.
Links == {"", "u1"}
MCSecurityRecords ==
    {[k \in 1 .. 2 |->
        [id |-> k, date |-> date[k], corpus |-> "security", owasp_llm |-> <<"LLM03">>,
         severity |-> "Medium", quality |-> "auto", category |-> "report",
         references |-> IF url[k] = "" THEN <<>> ELSE <<url[k]>>,
         cves |-> cves[k], words |-> words[k]]]
       : url \in [1 .. 2 -> Links], cves \in [1 .. 2 -> SUBSET {"c1"}],
         date \in [1 .. 2 -> {2, 3}], words \in [1 .. 2 -> SUBSET {"w"}]}
MCTableLines ==
    LET other(kind) == [kind |-> kind, url |-> "", cves |-> {}, words |-> {"w"}]
        row(u, c, w) == [kind |-> "row", url |-> u, cves |-> c, words |-> w]
    IN  {<<other("row"), other("header"), other("separator"), row(url[1], cves[1], words[1]),
           other("untitled"), row(url[2], cves[2], words[2])>>
           : url \in [1 .. 2 -> Links], cves \in [1 .. 2 -> SUBSET {"c1", "c2"}],
             words \in [1 .. 2 -> SUBSET {"w"}]}

MCRollupOf == [R |-> "A"]
MCBlindSets == {{}, {"B", "C"}}
MCCounts == {0, 9, 10, 11, 12, 13, 100, 120, 121, 300, 350, 351}

\* Four incidents of X and three of Y in the lockbox, one of Z that is sparse.
\* The first hits of a class are predicted right; outside the lockbox anything.
MCConfigs == <<"c1", "c2">>
MCTruths == {[i \in 1 .. 9 |-> IF i \in 1 .. 4 \cup {8} THEN {"X"} ELSE IF i = 9 THEN {"Y", "Z"} ELSE {"Y"}]}
MCLockboxes == {1 .. 7, 1 .. 5}
PredictedHits(hits, outside) ==
    [i \in 1 .. 9 |->
       IF i > 7 THEN outside
       ELSE LET c == IF i <= 4 THEN "X" ELSE "Y"  n == IF i <= 4 THEN i ELSE i - 4
            IN  IF n <= hits[c] THEN c ELSE IF c = "X" THEN "Y" ELSE "X"]
MCPredictions ==
    {PredictedHits(h, "X") : h \in [X : {0, 2, 4}, Y : {0, 3}]}
      \cup {PredictedHits([X |-> 4, Y |-> 0], "Y"), [i \in {1, 2, 5, 6} |-> IF i < 5 THEN "X" ELSE "Z"],
            [i \in 1 .. 9 |-> IF i = 7 THEN "W" ELSE "X"]}
\* The quantiles of the chi-square distribution with one degree of freedom.
MCCriticalAt ==
    <<<<3841>>, <<5024, 3841>>, <<5731, 4529, 3841>>, <<6239, 5024, 4328, 3841>>,
      <<6635, 5412, 4709, 4218, 3841>>, <<6960, 5731, 5024, 4529, 4149, 3841>>>>

\* Three entries that are seen in one stratum or two, and a frame-blind one.
MCCycleList == <<"E1", "E2", "E3", "E4">>
MCCycleSeen ==
    {[counts |-> [c \in {<<e, "s1">> : e \in {f \in DOMAIN first : first[f] > 0}}
                           \cup (IF second = 0 THEN {} ELSE {<<"E2", "s2">>})
                    |-> IF c[2] = "s1" THEN first[c[1]] ELSE second],
      sizes |-> [s1 |-> 6, s2 |-> 2]]
       : first \in [{"E1", "E2", "E3"} -> 0 .. 2], second \in 0 .. 1}
\* One draw or, the last rates twice, two.
MCCycleDraws ==
    {<<d>> : d \in [{"E1", "E2", "E3"} -> 1 .. 3]}
      \cup {<<d, [E1 |-> 1, E2 |-> 1, E3 |-> 2]>> : d \in [{"E1", "E2", "E3"} -> 1 .. 2]}
MCCyclePicks == {<<<<1, 2>>>>, <<<<2, 2>>, <<1, 2>>>>}
\* The listings are not the order of the entries.
MCCycleTies == {<<<<"E3", "E1", "E2">>, <<"E2", "E3", "E1">>>>}
MCCycleLimits == [meaningful |-> 3, minimum |-> 2, tau |-> 6]
=============================================================================
