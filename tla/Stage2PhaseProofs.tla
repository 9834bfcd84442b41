-------------------------- MODULE Stage2PhaseProofs --------------------------
(* Theorems about Stage2Phase, for every pool, queue, ceiling and rate. *)
EXTENDS Stage2Phase, FiniteSetTheorems, TLAPS

-----------------------------------------------------------------------------
(* The inductive invariant *)

\* The threads that passed the cost guard, or both guards, and are not done.
PastCost == {t \in Threads : pc[t].at \in {"rate", "call", "retry"}}
PastRate == {t \in Threads : pc[t].at \in {"call", "retry"}}

\* The incidents by what became of their futures.
Over    == {i \in Queue : future[i] # "waiting"}
Heard   == {i \in Queue : future[i] \in {"answered", "fallback"}}
Unheard == {i \in Queue : future[i] = "fallback"}

Outcomes == {"answered", "fallback", "raised"}
Work == [at : {"check", "rate", "call", "retry"}, incident : Queue]

Types ==
    /\ next \in 1 .. Routed + 1
    /\ pc \in [Threads -> {Idle} \cup Work]
    /\ future \in [Queue -> {"waiting"} \cup Outcomes]
    /\ spent \in Nat /\ total \in Nat /\ fallbacks \in Nat
    /\ collected \subseteq Queue
    /\ main \in {"ready", "collecting", "draining"} \cup Finished

\* An incident is in the hands of one thread at most, and then waits.
Hands ==
    /\ \A t \in Threads : pc[t] # Idle =>
         pc[t].incident < next /\ future[pc[t].incident] = "waiting"
    /\ \A t, u \in Threads :
         pc[t] # Idle /\ pc[u] # Idle /\ t # u => pc[t].incident # pc[u].incident
    /\ \A i \in Queue : i >= next => future[i] = "waiting"

\* Each call is counted once: as charged or as a fallback.
Counts ==
    /\ total = spent + fallbacks
    /\ fallbacks = Cardinality(Unheard)
    /\ Cardinality(Heard) <= total /\ total <= Cardinality(Over)

\* Who passed a guard may still add one to what it looked at.
CostBound == spent + Cardinality(PastCost) <= Ceiling + Cardinality(Threads) - 1
RateBound ==
    \/ total + Cardinality(PastRate) <= Window + Cardinality(Threads)
    \/ (fallbacks + Cardinality(PastRate)) * PerFallback
         <= total + Cardinality(Threads) * PerFallback

CollectedHeard ==
    /\ collected \subseteq Heard
    /\ main = "written" => collected = Queue

IInv == Types /\ Hands /\ Counts /\ CostBound /\ RateBound /\ CollectedHeard

-----------------------------------------------------------------------------
(* Cardinalities *)

LEMMA ThreadCards ==
    ASSUME Stage2Assumption
    PROVE  /\ Cardinality(Threads) \in Nat /\ Cardinality(Threads) >= 1
           /\ \A S \in SUBSET Threads :
                IsFiniteSet(S) /\ Cardinality(S) \in Nat /\ Cardinality(S) <= Cardinality(Threads)
<1>1. IsFiniteSet(Threads) /\ Threads # {}
  BY DEF Stage2Assumption
<1> QED BY <1>1, FS_CardinalityType, FS_EmptySet, FS_Subset

LEMMA QueueCards ==
    ASSUME Stage2Assumption
    PROVE  /\ IsFiniteSet(Queue) /\ Cardinality(Queue) = Routed
           /\ \A S \in SUBSET Queue :
                IsFiniteSet(S) /\ Cardinality(S) \in Nat /\ Cardinality(S) <= Routed
<1>1. Routed \in Nat
  BY DEF Stage2Assumption
<1>2. IsFiniteSet(Queue) /\ Cardinality(Queue) = Routed
  BY <1>1, FS_Interval DEF Queue
<1> QED BY <1>2, FS_CardinalityType, FS_Subset

-----------------------------------------------------------------------------
(* What a thread does to its own entry *)

\* A thread that is done leaves the sets of threads, and its incident enters
\* the sets of its outcome, in which it was not.
LEMMA DoneEffect ==
    ASSUME Stage2Assumption, IInv, NEW t \in Threads, pc[t] # Idle,
           NEW f \in Outcomes, Done(t, f)
    PROVE  /\ pc' \in [Threads -> {Idle} \cup Work]
           /\ future' \in [Queue -> {"waiting"} \cup Outcomes]
           /\ Hands' /\ CollectedHeard'
           /\ PastCost' = PastCost \ {t} /\ PastRate' = PastRate \ {t}
           /\ Cardinality(Over') = Cardinality(Over) + 1
           /\ Cardinality(Heard') =
                Cardinality(Heard) + (IF f \in {"answered", "fallback"} THEN 1 ELSE 0)
           /\ Cardinality(Unheard') =
                Cardinality(Unheard) + (IF f = "fallback" THEN 1 ELSE 0)
<1> DEFINE i == pc[t].incident
<1>1. pc[t] \in Work /\ i \in Queue
  BY DEF IInv, Types, Work
<1>2. /\ pc' = [pc EXCEPT ![t] = Idle] /\ future' = [future EXCEPT ![i] = f]
      /\ next' = next /\ collected' = collected /\ main' = main
  BY DEF Done
<1>3. pc' \in [Threads -> {Idle} \cup Work]
  BY <1>2 DEF IInv, Types
<1>4. future' \in [Queue -> {"waiting"} \cup Outcomes]
  BY <1>1, <1>2 DEF IInv, Types
<1>5. future[i] = "waiting" /\ i < next
  BY DEF IInv, Hands
<1>6. Hands'
  <2>1. \A u \in Threads : pc'[u] # Idle => u # t /\ pc'[u] = pc[u] /\ pc[u].incident # i
    BY <1>2 DEF IInv, Types, Hands
  <2>2. \A j \in Queue : j # i => future'[j] = future[j]
    BY <1>1, <1>2 DEF IInv, Types
  <2>3. \A u \in Threads : pc[u] # Idle => pc[u].incident \in Queue
    BY DEF IInv, Types, Work
  <2>4. i \in 1 .. Routed /\ next \in 1 .. Routed + 1 /\ Routed \in Nat
    BY <1>1 DEF Queue, IInv, Types, Stage2Assumption
  <2>5. \A j \in Queue : j >= next => j # i
    BY <1>5, <2>4 DEF Queue
  <2> QED BY <1>2, <2>1, <2>2, <2>3, <2>5 DEF IInv, Hands
<1>7. PastCost' = PastCost \ {t} /\ PastRate' = PastRate \ {t}
  BY <1>2 DEF IInv, Types, PastCost, PastRate, Idle
<1>8. /\ Over' = Over \cup {i} /\ i \notin Over
      /\ Heard' = (IF f \in {"answered", "fallback"} THEN Heard \cup {i} ELSE Heard)
      /\ Unheard' = (IF f = "fallback" THEN Unheard \cup {i} ELSE Unheard)
      /\ i \notin Heard /\ i \notin Unheard
  BY <1>1, <1>2, <1>5 DEF IInv, Types, Outcomes, Over, Heard, Unheard
<1>9. IsFiniteSet(Over) /\ IsFiniteSet(Heard) /\ IsFiniteSet(Unheard)
      /\ Cardinality(Heard) \in Nat /\ Cardinality(Unheard) \in Nat
  BY QueueCards DEF Over, Heard, Unheard
<1>10. /\ Cardinality(Over') = Cardinality(Over) + 1
       /\ Cardinality(Heard') =
            Cardinality(Heard) + (IF f \in {"answered", "fallback"} THEN 1 ELSE 0)
       /\ Cardinality(Unheard') =
            Cardinality(Unheard) + (IF f = "fallback" THEN 1 ELSE 0)
  <2>1. Cardinality(Over \cup {i}) = Cardinality(Over) + 1
    BY <1>8, <1>9, FS_AddElement
  <2>2. Cardinality(Heard \cup {i}) = Cardinality(Heard) + 1
    BY <1>8, <1>9, FS_AddElement
  <2>3. Cardinality(Unheard \cup {i}) = Cardinality(Unheard) + 1
    BY <1>8, <1>9, FS_AddElement
  <2>4. CASE f = "fallback"
    BY <1>8, <2>1, <2>2, <2>3, <2>4
  <2>5. CASE f = "answered"
    BY <1>8, <1>9, <2>1, <2>2, <2>5
  <2>6. CASE f = "raised"
    BY <1>8, <1>9, <2>1, <2>6
  <2> QED BY <2>4, <2>5, <2>6 DEF Outcomes
<1>11. CollectedHeard'
  BY <1>2, <1>8 DEF IInv, CollectedHeard
<1> QED BY <1>3, <1>4, <1>6, <1>7, <1>10, <1>11

\* A thread that goes on keeps its incident.
LEMMA MoveEffect ==
    ASSUME Stage2Assumption, IInv, NEW t \in Threads, pc[t] # Idle,
           NEW a \in {"rate", "call", "retry"},
           pc' = [pc EXCEPT ![t].at = a], UNCHANGED <<next, future, collected, main>>
    PROVE  /\ pc' \in [Threads -> {Idle} \cup Work]
           /\ Hands' /\ CollectedHeard'
           /\ PastCost' = PastCost \cup {t}
           /\ PastRate' = (IF a = "rate" THEN PastRate \ {t} ELSE PastRate \cup {t})
           /\ Over' = Over /\ Heard' = Heard /\ Unheard' = Unheard
<1>1. pc[t] \in Work
  BY DEF IInv, Types
<1>2. /\ pc'[t] \in Work /\ pc'[t].at = a /\ pc'[t].incident = pc[t].incident
      /\ \A u \in Threads : u # t => pc'[u] = pc[u]
      /\ DOMAIN pc' = Threads
  BY <1>1 DEF IInv, Types, Work
<1>3. pc' \in [Threads -> {Idle} \cup Work]
  BY <1>2 DEF IInv, Types
<1>4. \A u \in Threads : pc'[u] # Idle => pc[u] # Idle /\ pc'[u].incident = pc[u].incident
  BY <1>2
<1>5. Hands'
  BY <1>4 DEF IInv, Hands
<1>6. Over' = Over /\ Heard' = Heard /\ Unheard' = Unheard
  BY DEF Over, Heard, Unheard
<1>7. CollectedHeard'
  BY <1>6 DEF IInv, CollectedHeard
<1>8. PastCost' = PastCost \cup {t}
      /\ PastRate' = (IF a = "rate" THEN PastRate \ {t} ELSE PastRate \cup {t})
  BY <1>2 DEF PastCost, PastRate
<1> QED BY <1>3, <1>5, <1>6, <1>7, <1>8

\* The numbers of threads past the guards before and after a thread is done.
LEMMA PastCards ==
    ASSUME Stage2Assumption, NEW t \in Threads
    PROVE  /\ Cardinality(PastCost) \in Nat /\ Cardinality(PastRate) \in Nat
           /\ Cardinality(PastCost \ {t}) =
                Cardinality(PastCost) - (IF t \in PastCost THEN 1 ELSE 0)
           /\ Cardinality(PastRate \ {t}) =
                Cardinality(PastRate) - (IF t \in PastRate THEN 1 ELSE 0)
<1>1. PastCost \subseteq Threads /\ PastRate \subseteq Threads
  BY DEF PastCost, PastRate
<1>2. /\ IsFiniteSet(PastCost) /\ IsFiniteSet(PastRate)
      /\ Cardinality(PastCost) \in Nat /\ Cardinality(PastRate) \in Nat
  BY <1>1, ThreadCards
<1>3. /\ Cardinality(PastCost \ {t}) =
           IF t \in PastCost THEN Cardinality(PastCost) - 1 ELSE Cardinality(PastCost)
      /\ Cardinality(PastRate \ {t}) =
           IF t \in PastRate THEN Cardinality(PastRate) - 1 ELSE Cardinality(PastRate)
  BY <1>2, FS_RemoveElement
<1> QED BY <1>2, <1>3

-----------------------------------------------------------------------------
LEMMA InitIInv == ASSUME Stage2Assumption, Stage2Init PROVE IInv
<1>1. Types
  BY DEF Stage2Assumption, Stage2Init, Types
<1>2. Hands
  BY DEF Stage2Init, Hands, Queue
<1>3. PastCost = {} /\ PastRate = {} /\ Over = {} /\ Heard = {} /\ Unheard = {}
  BY DEF Stage2Init, PastCost, PastRate, Over, Heard, Unheard, Idle
<1>4. Cardinality({}) = 0
  BY FS_EmptySet
<1>5. Counts
  BY <1>3, <1>4 DEF Stage2Init, Counts
<1>6. CostBound /\ RateBound
  BY <1>3, <1>4, ThreadCards DEF Stage2Init, CostBound, RateBound, Stage2Assumption
<1>7. CollectedHeard
  BY DEF Stage2Init, CollectedHeard
<1> QED BY <1>1, <1>2, <1>5, <1>6, <1>7 DEF IInv

\* What a thread that is done does to the bounds, by how it changed the counters.
LEMMA DoneIInv ==
    ASSUME Stage2Assumption, IInv, NEW t \in Threads, pc[t] # Idle,
           NEW f \in Outcomes, Done(t, f),
           \/ /\ f = "raised" /\ UNCHANGED <<spent, total, fallbacks>>
           \/ /\ f # "fallback" /\ t \in PastRate
              /\ spent' = spent + 1 /\ total' = total + 1 /\ UNCHANGED fallbacks
           \/ /\ f = "fallback" /\ t \in PastRate
              /\ total' = total + 1 /\ fallbacks' = fallbacks + 1 /\ UNCHANGED spent
    PROVE  IInv'
<1>1. Types'
  <2>1. /\ pc' \in [Threads -> {Idle} \cup Work]
        /\ future' \in [Queue -> {"waiting"} \cup Outcomes]
    BY DoneEffect
  <2>2. next' = next /\ collected' = collected /\ main' = main
    BY DEF Done
  <2>3. spent' \in Nat /\ total' \in Nat /\ fallbacks' \in Nat
    BY DEF IInv, Types
  <2> QED BY <2>1, <2>2, <2>3 DEF IInv, Types
<1>2. Hands' /\ CollectedHeard'
  BY DoneEffect
<1>3. Cardinality(Over) \in Nat /\ Cardinality(Heard) \in Nat /\ Cardinality(Unheard) \in Nat
  BY QueueCards DEF Over, Heard, Unheard
<1>4. Counts'
  BY <1>3, DoneEffect DEF IInv, Types, Counts, Outcomes
<1>5. t \in PastRate => t \in PastCost
  BY DEF PastRate, PastCost
<1>6. /\ Cardinality(PastCost') = Cardinality(PastCost) - (IF t \in PastCost THEN 1 ELSE 0)
      /\ Cardinality(PastRate') = Cardinality(PastRate) - (IF t \in PastRate THEN 1 ELSE 0)
      /\ Cardinality(PastCost) \in Nat /\ Cardinality(PastRate) \in Nat
  BY DoneEffect, PastCards
<1>7. CostBound'
  BY <1>5, <1>6, ThreadCards DEF IInv, Types, CostBound, Stage2Assumption
<1>8. RateBound'
  <2> DEFINE p == Cardinality(PastRate)
  <2> DEFINE q == Cardinality(PastRate')
  <2>1. /\ p \in Nat /\ q \in Nat /\ q <= p
        /\ \/ total' = total /\ fallbacks' = fallbacks
           \/ q = p - 1 /\ total' = total + 1 /\ fallbacks' \in {fallbacks, fallbacks + 1}
    <3>1. PastRate' \subseteq Threads
      BY DoneEffect DEF PastRate
    <3>2. p \in Nat /\ q \in Nat
      BY <1>6, <3>1, ThreadCards
    <3>3. CASE t \in PastRate
      BY <1>6, <3>2, <3>3
    <3>4. CASE t \notin PastRate
      BY <1>6, <3>2, <3>4
    <3> QED BY <3>2, <3>3, <3>4
  <2>2. /\ total' + q <= total + p
        /\ fallbacks' + q <= fallbacks + p /\ total' >= total
    BY <2>1 DEF IInv, Types
  <2>3. (fallbacks' + q) * PerFallback <= (fallbacks + p) * PerFallback
    BY <2>1, <2>2 DEF IInv, Types, Stage2Assumption
  <2> QED
    BY <2>1, <2>2, <2>3, ThreadCards DEF IInv, Types, RateBound, Stage2Assumption
<1> QED BY <1>1, <1>2, <1>4, <1>7, <1>8 DEF IInv

\* A thread that goes on past a guard found the counters within it.
LEMMA MoveIInv ==
    ASSUME Stage2Assumption, IInv, NEW t \in Threads, pc[t] # Idle,
           NEW a \in {"rate", "call", "retry"},
           pc' = [pc EXCEPT ![t].at = a], UNCHANGED <<next, future, collected, main>>,
           UNCHANGED <<spent, total, fallbacks>>,
           t \notin PastCost => ~OverCeiling,
           a # "rate" /\ t \notin PastRate => ~RateExceeded
    PROVE  IInv'
<1>1. Types'
  BY MoveEffect DEF IInv, Types
<1>2. Hands' /\ CollectedHeard'
  BY MoveEffect
<1>3. Counts'
  BY MoveEffect DEF IInv, Counts
<1>4. PastCost' \subseteq Threads /\ PastRate' \subseteq Threads
  BY MoveEffect DEF PastCost, PastRate
<1>5. /\ Cardinality(PastCost') \in Nat /\ Cardinality(PastCost') <= Cardinality(Threads)
      /\ Cardinality(PastRate') \in Nat /\ Cardinality(PastRate') <= Cardinality(Threads)
  BY <1>4, ThreadCards
<1>6. CostBound'
  <2>1. CASE t \in PastCost
    <3>0. PastCost' = PastCost \cup {t}
      BY MoveEffect
    <3>1. PastCost' = PastCost
      BY <2>1, <3>0
    <3> QED BY <3>1 DEF IInv, CostBound
  <2>2. CASE t \notin PastCost
    BY <2>2, <1>5, ThreadCards DEF IInv, Types, CostBound, OverCeiling, Stage2Assumption
  <2> QED BY <2>1, <2>2
<1>7. RateBound'
  <2>1. CASE a # "rate" /\ t \notin PastRate
    <3>1. total <= Window \/ fallbacks * PerFallback <= total
      BY <2>1 DEF RateExceeded, IInv, Types, Stage2Assumption
    <3> DEFINE q == Cardinality(PastRate')
    <3> DEFINE n == Cardinality(Threads)
    <3>2. q \in Nat /\ n \in Nat /\ q <= n /\ PerFallback \in Nat
      BY <1>5, ThreadCards DEF Stage2Assumption
    <3>3. q * PerFallback <= n * PerFallback
      BY <3>2
    <3>4. (fallbacks + q) * PerFallback = fallbacks * PerFallback + q * PerFallback
      BY <3>2 DEF IInv, Types
    <3> QED BY <3>1, <3>2, <3>3, <3>4 DEF IInv, Types, RateBound, Stage2Assumption
  <2>2. CASE a # "rate" /\ t \in PastRate
    <3>0. PastRate' = PastRate \cup {t}
      BY <2>2, MoveEffect
    <3>1. PastRate' = PastRate
      BY <2>2, <3>0
    <3> QED BY <3>1 DEF IInv, RateBound
  <2>3. CASE a = "rate"
    <3>1. PastRate' = PastRate \ {t}
      BY <2>3, MoveEffect
    <3> DEFINE p == Cardinality(PastRate)
    <3> DEFINE q == Cardinality(PastRate')
    <3>2. p \in Nat /\ q \in Nat /\ q <= p
      <4>1. IsFiniteSet(PastRate) /\ p \in Nat
        BY ThreadCards DEF PastRate
      <4>2. PastRate' \in SUBSET PastRate
        BY <3>1
      <4> QED BY <1>5, <4>1, <4>2, FS_Subset
    <3>3. (fallbacks + q) * PerFallback <= (fallbacks + p) * PerFallback
      BY <3>2 DEF IInv, Types, Stage2Assumption
    <3> QED BY <3>2, <3>3, ThreadCards DEF IInv, Types, RateBound, Stage2Assumption
  <2> QED BY <2>1, <2>2, <2>3
<1> QED BY <1>1, <1>2, <1>3, <1>6, <1>7 DEF IInv

-----------------------------------------------------------------------------
LEMMA TakeIInv ==
    ASSUME Stage2Assumption, IInv, NEW t \in Threads, Take(t) PROVE IInv'
<1>1. /\ pc[t] = Idle /\ next <= Routed
      /\ pc' = [pc EXCEPT ![t] = [at |-> "check", incident |-> next]] /\ next' = next + 1
      /\ UNCHANGED <<future, spent, total, fallbacks, collected, main>>
  BY DEF Take
<1>2. next \in Queue /\ next \in Nat /\ Routed \in Nat
  BY <1>1 DEF IInv, Types, Queue, Stage2Assumption
<1>3. /\ pc'[t] = [at |-> "check", incident |-> next]
      /\ \A u \in Threads : u # t => pc'[u] = pc[u]
  BY <1>1 DEF IInv, Types
<1>4. Types'
  BY <1>1, <1>2 DEF IInv, Types, Work
<1>5. Hands'
  <2>1. \A u \in Threads : pc[u] # Idle => pc[u].incident < next /\ pc[u].incident \in Queue
    BY DEF IInv, Types, Hands, Work
  <2>2. \A i \in Queue : i \in Nat
    BY DEF Queue
  <2>3. ASSUME NEW u \in Threads, pc'[u] # Idle
        PROVE  pc'[u].incident < next' /\ future'[pc'[u].incident] = "waiting"
    <3>1. CASE u = t
      BY <1>1, <1>2, <1>3, <3>1 DEF IInv, Hands
    <3>2. CASE u # t
      <4>1. pc'[u] = pc[u] /\ pc[u] # Idle
        BY <1>3, <2>3, <3>2
      <4>2. pc[u].incident \in Nat /\ pc[u].incident < next
            /\ future[pc[u].incident] = "waiting"
        BY <2>1, <2>2, <4>1 DEF IInv, Hands
      <4> QED BY <1>1, <1>2, <4>1, <4>2
    <3> QED BY <3>1, <3>2
  <2>4. ASSUME NEW u \in Threads, NEW v \in Threads, pc'[u] # Idle, pc'[v] # Idle, u # v
        PROVE  pc'[u].incident # pc'[v].incident
    BY <1>1, <1>2, <1>3, <2>1, <2>2, <2>4 DEF IInv, Hands
  <2>5. \A i \in Queue : i >= next' => future'[i] = "waiting"
    BY <1>1, <1>2, <2>2 DEF IInv, Hands
  <2> QED BY <2>3, <2>4, <2>5 DEF Hands
<1>6. PastCost' = PastCost /\ PastRate' = PastRate
  BY <1>1, <1>3 DEF PastCost, PastRate, Idle
<1>7. Over' = Over /\ Heard' = Heard /\ Unheard' = Unheard
  BY <1>1 DEF Over, Heard, Unheard
<1> QED
  BY <1>1, <1>4, <1>5, <1>6, <1>7 DEF IInv, Counts, CostBound, RateBound, CollectedHeard

LEMMA WorkerIInv ==
    ASSUME Stage2Assumption, IInv, NEW t \in Threads, Worker(t) PROVE IInv'
<1>1. CASE Take(t)
  BY <1>1, TakeIInv
<1>2. ASSUME pc[t].at # "idle" PROVE pc[t] # Idle
  BY <1>2 DEF Idle
<1>3. CASE CheckCost(t)
  <2>1. pc[t] # Idle /\ t \notin PastRate
    BY <1>2, <1>3 DEF CheckCost, PastRate
  <2>2. CASE Done(t, "raised")
    BY <1>3, <2>1, <2>2, DoneIInv DEF CheckCost, Outcomes
  <2>3. CASE ~OverCeiling /\ pc' = [pc EXCEPT ![t].at = "rate"]
             /\ UNCHANGED <<next, future, collected, main>>
    BY <1>3, <2>1, <2>3, MoveIInv DEF CheckCost
  <2> QED BY <1>3, <2>2, <2>3 DEF CheckCost
<1>4. CASE CheckRate(t)
  <2>1. pc[t] # Idle /\ t \in PastCost
    BY <1>2, <1>4 DEF CheckRate, PastCost
  <2>2. CASE Done(t, "raised")
    BY <1>4, <2>1, <2>2, DoneIInv DEF CheckRate, Outcomes
  <2>3. CASE ~RateExceeded /\ pc' = [pc EXCEPT ![t].at = "call"]
             /\ UNCHANGED <<next, future, collected, main>>
    BY <1>4, <2>1, <2>3, MoveIInv DEF CheckRate
  <2> QED BY <1>4, <2>2, <2>3 DEF CheckRate
<1>5. ASSUME pc[t].at \in {"call", "retry"}
      PROVE  pc[t] # Idle /\ t \in PastRate /\ t \in PastCost
  BY <1>2, <1>5 DEF PastRate, PastCost
<1>6. CASE Answer(t)
  <2>1. PICK f \in {"answered", "raised"} : Done(t, f)
    BY <1>6 DEF Answer
  <2> QED BY <1>5, <1>6, <2>1, DoneIInv DEF Answer, Outcomes
<1>7. CASE Garbled(t)
  BY <1>5, <1>7, DoneIInv DEF Garbled, Outcomes
<1>8. CASE FailCall(t)
  <2>1. CASE pc[t].at = "call" /\ pc' = [pc EXCEPT ![t].at = "retry"]
             /\ UNCHANGED <<next, future, collected, main, spent, total, fallbacks>>
    BY <1>5, <2>1, MoveIInv
  <2>2. CASE pc[t].at = "retry" /\ total' = total + 1 /\ fallbacks' = fallbacks + 1
             /\ Done(t, "fallback") /\ UNCHANGED spent
    BY <1>5, <2>2, DoneIInv DEF Outcomes
  <2> QED BY <1>8, <2>1, <2>2 DEF FailCall
<1> QED BY <1>1, <1>3, <1>4, <1>6, <1>7, <1>8 DEF Worker

LEMMA MainIInv == ASSUME Stage2Assumption, IInv, StartPool \/ Main PROVE IInv'
<1>1. UNCHANGED <<next, pc, future, spent, total, fallbacks>>
  BY DEF StartPool, Main, Collect, WriteLabels, Abort
<1>2. PastCost' = PastCost /\ PastRate' = PastRate
      /\ Over' = Over /\ Heard' = Heard /\ Unheard' = Unheard
  BY <1>1 DEF PastCost, PastRate, Over, Heard, Unheard
<1>3. Hands' /\ Counts' /\ CostBound' /\ RateBound'
  BY <1>1, <1>2 DEF IInv, Hands, Counts, CostBound, RateBound
<1>4. collected' \subseteq Heard /\ main' \in {"ready", "collecting", "draining"} \cup Finished
      /\ (main' = "written" => collected' = Queue)
  <2>1. CASE Collect
    <3>1. PICK i \in Queue \ collected :
            /\ future[i] # "waiting"
            /\ IF future[i] = "raised"
               THEN main' = "draining" /\ UNCHANGED collected
               ELSE collected' = collected \cup {i} /\ UNCHANGED main
      BY <2>1 DEF Collect
    <3>2. main = "collecting"
      BY <2>1 DEF Collect
    <3>3. future[i] # "raised" => i \in Heard
      BY <3>1 DEF IInv, Types, Outcomes, Heard
    <3> QED BY <3>1, <3>2, <3>3 DEF IInv, CollectedHeard
  <2>2. CASE StartPool \/ WriteLabels \/ Abort
    BY <2>2 DEF StartPool, WriteLabels, Abort, Finished, IInv, CollectedHeard
  <2> QED BY <2>1, <2>2 DEF Main
<1>5. Types'
  BY <1>1, <1>4 DEF IInv, Types, Heard
<1>6. CollectedHeard'
  BY <1>2, <1>4 DEF CollectedHeard
<1> QED BY <1>3, <1>5, <1>6 DEF IInv

LEMMA NextIInv == ASSUME Stage2Assumption, IInv, [Stage2Next]_s2vars PROVE IInv'
<1>1. CASE UNCHANGED s2vars
  BY <1>1 DEF s2vars, IInv, Types, Hands, Counts, CostBound, RateBound, CollectedHeard,
              PastCost, PastRate, Over, Heard, Unheard
<1> QED BY <1>1, MainIInv, WorkerIInv DEF Stage2Next

-----------------------------------------------------------------------------
\* The counters and the queue keep their bounds: no incident is asked about
\* twice, and no call is counted without an incident.  stage2.py.
THEOREM TypeCorrect == ASSUME Stage2Assumption PROVE Stage2Spec => []Stage2TypeOK
<1>1. IInv => Stage2TypeOK
  <2> SUFFICES ASSUME IInv PROVE Stage2TypeOK
    OBVIOUS
  <2>1. Cardinality(Over) \in Nat /\ Cardinality(Over) <= Routed /\ Routed \in Nat
    BY QueueCards DEF Over, Stage2Assumption
  <2>2. spent \in 0 .. Routed /\ total \in 0 .. Routed /\ fallbacks \in 0 .. Routed
    BY <2>1 DEF IInv, Types, Counts
  <2> QED BY <2>2 DEF IInv, Types, Stage2TypeOK, Work, Outcomes
<1> QED BY <1>1, InitIInv, NextIInv, PTL DEF Stage2Spec

\* With any number of threads the money overruns its ceiling by less than one
\* call per thread, and labels are written only if the fallbacks overran their
\* rate by at most one per thread: stage2.py classify, cost_tracker.py.
THEOREM GuardsLag == ASSUME Stage2Assumption PROVE Stage2Spec => []GuardsLagByThreads
<1>1. IInv => GuardsLagByThreads
  <2> SUFFICES ASSUME IInv PROVE GuardsLagByThreads
    OBVIOUS
  <2> DEFINE n == Cardinality(Threads)
  <2>1. n \in Nat /\ Cardinality(PastCost) \in Nat /\ Cardinality(PastRate) \in Nat
    BY ThreadCards DEF PastCost, PastRate
  <2>2. spent <= Ceiling + n - 1
    BY <2>1 DEF IInv, Types, CostBound, Stage2Assumption
  <2>3. ASSUME main = "written", Routed > Window + n
        PROVE  Cardinality(Unheard) * PerFallback <= Routed + n * PerFallback
    <3>1. Heard = Queue /\ Over = Queue
      BY <2>3 DEF IInv, CollectedHeard, Heard, Over
    <3>2. total = Routed
      BY <3>1, QueueCards DEF IInv, Types, Counts, Stage2Assumption
    <3>3. (fallbacks + Cardinality(PastRate)) * PerFallback <= Routed + n * PerFallback
      BY <2>1, <2>3, <3>2 DEF IInv, RateBound, Stage2Assumption
    <3>4. fallbacks * PerFallback <= (fallbacks + Cardinality(PastRate)) * PerFallback
      BY <2>1 DEF IInv, Types, Stage2Assumption
    <3>5. /\ fallbacks * PerFallback \in Nat /\ Routed + n * PerFallback \in Nat
          /\ (fallbacks + Cardinality(PastRate)) * PerFallback \in Nat
      BY <2>1 DEF IInv, Types, Stage2Assumption
    <3>6. fallbacks * PerFallback <= Routed + n * PerFallback
      BY <3>3, <3>4, <3>5
    <3> QED BY <3>6 DEF IInv, Counts
  <2> QED BY <2>2, <2>3 DEF GuardsLagByThreads, Unheard
<1> QED BY <1>1, InitIInv, NextIInv, PTL DEF Stage2Spec

\* No label is left out: what is written has an outcome of its own for every
\* routed incident, an exception in a thread prevents it.  pipeline.py.
THEOREM WrittenIsComplete ==
    ASSUME Stage2Assumption
    PROVE  Stage2Spec =>
             [](main = "written" => \A i \in Queue : future[i] \in {"answered", "fallback"})
<1>1. IInv => (main = "written" => \A i \in Queue : future[i] \in {"answered", "fallback"})
  BY DEF IInv, CollectedHeard, Heard
<1> QED BY <1>1, InitIInv, NextIInv, PTL DEF Stage2Spec
=============================================================================
