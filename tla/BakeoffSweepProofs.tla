------------------------- MODULE BakeoffSweepProofs -------------------------
(* Theorems about BakeoffSweep, for every grid, gold set, pool and ceiling. *)
EXTENDS BakeoffSweep, FiniteSetTheorems, TLAPS

-----------------------------------------------------------------------------
(* The inductive invariant *)

InPool == pc \in {"predict", "unwind"}

\* Jobs exist only while the pool does; what is left behind is settled.
JobsInPool ==
    /\ ~InPool => \A i \in Incidents : work[i] \in {"none", "drained"}
    /\ pc \in {"predict", "unwind", "open", "write"} => cur \in Configs

\* The pool's jobs are the incidents of the gold set without a persisted label.
JobsOpen ==
    /\ pc \in {"predict", "unwind", "open", "write"} =>
        /\ preds[cur] = inner[cur]
        /\ \A i \in gold : work[i] \in {"none", "drained"} => i \in inner[cur]
    /\ InPool =>
        \A i \in Incidents :
            work[i] \notin {"none", "drained"} => i \notin inner[cur]

\* An outer checkpoint in the making, and the finished ones.
Checkpoints ==
    /\ InitialGold \subseteq gold
    /\ pc \in {"predict", "unwind", "open", "write"} =>
           outerState[cur] # "whole"
    /\ SkippedIsComplete

\* What the process holds of the configs it is done with is what their
\* checkpoints hold.
Resumed ==
    \A c \in Configs : c < cur => outerState[c] = "whole" /\ preds[c] = outer[c]

\* Jobs whose last charge may have come at or after the ceiling.
Charged == {i \in Incidents : work[i] \in {"answered", "erred", "failed"}}

\* Every charge from the one that reaches the ceiling on is of another job.
Overspend == spent >= Ceiling => spent < Ceiling + Cardinality(Charged)

\* A job that still calls has an attempt left.
Attempts ==
    \A i \in Incidents : work[i] \in {"queued", "calling"} => tries[i] < MaxRetries

IInv ==
    /\ TypeOK
    /\ Attempts
    /\ JobsInPool
    /\ JobsOpen
    /\ Checkpoints
    /\ Overspend
    /\ Resumed
    /\ WinnerReproducible

-----------------------------------------------------------------------------
(* The cardinality of the charged jobs *)

LEMMA ChargedFinite ==
    /\ IsFiniteSet(Charged)
    /\ Cardinality(Charged) \in Nat
    /\ Cardinality(Charged) <= Cardinality(Incidents)
<1>1. Charged \in SUBSET Incidents
  BY DEF Charged
<1> QED
  BY <1>1, IncidentsAssumption, FS_Subset, FS_CardinalityType

\* A charge takes a job from "calling" into the set, a broken call does too.
LEMMA ChargedGrows ==
    ASSUME TypeOK, NEW i \in Incidents, work[i] = "calling",
           NEW s \in {"answered", "erred", "failed"},
           work' = [work EXCEPT ![i] = s]
    PROVE  Cardinality(Charged') = Cardinality(Charged) + 1
<1>1. Charged' = Charged \cup {i}
  BY DEF Charged, TypeOK
<1>2. i \notin Charged
  BY DEF Charged
<1> QED
  BY <1>1, <1>2, ChargedFinite, FS_AddElement

\* Nothing is charged between two configs.
LEMMA ChargedEmpty ==
    ASSUME \A i \in Incidents : work[i] \in {"none", "drained"}
    PROVE  Cardinality(Charged) = 0
<1>1. Charged = {}
  BY DEF Charged
<1> QED
  BY <1>1, FS_EmptySet

-----------------------------------------------------------------------------
(* Every step preserves the invariant *)

LEMMA InitInv == Init => IInv
<1> SUFFICES ASSUME Init PROVE IInv
  OBVIOUS
<1> USE GridAssumption, IncidentsAssumption, LimitsAssumption
<1>1. TypeOK
  BY DEF Init, TypeOK, Nothing, Configs, Jobs
<1>2. JobsInPool /\ JobsOpen
  BY DEF Init, JobsInPool, JobsOpen, InPool
<1>3. Checkpoints
  BY DEF Init, Checkpoints, SkippedIsComplete, Configs
<1>4. Attempts /\ Overspend /\ Resumed /\ WinnerReproducible
  BY DEF Init, Attempts, Overspend, Resumed, WinnerReproducible, Configs
<1> QED
  BY <1>1, <1>2, <1>3, <1>4 DEF IInv

\* A process that ends leaves nothing but its files.
LEMMA EndsInv ==
    ASSUME IInv, ProcessEnds, labelled' = labelled,
           UNCHANGED <<gold, inner, outerState, outer>>,
           \/ UNCHANGED scored
           \/ /\ cur > NumConfigs /\ Covered
              /\ scored' = [written |-> TRUE, lockbox |-> lockbox,
                            preds |-> preds]
    PROVE  IInv'
<1> USE GridAssumption, IncidentsAssumption, LimitsAssumption
<1>1. TypeOK'
  <2>1. TypeOK
    BY DEF IInv
  <2>2. scored' \in [written : BOOLEAN, lockbox : SUBSET Incidents,
                     preds : [Configs -> SUBSET Incidents]]
    <3>1. lockbox \in SUBSET Incidents /\ preds \in [Configs -> SUBSET Incidents]
      BY <2>1 DEF TypeOK
    <3>2. CASE UNCHANGED scored
      BY <2>1, <3>2 DEF TypeOK
    <3>3. CASE scored' = [written |-> TRUE, lockbox |-> lockbox, preds |-> preds]
      BY <3>1, <3>3
    <3> QED
      BY <3>2, <3>3
  <2>3. /\ pc' = "down" /\ cur' \in 1 .. NumConfigs + 1
        /\ lockbox' = {} /\ preds' \in [Configs -> SUBSET Incidents]
    BY DEF ProcessEnds, Nothing, Configs
  <2>4. /\ work' \in [Incidents -> Jobs] /\ spent' \in Nat
        /\ tries' \in [Incidents -> 0 .. MaxRetries]
    BY DEF ProcessEnds, Jobs
  <2> QED
    BY <2>1, <2>2, <2>3, <2>4 DEF TypeOK
<1>2. JobsInPool' /\ JobsOpen'
  BY DEF ProcessEnds, JobsInPool, JobsOpen, InPool
<1>3. Checkpoints'
  BY DEF IInv, ProcessEnds, Checkpoints, SkippedIsComplete
<1>4. Attempts' /\ Overspend'
  BY DEF ProcessEnds, Attempts, Overspend
<1>5. Resumed'
  BY DEF ProcessEnds, Resumed, Configs
<1>6. WinnerReproducible'
  <2>1. TypeOK /\ Resumed /\ SkippedIsComplete /\ WinnerReproducible
    BY DEF IInv, Checkpoints
  <2>2. CASE UNCHANGED scored
    BY <2>1, <2>2 DEF WinnerReproducible
  <2>3. CASE /\ cur > NumConfigs /\ Covered
             /\ scored' = [written |-> TRUE, lockbox |-> lockbox, preds |-> preds]
    <3> SUFFICES ASSUME NEW c \in Configs
                 PROVE  /\ outerState[c] = "whole" /\ outer[c] = preds[c]
                        /\ lockbox \subseteq outer[c] /\ outer[c] \subseteq inner[c]
      BY <2>3 DEF WinnerReproducible
    <3>1. c < cur
      BY <2>1, <2>3 DEF TypeOK, Configs
    <3> QED
      BY <2>1, <2>3, <3>1 DEF Resumed, Covered, SkippedIsComplete
  <2> QED
    BY <2>2, <2>3
<1> QED
  BY <1>1, <1>2, <1>3, <1>4, <1>5, <1>6 DEF IInv

\* A step of a job touches neither files nor main thread.
LEMMA JobInv ==
    ASSUME IInv, NEW i \in Incidents,
           work[i] \notin {"none", "drained"},
           NEW s \in Jobs \ {"none", "drained"},
           work' = [work EXCEPT ![i] = s],
           tries' \in [Incidents -> 0 .. MaxRetries],
           spent' \in Nat,
           labelled' \in [Configs -> SUBSET Incidents],
           UNCHANGED <<files, main>>,
           Attempts', Overspend'
    PROVE  IInv'
<1> USE DEF files, main
<1>1. TypeOK'
  BY DEF IInv, TypeOK
<1>2. JobsInPool'
  BY DEF IInv, TypeOK, JobsInPool, InPool
<1>3. JobsOpen'
  BY DEF IInv, TypeOK, JobsInPool, JobsOpen, InPool
<1>4. Checkpoints' /\ Resumed' /\ WinnerReproducible'
  BY DEF IInv, Checkpoints, SkippedIsComplete, Resumed, WinnerReproducible
<1> QED
  BY <1>1, <1>2, <1>3, <1>4 DEF IInv

LEMMA WorkerInv ==
    ASSUME IInv, NEW i \in Incidents, Worker(i)
    PROVE  IInv'
<1> USE DEF Jobs, Job
<1>t. TypeOK /\ Attempts /\ Overspend
  BY DEF IInv
<1>n. /\ Ceiling \in Nat \ {0} /\ MaxRetries \in Nat \ {0}
      /\ spent \in Nat /\ Cardinality(Charged) \in Nat
  BY <1>t, LimitsAssumption, ChargedFinite DEF TypeOK
<1>c. pc # "next" => cur \in 1 .. NumConfigs + 1
  BY <1>t DEF TypeOK
<1>1. CASE StartJob(i)
  <2>1. Charged' = Charged
    BY <1>1, <1>t DEF StartJob, Charged, TypeOK
  <2>2. Overspend'
    BY <1>1, <1>t, <2>1 DEF StartJob, Overspend
  <2>3. Attempts'
    BY <1>1, <1>t DEF StartJob, Attempts, TypeOK
  <2> QED
    BY <1>1, <1>t, <2>2, <2>3, JobInv DEF StartJob, TypeOK
<1>2. CASE CallAnswered(i) \/ CallErrs(i)
  <2>1. PICK s \in {"answered", "erred"} : work' = [work EXCEPT ![i] = s]
    BY <1>2 DEF CallAnswered, CallErrs
  <2>2. Cardinality(Charged') = Cardinality(Charged) + 1
    BY <1>2, <1>t, <2>1, ChargedGrows DEF CallAnswered, CallErrs
  <2>3. Overspend'
    BY <1>2, <1>t, <1>n, <2>2 DEF CallAnswered, CallErrs, Overspend
  <2>4. tries' \in [Incidents -> 0 .. MaxRetries]
    <3>1. CASE CallAnswered(i)
      BY <1>t, <3>1 DEF CallAnswered, TypeOK
    <3>2. CASE CallErrs(i)
      <4>1. tries[i] + 1 \in 0 .. MaxRetries
        BY <1>t, <1>n, <3>2 DEF CallErrs, Attempts, TypeOK
      <4> QED
        BY <1>t, <3>2, <4>1 DEF CallErrs, TypeOK
    <3> QED
      BY <1>2, <3>1, <3>2
  <2>5. Attempts'
    BY <1>2, <1>t DEF CallAnswered, CallErrs, Attempts, TypeOK
  <2>6. /\ work[i] = "calling" /\ spent' = spent + 1
        /\ UNCHANGED <<files, main, labelled>>
    BY <1>2 DEF CallAnswered, CallErrs
  <2>7. spent' \in Nat /\ labelled' \in [Configs -> SUBSET Incidents]
    BY <1>t, <2>6 DEF TypeOK
  <2> QED
    BY <2>1, <2>3, <2>4, <2>5, <2>6, <2>7, JobInv
<1>3. CASE CallBreaks(i)
  <2>1. Cardinality(Charged') = Cardinality(Charged) + 1
    BY <1>3, <1>t, ChargedGrows DEF CallBreaks
  <2>2. Overspend'
    BY <1>3, <1>t, <1>n, <2>1 DEF CallBreaks, Overspend
  <2>3. Attempts'
    BY <1>3, <1>t DEF CallBreaks, Attempts, TypeOK
  <2> QED
    BY <1>3, <1>t, <2>2, <2>3, JobInv DEF CallBreaks, TypeOK
<1>4. CASE AnswerKept(i) \/ Retry(i)
  <2>1. Overspend'
    BY <1>4, <1>n DEF AnswerKept, Retry, CeilingExceeded, Overspend
  <2>2. labelled' \in [Configs -> SUBSET Incidents]
    BY <1>4, <1>t DEF AnswerKept, Retry, TypeOK
  <2>3. Attempts'
    BY <1>4, <1>t DEF AnswerKept, Retry, Attempts, TypeOK
  <2> QED
    BY <1>4, <1>t, <2>1, <2>2, <2>3, JobInv DEF AnswerKept, Retry, TypeOK
<1>5. CASE AnswerLost(i) \/ GiveUp(i)
  <2>1. work[i] \in {"answered", "erred"} /\ work' = [work EXCEPT ![i] = "failed"]
    BY <1>5 DEF AnswerLost, GiveUp
  <2>2. Charged' = Charged
    BY <1>t, <2>1 DEF Charged, TypeOK
  <2>3. Overspend'
    BY <1>5, <1>t, <2>2 DEF AnswerLost, GiveUp, Overspend
  <2>4. Attempts'
    BY <1>5, <1>t, <2>1 DEF AnswerLost, GiveUp, Attempts, TypeOK
  <2> QED
    BY <1>5, <1>t, <2>1, <2>3, <2>4, JobInv DEF AnswerLost, GiveUp, TypeOK
<1> QED
  BY <1>1, <1>2, <1>3, <1>4, <1>5 DEF Worker

\* The main thread's steps leave the jobs' charges alone.
LEMMA MainInv ==
    ASSUME IInv, Main
    PROVE  IInv'
<1> USE GridAssumption DEF files, main, jobs
<1>t. /\ TypeOK /\ Attempts /\ JobsInPool /\ JobsOpen /\ Checkpoints
      /\ Overspend /\ Resumed /\ WinnerReproducible
  BY DEF IInv
<1>1. CASE OuterUnreadable \/ Unwind \/ SelectionRefused \/ SelectWinner
  BY <1>1, EndsInv DEF OuterUnreadable, Unwind, SelectionRefused, SelectWinner
<1>2. CASE LoadOuter
  <2>1. TypeOK'
    BY <1>2, <1>t DEF LoadOuter, TypeOK, Configs
  <2>2. JobsInPool' /\ JobsOpen'
    BY <1>2, <1>t DEF LoadOuter, JobsInPool, JobsOpen, InPool
  <2>3. Attempts' /\ Overspend'
    BY <1>2, <1>t DEF LoadOuter, Attempts, Overspend, Charged
  <2>4. Checkpoints' /\ WinnerReproducible'
    BY <1>2, <1>t
       DEF LoadOuter, Checkpoints, SkippedIsComplete, WinnerReproducible
  <2>5. Resumed'
    BY <1>2, <1>t DEF LoadOuter, Resumed, TypeOK, Configs
  <2> QED
    BY <2>1, <2>2, <2>3, <2>4, <2>5 DEF IInv
<1>3. CASE BeginPredict
  <2>0. cur \in Configs
    BY <1>3, <1>t DEF BeginPredict, TypeOK, Configs
  <2>1. TypeOK'
    <3>1. work' \in [Incidents -> Jobs]
      BY <1>3 DEF BeginPredict, Jobs
    <3>2. tries' \in [Incidents -> 0 .. MaxRetries]
      BY <1>3, LimitsAssumption DEF BeginPredict
    <3>3. preds' \in [Configs -> SUBSET Incidents] /\ pc' = "predict"
      BY <1>3, <1>t, <2>0 DEF BeginPredict, TypeOK
    <3> QED
      BY <1>3, <1>t, <3>1, <3>2, <3>3 DEF BeginPredict, TypeOK
  <2>2. JobsInPool' /\ JobsOpen'
    BY <1>3, <1>t, <2>0 DEF BeginPredict, JobsInPool, JobsOpen, InPool, TypeOK
  <2>3. Attempts'
    BY <1>3, LimitsAssumption DEF BeginPredict, Attempts
  <2>4. Overspend'
    <3>1. Cardinality(Charged) = 0
      BY <1>3, <1>t, ChargedEmpty DEF BeginPredict, JobsInPool, InPool
    <3>2. spent < Ceiling
      BY <1>t, <3>1, LimitsAssumption DEF Overspend, TypeOK
    <3> QED
      BY <1>3, <1>t, <3>2, LimitsAssumption DEF BeginPredict, Overspend, TypeOK
  <2>5. Checkpoints' /\ WinnerReproducible'
    BY <1>3, <1>t
       DEF BeginPredict, Checkpoints, SkippedIsComplete, WinnerReproducible
  <2>6. Resumed'
    BY <1>3, <1>t, <2>0 DEF BeginPredict, Resumed, TypeOK, Configs
  <2> QED
    BY <2>1, <2>2, <2>3, <2>4, <2>5, <2>6 DEF IInv
<1>4. ASSUME NEW i \in Incidents, Drain(i)
      PROVE  IInv'
  <2>0. cur \in Configs
    BY <1>4, <1>t DEF Drain, JobsInPool
  <2>1. TypeOK'
    BY <1>4, <1>t, <2>0 DEF Drain, TypeOK, Jobs
  <2>2. JobsInPool' /\ JobsOpen'
    BY <1>4, <1>t, <2>0 DEF Drain, JobsInPool, JobsOpen, InPool, TypeOK
  <2>3. Charged' = Charged
    BY <1>4, <1>t DEF Drain, Charged, TypeOK
  <2>4. Attempts' /\ Overspend'
    BY <1>4, <1>t, <2>3 DEF Drain, Attempts, Overspend, TypeOK
  <2>5. Checkpoints' /\ WinnerReproducible'
    BY <1>4, <1>t, <2>0
       DEF Drain, Checkpoints, SkippedIsComplete, WinnerReproducible, TypeOK
  <2>6. Resumed'
    BY <1>4, <1>t, <2>0 DEF Drain, Resumed, TypeOK, Configs
  <2> QED
    BY <2>1, <2>2, <2>4, <2>5, <2>6 DEF IInv
<1>5. CASE PredictRaises \/ PredictReturns \/ OpenOuter
  <2>0. cur \in Configs
    BY <1>5, <1>t DEF PredictRaises, Leave, PredictReturns, OpenOuter, JobsInPool
  <2>1. TypeOK'
    BY <1>5, <1>t, <2>0
       DEF PredictRaises, Leave, PredictReturns, OpenOuter, TypeOK
  <2>2. JobsInPool' /\ JobsOpen'
    BY <1>5, <1>t
       DEF PredictRaises, Leave, PredictReturns, OpenOuter, JobsInPool,
           JobsOpen, InPool
  <2>3. Attempts' /\ Overspend'
    BY <1>5, <1>t
       DEF PredictRaises, Leave, PredictReturns, OpenOuter, Attempts,
           Overspend, Charged
  <2>4. Checkpoints' /\ WinnerReproducible'
    BY <1>5, <1>t, <2>0
       DEF PredictRaises, Leave, PredictReturns, OpenOuter, Checkpoints,
           SkippedIsComplete, WinnerReproducible, TypeOK
  <2>5. Resumed'
    BY <1>5, <1>t, <2>0
       DEF PredictRaises, Leave, PredictReturns, OpenOuter, Resumed, TypeOK,
           Configs
  <2> QED
    BY <2>1, <2>2, <2>3, <2>4, <2>5 DEF IInv
<1>6. CASE WriteOuter
  <2>0. cur \in Configs /\ gold \subseteq preds[cur] /\ preds[cur] = inner[cur]
    BY <1>6, <1>t DEF WriteOuter, JobsInPool, JobsOpen, InPool, TypeOK
  <2>1. TypeOK'
    BY <1>6, <1>t, <2>0 DEF WriteOuter, TypeOK, Configs
  <2>2. JobsInPool' /\ JobsOpen'
    BY <1>6, <1>t DEF WriteOuter, JobsInPool, JobsOpen, InPool
  <2>3. Attempts' /\ Overspend'
    BY <1>6, <1>t DEF WriteOuter, Attempts, Overspend, Charged
  <2>4. Checkpoints' /\ WinnerReproducible'
    BY <1>6, <1>t, <2>0
       DEF WriteOuter, Checkpoints, SkippedIsComplete, WinnerReproducible,
           TypeOK
  <2>5. Resumed'
    BY <1>6, <1>t, <2>0 DEF WriteOuter, Resumed, TypeOK, Configs
  <2> QED
    BY <2>1, <2>2, <2>3, <2>4, <2>5 DEF IInv
<1> QED
  BY <1>1, <1>2, <1>3, <1>4, <1>5, <1>6 DEF Main

LEMMA Inductive == IInv /\ [Next]_vars => IInv'
<1> SUFFICES ASSUME IInv, Next \/ UNCHANGED vars
             PROVE  IInv'
  OBVIOUS
<1> USE DEF vars, files, main, jobs
<1>t. /\ TypeOK /\ Attempts /\ JobsInPool /\ JobsOpen /\ Checkpoints
      /\ Overspend /\ Resumed /\ WinnerReproducible
  BY DEF IInv
<1>1. CASE Main
  BY <1>1, MainInv
<1>2. CASE \E i \in Incidents : Worker(i)
  BY <1>2, WorkerInv
<1>3. CASE Crash
  BY <1>3, EndsInv DEF Crash
<1>4. CASE Start \/ Interrupt \/ UNCHANGED vars
  <2>1. TypeOK'
    BY <1>4, <1>t DEF Start, Interrupt, Leave, TypeOK
  <2>2. JobsInPool' /\ JobsOpen'
    BY <1>4, <1>t DEF Start, Interrupt, Leave, JobsInPool, JobsOpen, InPool
  <2>3. Attempts' /\ Overspend'
    BY <1>4, <1>t DEF Start, Interrupt, Leave, Attempts, Overspend, Charged
  <2>4. Checkpoints' /\ WinnerReproducible'
    BY <1>4, <1>t DEF Start, Interrupt, Leave, Checkpoints, SkippedIsComplete,
                      WinnerReproducible
  <2>5. Resumed'
    BY <1>4, <1>t DEF Start, Interrupt, Leave, Resumed
  <2> QED
    BY <2>1, <2>2, <2>3, <2>4, <2>5 DEF IInv
<1>5. ASSUME NEW i \in Incidents, GoldGrows(i)
      PROVE  IInv'
  <2>1. TypeOK'
    BY <1>5, <1>t DEF GoldGrows, TypeOK
  <2>2. JobsInPool' /\ JobsOpen'
    BY <1>5, <1>t DEF GoldGrows, JobsInPool, JobsOpen, InPool
  <2>3. Attempts' /\ Overspend'
    BY <1>5, <1>t DEF GoldGrows, Attempts, Overspend, Charged
  <2>4. Checkpoints' /\ WinnerReproducible'
    BY <1>5, <1>t
       DEF GoldGrows, Checkpoints, SkippedIsComplete, WinnerReproducible
  <2>5. Resumed'
    BY <1>5, <1>t DEF GoldGrows, Resumed
  <2> QED
    BY <2>1, <2>2, <2>3, <2>4, <2>5 DEF IInv
<1> QED
  BY <1>1, <1>2, <1>3, <1>4, <1>5 DEF Next

LEMMA SpecInductive == Spec => []IInv
<1> QED
  BY InitInv, Inductive, PTL DEF Spec

-----------------------------------------------------------------------------
(* The theorems *)

\* Type correctness: in particular no job is tried more than MaxRetries times.
THEOREM TypeCorrect == Spec => []TypeOK
<1>1. IInv => TypeOK
  BY DEF IInv
<1> QED
  BY <1>1, SpecInductive, PTL

\* However many workers race, a sweep is charged less than one call per
\* incident beyond its ceiling.
THEOREM OverspendIsBounded == Spec => []OverspendBounded
<1>1. IInv => OverspendBounded
  <2> SUFFICES ASSUME IInv PROVE OverspendBounded
    OBVIOUS
  <2>1. /\ Cardinality(Incidents) \in Nat /\ Cardinality(Charged) \in Nat
        /\ Cardinality(Charged) <= Cardinality(Incidents)
        /\ spent \in Nat /\ Ceiling \in Nat
    BY ChargedFinite, IncidentsAssumption, LimitsAssumption,
       FS_CardinalityType DEF IInv, TypeOK
  <2>2. CASE spent < Ceiling
    BY <2>1, <2>2 DEF OverspendBounded
  <2>3. CASE spent >= Ceiling
    BY <2>1, <2>3 DEF IInv, Overspend, OverspendBounded
  <2> QED
    BY <2>1, <2>2, <2>3
<1> QED
  BY <1>1, SpecInductive, PTL

\* A config is skipped only if its whole gold set was labelled and persisted.
THEOREM SkippedConfigsAreComplete == Spec => []SkippedIsComplete
<1>1. IInv => SkippedIsComplete
  BY DEF IInv, Checkpoints
<1> QED
  BY <1>1, SpecInductive, PTL

\* The winner on record stays what the checkpoints on disk give: they are whole,
\* unchanged since it was scored, cover its lockbox and are backed by inner lines.
THEOREM WinnersAreReproducible == Spec => []WinnerReproducible
<1>1. IInv => WinnerReproducible
  BY DEF IInv
<1> QED
  BY <1>1, SpecInductive, PTL

\* A persisted label is never paid for again.
THEOREM PersistedLabelsAreKept == Spec => PersistedNotRepeated
<1>1. IInv /\ [Next]_vars =>
          [\A i \in Calling' \ Calling : i \notin inner[cur]]_vars
  <2> SUFFICES ASSUME IInv, Next, NEW i \in Calling' \ Calling
               PROVE  i \notin inner[cur]
    OBVIOUS
  <2>1. i \in Incidents /\ work[i] # "calling" /\ work'[i] = "calling"
    BY DEF Calling
  <2>2. work[i] \in {"queued", "erred"}
    BY <2>1 DEF IInv, Next, Start, Main, Worker, Crash, Interrupt, Leave,
                GoldGrows, LoadOuter, OuterUnreadable, BeginPredict, Drain,
                PredictRaises, Unwind, PredictReturns, OpenOuter, WriteOuter,
                SelectionRefused, SelectWinner, ProcessEnds, StartJob,
                CallAnswered, CallErrs, CallBreaks, AnswerKept, AnswerLost,
                Retry, GiveUp, Job, TypeOK, jobs, vars
  <2>3. InPool
    BY <2>1, <2>2 DEF IInv, JobsInPool
  <2> QED
    BY <2>1, <2>2, <2>3 DEF IInv, JobsOpen
<1> QED
  BY <1>1, SpecInductive, PTL DEF Spec, PersistedNotRepeated
=============================================================================
