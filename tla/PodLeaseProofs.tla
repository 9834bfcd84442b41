--------------------------- MODULE PodLeaseProofs ---------------------------
(* Theorems about PodLease, for every set of pods and every fleet size. *)
EXTENDS PodLease, TLAPS

\* TypeOK alone is not inductive: the id a POST returned must be one.
TypeInv ==
    /\ TypeOK
    /\ pc \in {"posted", "register", "cullVerify", "cullRelease"}
           => cur \in Pods

-----------------------------------------------------------------------------
(* The inductive invariant *)

\* Pool, file, fleet and history are nested; an id in the making is in none.
Tracking ==
    /\ registered \subseteq registry
    /\ registry \subseteq known
    /\ fleet \subseteq known
    /\ known \subseteq created
    /\ pc \in {"posted", "register"} => cur \in created \ known
    /\ pc = "register" => cur \in live

\* What terminate_all relies on between its two locked sections.
Calls ==
    /\ \A t \in Threads :
        /\ todo[t] \subseteq known
        /\ snap[t] \subseteq known
        /\ phase[t] \in {"delete", "verify", "clear"}
               => registered \subseteq snap[t] \cup overtaken
        /\ phase[t] = "clear" => snap[t] \cap live = {}
    /\ phase["main"] # "idle" => pc \in {"teardown", "atexit"}
    /\ phase["monitor"] # "idle" => mon = "teardown"
    /\ (pc = "teardown" /\ phase["main"] = "ok")
           => fleet \cap live \subseteq overtaken

\* What the early teardown relies on between its verification and its release.
Culling ==
    /\ cullTodo \subseteq fleet
    /\ pc \in {"cullVerify", "cullRelease"} => cur \in fleet
    /\ pc = "cullRelease" => cur \notin live
    /\ pc \in {"deploy", "wait", "gate", "bakeoff", "cull", "classify",
               "coverage"} => cur = None

\* Until the monitor's teardown, only the cull takes pods away from the fleet.
Holding ==
    mon # "teardown" =>
        /\ pc \in {"deploy", "posted", "register", "wait", "gate", "bakeoff"}
               => fleet \subseteq live \cap registered
        /\ (pc \in {"cull", "cullVerify", "cullRelease", "classify",
                    "coverage"} /\ winner # None)
               => /\ winner \in live \cap registered
                  /\ winner \notin cullTodo \cup {cur}

\* No process, no memory of one.
Down ==
    pc = "down" =>
        /\ fleet = {} /\ registered = {} /\ cullTodo = {}
        /\ cur = None /\ mon = "off" /\ ~stopped
        /\ \A t \in Threads : phase[t] = "idle"

IInv ==
    /\ TypeInv
    /\ Tracking
    /\ Calls
    /\ Culling
    /\ Holding
    /\ Down
    /\ RecordedUntilGone
    /\ PoolCoversFleet
    /\ ReturnedMeansGone
    /\ OneFleetAtATime

\* Every step of the processes and of the environment preserves it.
LEMMA Inductive == IInv /\ [Next]_vars => IInv'
<1> SUFFICES ASSUME IInv, Next \/ UNCHANGED vars
             PROVE  IInv'
  OBVIOUS
<1> USE NoneIsNoPod
    DEF IInv, TypeInv, Tracking, Calls, Culling, Holding, Down,
        RecordedUntilGone, PoolCoversFleet, ReturnedMeansGone,
        OneFleetAtATime, TypeOK, MainPCs, BodyPCs, Phases, Threads, vars,
        serviceVars, mainVars, monVars, callVars, histVars
<1>1. ASSUME NEW t \in Threads, TakeSnapshot(t) PROVE IInv'
  BY <1>1 DEF TakeSnapshot
<1>2. ASSUME NEW t \in Threads, AllAttempted(t) PROVE IInv'
  BY <1>2 DEF AllAttempted, PhaseStep
<1>3. ASSUME NEW t \in Threads, VerifyFails(t) PROVE IInv'
  BY <1>3 DEF VerifyFails
<1>4. ASSUME NEW t \in Threads, VerifyAllGone(t) PROVE IInv'
  BY <1>4 DEF VerifyAllGone, PhaseStep
<1>5. ASSUME NEW t \in Threads, ClearPool(t) PROVE IInv'
  \* every pod in the pool is in the verified snapshot or was overtaken
  <2>1. registered \cap live \subseteq overtaken
    BY <1>5 DEF ClearPool
  <2>2. RecordedUntilGone' /\ PoolCoversFleet'
    BY <1>5, <2>1 DEF ClearPool
  <2>3. Calls'
    BY <1>5, <2>1 DEF ClearPool
  <2>4. TypeInv' /\ Tracking' /\ Culling' /\ Holding' /\ Down'
    BY <1>5 DEF ClearPool
  <2>5. ReturnedMeansGone' /\ OneFleetAtATime'
    BY <1>5 DEF ClearPool
  <2> QED
    BY <2>2, <2>3, <2>4, <2>5
<1>6. ASSUME NEW t \in Threads, ClearFails(t) PROVE IInv'
  BY <1>6 DEF ClearFails
<1>7. ASSUME NEW t \in Threads, NEW p \in Pods, DeletePod(t, p)
       PROVE  IInv'
  BY <1>7 DEF DeletePod
<1>8. ASSUME NEW p \in Pods, PostPod(p) PROVE IInv'
  BY <1>8 DEF PostPod
<1>9. ASSUME NEW p \in Pods, CullDelete(p) PROVE IInv'
  BY <1>9 DEF CullDelete
<1>10. ASSUME NEW p \in Pods, Backstop(p) PROVE IInv'
  BY <1>10 DEF Backstop
<1>11. ASSUME NEW p \in Pods, ConsoleTerminate(p) PROVE IInv'
  BY <1>11 DEF ConsoleTerminate
<1>12. ASSUME NEW p \in Pods, ConsoleForget(p) PROVE IInv'
  BY <1>12 DEF ConsoleForget
<1>13. CASE PodReply
  BY <1>13 DEF PodReply, Proceed
<1>14. CASE Register
  <2>1. phase["main"] = "idle" /\ cur \notin known
    BY <1>14 DEF Register
  \* a teardown of the monitor that took its snapshot before does not cover
  \* the new pod, which is why it is counted as overtaken
  <2>2. Calls'
    BY <1>14, <2>1 DEF Register, MonitorClearing
  <2>3. TypeInv' /\ Tracking' /\ Culling' /\ Down'
    BY <1>14, <2>1 DEF Register, MonitorClearing
  <2>4. Holding'
    BY <1>14 DEF Register
  <2>5. /\ RecordedUntilGone' /\ PoolCoversFleet'
        /\ ReturnedMeansGone' /\ OneFleetAtATime'
    BY <1>14 DEF Register
  <2> QED
    BY <2>2, <2>3, <2>4, <2>5
<1>15. CASE DeployDone
  BY <1>15 DEF DeployDone, Proceed
<1>16. CASE AllReady
  BY <1>16 DEF AllReady, Proceed
<1>17. CASE Gate
  BY <1>17 DEF Gate
<1>18. CASE Bakeoff
  BY <1>18 DEF Bakeoff
<1>19. CASE CullRetained
  BY <1>19 DEF CullRetained
<1>20. CASE CullVerified
  BY <1>20 DEF CullVerified, Proceed
<1>21. CASE CullRelease
  BY <1>21 DEF CullRelease
<1>22. CASE CullDone
  BY <1>22 DEF CullDone, Proceed
<1>23. CASE Classify
  BY <1>23 DEF Classify, Proceed
<1>24. CASE BodyEnds
  BY <1>24 DEF BodyEnds
<1>25. CASE BodyRaises
  BY <1>25 DEF BodyRaises
<1>26. CASE TeardownDone
  BY <1>26 DEF TeardownDone, Returned
<1>27. CASE RunAtExit
  BY <1>27 DEF RunAtExit
<1>28. CASE Exit
  BY <1>28 DEF Exit, ProcessEnds
<1>29. CASE MonitorPolls
  BY <1>29 DEF MonitorPolls, MonitorProceeds
<1>30. CASE MonitorStops
  BY <1>30 DEF MonitorStops, MonitorProceeds
<1>31. CASE MonitorSeesNoBreach
  BY <1>31 DEF MonitorSeesNoBreach, MonitorProceeds
<1>32. CASE MonitorSeesBreach
  BY <1>32 DEF MonitorSeesBreach
<1>33. CASE ForceExit
  BY <1>33 DEF ForceExit, ProcessEnds
<1>34. CASE StartRun
  BY <1>34 DEF StartRun
<1>35. CASE DryRun
  BY <1>35 DEF DryRun
<1>36. CASE CostExceeded
  BY <1>36 DEF CostExceeded
<1>37. CASE WallCapElapses
  BY <1>37 DEF WallCapElapses
<1>38. CASE Kill
  BY <1>38 DEF Kill, ProcessEnds
<1>39. CASE CullReleaseFails
  BY <1>39 DEF CullReleaseFails
<1>40. CASE UNCHANGED vars
  BY <1>40
<1> QED
  BY <1>1, <1>2, <1>3, <1>4, <1>5, <1>6, <1>7, <1>8, <1>9, <1>10,
     <1>11, <1>12, <1>13, <1>14, <1>15, <1>16, <1>17, <1>18, <1>19,
     <1>20, <1>21, <1>22, <1>23, <1>24, <1>25, <1>26, <1>27, <1>28,
     <1>29, <1>30, <1>31, <1>32, <1>33, <1>34, <1>35, <1>36, <1>37,
     <1>38, <1>39, <1>40
     DEF Next, Main, Deploy, Cull, Leave, TerminateAll, Monitor,
         Environment, Operator

LEMMA SpecInductive == Spec => []IInv
<1>1. Init => IInv
  BY DEF Init, IInv, TypeInv, Tracking, Calls, Culling, Holding, Down,
         RecordedUntilGone, PoolCoversFleet, ReturnedMeansGone,
         OneFleetAtATime, TypeOK, MainPCs, BodyPCs, Phases, Threads
<1> QED
  BY <1>1, Inductive, PTL DEF Spec

\* Every variable keeps its type.
THEOREM TypeCorrect == Spec => []TypeOK
BY SpecInductive, PTL DEF IInv, TypeInv

\* The registry file keeps the entry of every registered pod that still runs,
\* whatever the threads, the service and the operator do; only a pod that was
\* registered during the monitor's teardown can be missing.
THEOREM RegistryIsBackstop == Spec => []RecordedUntilGone
BY SpecInductive, PTL DEF IInv

\* The final teardown of the process is shown every pod of its fleet that runs.
THEOREM PoolIsComplete == Spec => []PoolCoversFleet
BY SpecInductive, PTL DEF IInv

\* A live run that returns a result has left no pod of its fleet running.
THEOREM ResultMeansTornDown == Spec => []ReturnedMeansGone
BY SpecInductive, PTL DEF IInv

\* While a run is up, no pod of an earlier run is.
THEOREM NoDoubleBurn == Spec => []OneFleetAtATime
BY SpecInductive, PTL DEF IInv

\* The winner's pod outlives the early teardown of the others.
THEOREM WinnerKept == Spec => []WinnerStaysUp
<1>1. IInv => WinnerStaysUp
  BY DEF IInv, Holding, WinnerStaysUp
<1> QED
  BY <1>1, SpecInductive, PTL

-----------------------------------------------------------------------------
(* The lease implements the ledger *)

Status == [p \in Pods |-> PodStatus(p)]

LEMMA StatusStays ==
    UNCHANGED <<live, created, known, overtaken>> => Status' = Status
BY DEF Status, PodStatus

\* A pod that goes down becomes gone, and no other pod is affected.
LEMMA PodVanishes ==
    ASSUME IInv, NEW p \in Pods, p \in created,
           live' \in {live, live \ {p}},
           UNCHANGED <<created, registry, known, overtaken>>
    PROVE  Ledger!Vanish(p) \/ UNCHANGED <<Status, registry>>
<1>1. CASE live' = live
  BY <1>1, StatusStays
<1>2. CASE live' # live
  <2>1. p \in live /\ live' = live \ {p}
    BY <1>2
  <2>2. Status[p] \in {"unleased", "leased", "overtaken"}
    BY <2>1 DEF Status, PodStatus
  <2>3. PodStatus(p)' = "gone"
    BY <2>1 DEF PodStatus
  <2>4. \A q \in Pods \ {p} : PodStatus(q)' = PodStatus(q)
    BY <2>1 DEF PodStatus
  <2>5. Status' = [Status EXCEPT ![p] = "gone"]
    BY <2>3, <2>4 DEF Status
  <2> QED
    BY <2>2, <2>5 DEF Ledger!Vanish, Status
<1> QED
  BY <1>1, <1>2

Quiet == UNCHANGED <<live, created, known, overtaken, registry>>

LedgerStep == Ledger!Next \/ UNCHANGED <<Status, registry>>

\* One step of the lease is one step of the ledger, or leaves it alone.
LEMMA StepImplements ==
    IInv /\ [Next]_vars => LedgerStep
<1> SUFFICES ASSUME IInv, Next \/ UNCHANGED vars
             PROVE  LedgerStep
  OBVIOUS
<1> USE DEF vars, serviceVars, mainVars, monVars, callVars, histVars
<1>1. Quiet => LedgerStep
  BY StatusStays DEF Quiet, LedgerStep
<1>2. ASSUME NEW p \in Pods, NEW t \in Threads, DeletePod(t, p) PROVE LedgerStep
  <2>1. p \in created
    BY <1>2 DEF DeletePod, IInv, Calls, Tracking
  <2>2. Ledger!Vanish(p) \/ UNCHANGED <<Status, registry>>
    BY <1>2, <2>1, PodVanishes DEF DeletePod
  <2> QED
    BY <2>2 DEF Ledger!Next, LedgerStep
<1>3. ASSUME NEW p \in Pods, CullDelete(p) PROVE LedgerStep
  <2>1. p \in created
    BY <1>3 DEF CullDelete, IInv, Culling, Tracking
  <2>2. Ledger!Vanish(p) \/ UNCHANGED <<Status, registry>>
    BY <1>3, <2>1, PodVanishes DEF CullDelete
  <2> QED
    BY <2>2 DEF Ledger!Next, LedgerStep
<1>4. ASSUME NEW p \in Pods, Backstop(p) \/ ConsoleTerminate(p) PROVE LedgerStep
  <2>1. p \in created
    BY <1>4 DEF Backstop, ConsoleTerminate, IInv, TypeInv, TypeOK
  <2>2. Ledger!Vanish(p) \/ UNCHANGED <<Status, registry>>
    BY <1>4, <2>1, PodVanishes DEF Backstop, ConsoleTerminate
  <2> QED
    BY <2>2 DEF Ledger!Next, LedgerStep
<1>5. ASSUME NEW p \in Pods, PostPod(p) PROVE LedgerStep
  <2>1. p \notin created /\ p \notin live /\ p \notin known
    BY <1>5 DEF PostPod, IInv, TypeInv, TypeOK, Tracking
  <2>2. PodStatus(p) = "fresh" /\ PodStatus(p)' \in {"unleased", "gone"}
    BY <1>5, <2>1 DEF PostPod, PodStatus
  <2>3. \A q \in Pods \ {p} : PodStatus(q)' = PodStatus(q)
    BY <1>5 DEF PostPod, PodStatus
  <2>4. Status' = [Status EXCEPT ![p] = PodStatus(p)']
    BY <2>3 DEF Status
  <2>5. Ledger!Request(p)
    BY <1>5, <2>2, <2>4 DEF PostPod, Ledger!Request, Status
  <2> QED
    BY <2>5 DEF Ledger!Next, LedgerStep
<1>6. CASE Register
  <2>1. cur \in Pods /\ cur \in created /\ cur \notin known /\ cur \in live
    BY <1>6 DEF Register, IInv, TypeInv, Tracking
  <2>2. PodStatus(cur) = "unleased"
    BY <2>1 DEF PodStatus
  <2>3. \A q \in Pods \ {cur} : PodStatus(q)' = PodStatus(q)
    BY <1>6 DEF Register, PodStatus
  <2> DEFINE after == IF cur \in overtaken' THEN "overtaken" ELSE "leased"
  <2>4. Status' = [Status EXCEPT ![cur] = after]
    <3>1. ASSUME NEW q \in Pods, q = cur PROVE PodStatus(q)' = after
      BY <1>6, <2>1, <3>1 DEF Register, PodStatus
    <3> QED
      BY <2>1, <2>3, <3>1 DEF Status
  <2>5. Ledger!Enter(cur)
    BY <1>6, <2>1, <2>2, <2>4 DEF Register, Ledger!Enter, Status
  <2> QED
    BY <2>1, <2>5 DEF Ledger!Next, LedgerStep
<1>7. ASSUME NEW t \in Threads, ClearPool(t) PROVE LedgerStep
  <2>1. registered \cap live \subseteq overtaken
    BY <1>7 DEF ClearPool, IInv, Calls
  <2>2. \A q \in registered :
            q \in Pods /\ q \in known /\ q \in created
    BY DEF IInv, TypeInv, TypeOK, Tracking
  <2>3. \A q \in registered : Status[q] \in {"gone", "overtaken"}
    BY <2>1, <2>2 DEF Status, PodStatus
  <2>4. Status' = Status
    BY <1>7, StatusStays DEF ClearPool
  <2>5. Ledger!Strike(registered)
    BY <1>7, <2>3, <2>4 DEF ClearPool, Ledger!Strike, Status
  <2> QED
    BY <2>2, <2>5 DEF Ledger!Next, LedgerStep
<1>8. CASE CullRelease
  <2>1. cur \in Pods /\ cur \in created /\ cur \notin live
    BY <1>8 DEF CullRelease, IInv, TypeInv, Culling, Tracking
  <2>2. Status[cur] = "gone"
    BY <2>1 DEF Status, PodStatus
  <2>3. Status' = Status
    BY <1>8, StatusStays DEF CullRelease
  <2>4. CASE cur \in registered
    <3>1. Ledger!Strike({cur})
      BY <1>8, <2>2, <2>3, <2>4 DEF CullRelease, Ledger!Strike, Status
    <3> QED
      BY <2>1, <3>1 DEF Ledger!Next, LedgerStep
  <2>5. CASE cur \notin registered
    BY <1>8, <2>3, <2>5 DEF CullRelease, LedgerStep
  <2> QED
    BY <2>4, <2>5
<1>9. ASSUME NEW p \in Pods, ConsoleForget(p) PROVE LedgerStep
  <2>1. p \in created /\ p \notin live
    BY <1>9 DEF ConsoleForget, IInv, Tracking
  <2>2. Status[p] = "gone"
    BY <2>1 DEF Status, PodStatus
  <2>3. Status' = Status
    BY <1>9, StatusStays DEF ConsoleForget
  <2>4. Ledger!Strike({p})
    BY <1>9, <2>2, <2>3 DEF ConsoleForget, Ledger!Strike, Status
  <2> QED
    BY <2>4 DEF Ledger!Next, LedgerStep
<1>10. ASSUME NEW t \in Threads,
              \/ TakeSnapshot(t) \/ AllAttempted(t) \/ VerifyFails(t)
              \/ VerifyAllGone(t) \/ ClearFails(t)
       PROVE  LedgerStep
  <2>1. Quiet
    BY <1>10 DEF Quiet, TakeSnapshot, AllAttempted, VerifyFails, VerifyAllGone,
                 ClearFails, PhaseStep
  <2> QED
    BY <1>1, <2>1
<1>11. CASE \/ PodReply \/ DeployDone \/ AllReady \/ Gate \/ Bakeoff
            \/ CullRetained \/ CullVerified \/ CullReleaseFails \/ CullDone
            \/ Classify
            \/ BodyEnds \/ BodyRaises \/ TeardownDone \/ RunAtExit \/ Exit
  <2>1. Quiet
    BY <1>11 DEF Quiet, PodReply, DeployDone, AllReady, Gate, Bakeoff,
                 CullRetained, CullVerified, CullReleaseFails, CullDone,
                 Classify, Proceed,
                 BodyEnds, BodyRaises, TeardownDone, RunAtExit, Exit, ProcessEnds
  <2> QED
    BY <1>1, <2>1
<1>12. CASE \/ MonitorPolls \/ MonitorStops \/ MonitorSeesNoBreach
            \/ MonitorSeesBreach \/ ForceExit
  <2>1. Quiet
    BY <1>12 DEF Quiet, MonitorPolls, MonitorStops, MonitorSeesNoBreach,
                 MonitorSeesBreach, MonitorProceeds, ForceExit, ProcessEnds
  <2> QED
    BY <1>1, <2>1
<1>13. CASE \/ StartRun \/ DryRun \/ CostExceeded \/ WallCapElapses \/ Kill
            \/ UNCHANGED vars
  <2>1. Quiet
    BY <1>13 DEF Quiet, StartRun, DryRun, CostExceeded, WallCapElapses, Kill,
                 ProcessEnds
  <2> QED
    BY <1>1, <2>1
<1> HIDE DEF vars
<1>14. ASSUME NEW t \in Threads, TerminateAll(t) PROVE LedgerStep
  BY <1>2, <1>7, <1>10, <1>14 DEF TerminateAll
<1>15. CASE Deploy \/ Cull
  BY <1>3, <1>5, <1>6, <1>8, <1>11, <1>15 DEF Deploy, Cull
<1>16. CASE Main
  BY <1>11, <1>14, <1>15, <1>16 DEF Main, Leave, Threads
<1>17. CASE Monitor
  BY <1>12, <1>14, <1>17 DEF Monitor, Threads
<1>18. ASSUME NEW p \in Pods, Operator(p) PROVE LedgerStep
  BY <1>4, <1>9, <1>18 DEF Operator
<1>19. CASE Environment \/ UNCHANGED vars
  BY <1>13, <1>18, <1>19 DEF Environment
<1> QED
  BY <1>16, <1>17, <1>19 DEF Next

\* PodLease implements PodLedger under the mapping PodStatus: an entry leaves
\* the registry only when its pod is gone, or was registered during the
\* monitor's teardown.
THEOREM LeaseImplementsLedger == Spec => ImplementsLedger
<1>1. Init => Ledger!Init
  BY DEF Init, Ledger!Init, PodStatus
<1>2. IInv /\ [Next]_vars
          => [Ledger!Next]_<<[p \in Pods |-> PodStatus(p)], registry>>
  BY StepImplements DEF LedgerStep, Status
<1> QED
  BY <1>1, <1>2, SpecInductive, PTL DEF Spec, ImplementsLedger, Ledger!Spec
=============================================================================
