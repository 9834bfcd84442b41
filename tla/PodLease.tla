------------------------------ MODULE PodLease ------------------------------
(***************************************************************************)
(* The pod lease of a live run (engine/cli/live_run.py): one process that  *)
(* rents GPU pods, the daemon thread that watches its cost and wall clock, *)
(* the durable registry file that survives the process, the RunPod service *)
(* that owns the pods, and the operator who runs the backstop              *)
(* (tools/terminate_runpod.py) when the process is gone.                   *)
(*                                                                         *)
(* A pod is identified by its id; the fleet of one run has one pod per     *)
(* model, so the id also stands for the model's name.  Every section that  *)
(* PodLeasePool executes under its RLock is one step.                      *)
(***************************************************************************)
EXTENDS Naturals, FiniteSets

CONSTANTS
    Pods,       \* the pod ids RunPod may ever hand out
    FleetSize,  \* number of models: pods a complete deployment creates
    None        \* no pod, or no winner

ASSUME PodsFinite == IsFiniteSet(Pods)
ASSUME FleetSizePositive == FleetSize \in Nat \ {0}
ASSUME NoneIsNoPod == None \notin Pods

VARIABLES
    \* outside the process
    live,         \* pods that RunPod runs (and bills)
    created,      \* pod ids a creation request was ever made for
    registry,     \* the registry file: pod ids on disk
    \* the process: main thread
    pc,           \* where the main thread is
    fleet,        \* pods this process registered
    cur,          \* pod being created, or being culled
    eligible,     \* pods whose model passed the injection gate
    winner,       \* pod of the bake-off's winner, or None
    cullTodo,     \* non-winner pods still to be terminated early
    bodyFailed,   \* the body of guaranteed_teardown raised
    \* the process: pool and monitor thread
    registered,   \* PodLeasePool._registered
    mon,          \* where the monitor thread is
    stopped,      \* _WallMonitor._stop is set
    overCost,     \* cost_tracker.check_or_abort() would raise
    wallElapsed,  \* the wall cap has elapsed
    \* terminate_all, one activation per thread
    phase,        \* where the activation is
    snap,         \* pods_snapshot
    todo,         \* pods of the snapshot not yet sent a DELETE
    \* history
    known,        \* pods that were ever registered
    overtaken     \* pods registered while the monitor's terminate_all was
                  \* between its snapshot and its return

serviceVars == <<live, created>>
mainVars    == <<pc, fleet, cur, eligible, winner, cullTodo, bodyFailed>>
monVars     == <<mon, stopped, overCost, wallElapsed>>
callVars    == <<phase, snap, todo>>
histVars    == <<known, overtaken>>
vars == <<serviceVars, registry, mainVars, registered, monVars, callVars,
          histVars>>

Threads == {"main", "monitor"}

\* Steps of the body of the with-statement in orchestrate_live_run.
BodyPCs == {"deploy", "posted", "register", "wait", "gate", "bakeoff", "cull",
            "cullVerify", "cullRelease", "classify", "coverage"}

MainPCs == BodyPCs \cup {"down", "teardown", "returned", "raised", "atexit"}

Phases == {"idle", "start", "delete", "verify", "clear", "ok", "failed"}

TypeOK ==
    /\ live \subseteq created
    /\ created \subseteq Pods
    /\ registry \subseteq Pods
    /\ pc \in MainPCs
    /\ fleet \subseteq Pods
    /\ cur \in Pods \cup {None}
    /\ eligible \subseteq Pods
    /\ winner \in Pods \cup {None}
    /\ cullTodo \subseteq Pods
    /\ bodyFailed \in BOOLEAN
    /\ registered \subseteq Pods
    /\ mon \in {"off", "watch", "check", "teardown"}
    /\ stopped \in BOOLEAN
    /\ overCost \in BOOLEAN
    /\ wallElapsed \in BOOLEAN
    /\ phase \in [Threads -> Phases]
    /\ snap \in [Threads -> SUBSET Pods]
    /\ todo \in [Threads -> SUBSET Pods]
    /\ known \subseteq Pods
    /\ overtaken \subseteq Pods

Init ==
    /\ live = {}
    /\ created = {}
    /\ registry = {}
    /\ pc = "down"
    /\ fleet = {}
    /\ cur = None
    /\ eligible = {}
    /\ winner = None
    /\ cullTodo = {}
    /\ bodyFailed = FALSE
    /\ registered = {}
    /\ mon = "off"
    /\ stopped = FALSE
    /\ overCost = FALSE
    /\ wallElapsed = FALSE
    /\ phase = [t \in Threads |-> "idle"]
    /\ snap = [t \in Threads |-> {}]
    /\ todo = [t \in Threads |-> {}]
    /\ known = {}
    /\ overtaken = {}

\* The process is gone; what it held in memory is gone with it.
ProcessEnds ==
    /\ pc' = "down"
    /\ fleet' = {}
    /\ cur' = None
    /\ eligible' = {}
    /\ winner' = None
    /\ cullTodo' = {}
    /\ bodyFailed' = FALSE
    /\ registered' = {}
    /\ mon' = "off"
    /\ stopped' = FALSE
    /\ overCost' = FALSE
    /\ wallElapsed' = FALSE
    /\ phase' = [t \in Threads |-> "idle"]
    /\ snap' = [t \in Threads |-> {}]
    /\ todo' = [t \in Threads |-> {}]
    /\ UNCHANGED <<serviceVars, registry, histVars>>

-----------------------------------------------------------------------------
(* terminate_all, called by the main thread and by the monitor thread *)

PhaseStep(t, from, to) ==
    /\ phase[t] = from
    /\ phase' = [phase EXCEPT ![t] = to]
    /\ UNCHANGED <<serviceVars, registry, mainVars, registered, monVars, snap,
                   todo, histVars>>

\* Only the snapshot is taken under the lock.
TakeSnapshot(t) ==
    /\ phase[t] = "start"
    /\ phase' = [phase EXCEPT ![t] = "delete"]
    /\ snap' = [snap EXCEPT ![t] = registered]
    /\ todo' = [todo EXCEPT ![t] = registered]
    /\ UNCHANGED <<serviceVars, registry, mainVars, registered, monVars,
                   histVars>>

\* One DELETE request.  An exception is collected and a reply is only logged,
\* so all that matters is whether the pod is gone afterwards: an error reply
\* can hide a deletion, and a success reply can be untrue.
DeletePod(t, p) ==
    /\ phase[t] = "delete"
    /\ p \in todo[t]
    /\ todo' = [todo EXCEPT ![t] = @ \ {p}]
    /\ live' \in {live, live \ {p}}
    /\ UNCHANGED <<created, registry, mainVars, registered, monVars, phase,
                   snap, histVars>>

AllAttempted(t) == todo[t] = {} /\ PhaseStep(t, "delete", "verify")

\* The listing raises, or some pod of the snapshot survived.
VerifyFails(t) ==
    /\ phase[t] = "verify"
    /\ phase' = [phase EXCEPT ![t] = "failed"]
    /\ snap' = [snap EXCEPT ![t] = {}]
    /\ UNCHANGED <<serviceVars, registry, mainVars, registered, monVars, todo,
                   histVars>>

\* Seeded fault: the replies to the DELETEs are believed.
VerifyAllGone_Trusting(t) == PhaseStep(t, "verify", "clear")

VerifyAllGone(t) ==
    snap[t] \cap live = {} /\ PhaseStep(t, "verify", "clear")

\* Under the lock again: the entries removed are those of the pods registered
\* now, whatever the snapshot was.
ClearPool(t) ==
    /\ phase[t] = "clear"
    /\ phase' = [phase EXCEPT ![t] = "ok"]
    /\ registry' = registry \ registered
    /\ registered' = {}
    /\ snap' = [snap EXCEPT ![t] = {}]
    /\ UNCHANGED <<serviceVars, mainVars, monVars, todo, histVars>>

\* Rewriting the registry file raises: neither file nor pool changes.
ClearFails(t) ==
    /\ phase[t] = "clear"
    /\ phase' = [phase EXCEPT ![t] = "failed"]
    /\ snap' = [snap EXCEPT ![t] = {}]
    /\ UNCHANGED <<serviceVars, registry, mainVars, registered, monVars, todo,
                   histVars>>

TerminateAll(t) ==
    \/ TakeSnapshot(t)
    \/ \E p \in Pods : DeletePod(t, p)
    \/ AllAttempted(t)
    \/ VerifyFails(t)
    \/ VerifyAllGone(t)
    \/ ClearPool(t)
    \/ ClearFails(t)

Returned(t) == phase[t] \in {"ok", "failed"}

\* The activation of the monitor has taken its snapshot and not yet returned.
MonitorClearing == phase["monitor"] \in {"delete", "verify", "clear"}

-----------------------------------------------------------------------------
(* The main thread: preflight and deployment *)

\* A step of the body that only moves on.
Proceed(from, to) ==
    /\ pc = from
    /\ pc' = to
    /\ UNCHANGED <<serviceVars, registry, fleet, cur, eligible, winner,
                   cullTodo, bodyFailed, registered, monVars, callVars,
                   histVars>>

\* Seeded fault: the preflight asks only about registered pods.
StartRun_OrphansIgnored ==
    /\ pc = "down"
    /\ live \cap registry = {}
    /\ Cardinality(Pods \ created) >= FleetSize  \* bound: enough fresh ids
    /\ pc' = "deploy"
    /\ mon' = "watch"
    /\ UNCHANGED <<serviceVars, registry, fleet, cur, eligible, winner,
                   cullTodo, bodyFailed, registered, stopped, overCost,
                   wallElapsed, callVars, histVars>>

\* live_run_cli --execute: the preflight demands no orphan and no live
\* registered pod; a new pool is empty and the monitor thread starts.
StartRun ==
    /\ pc = "down"
    /\ live \ registry = {}
    /\ live \cap registry = {}
    /\ Cardinality(Pods \ created) >= FleetSize  \* bound: enough fresh ids
    /\ pc' = "deploy"
    /\ mon' = "watch"
    /\ UNCHANGED <<serviceVars, registry, fleet, cur, eligible, winner,
                   cullTodo, bodyFailed, registered, stopped, overCost,
                   wallElapsed, callVars, histVars>>

\* Without --execute nothing is provisioned, whatever the preflight found.
DryRun ==
    /\ pc = "down"
    /\ UNCHANGED vars

\* The POST reaches RunPod, which may or may not start the pod.
PostPod(p) ==
    /\ pc = "deploy"
    /\ Cardinality(fleet) < FleetSize
    /\ p \in Pods \ created
    /\ created' = created \cup {p}
    /\ live' \in {live, live \cup {p}}
    /\ cur' = p
    /\ pc' = "posted"
    /\ UNCHANGED <<registry, fleet, eligible, winner, cullTodo, bodyFailed,
                   registered, monVars, callVars, histVars>>

\* Seeded fault: the reply is used without its id.
PodReply_NoId ==
    /\ pc = "posted"
    /\ cur \in live
    /\ pc' = "register"
    /\ cur' = None
    /\ UNCHANGED <<serviceVars, registry, fleet, eligible, winner,
                   cullTodo, bodyFailed, registered, monVars, callVars,
                   histVars>>

\* The reply arrives and carries the id.  (An error reply or a timeout raises:
\* BodyRaises, with or without a running pod.)
PodReply == cur \in live /\ Proceed("posted", "register")

\* PodLeasePool.register: disk first, then memory, in one locked section.
Register ==
    /\ pc = "register"
    /\ registry' = registry \cup {cur}
    /\ registered' = registered \cup {cur}
    /\ fleet' = fleet \cup {cur}
    /\ known' = known \cup {cur}
    /\ overtaken' = IF MonitorClearing THEN overtaken \cup {cur} ELSE overtaken
    /\ cur' = None
    /\ pc' = "deploy"
    /\ UNCHANGED <<serviceVars, eligible, winner, cullTodo, bodyFailed,
                   monVars, callVars>>

\* deploy() returns all pods, and the first cost check passes.
DeployDone ==
    /\ Cardinality(fleet) = FleetSize
    /\ ~overCost
    /\ Proceed("deploy", "wait")

-----------------------------------------------------------------------------
(* The main thread: readiness, gate, bake-off, classification *)

\* wait_until_ready returns before its cap, and the cost check passes.
AllReady == ~overCost /\ Proceed("wait", "gate")

\* The injection gate of every model; fewer than two survivors raise
\* (BodyRaises), then the cost check.
Gate ==
    /\ pc = "gate"
    /\ eligible' \in SUBSET fleet
    /\ Cardinality(eligible') >= 2
    /\ ~overCost
    /\ pc' = "bakeoff"
    /\ UNCHANGED <<serviceVars, registry, fleet, cur, winner, cullTodo,
                   bodyFailed, registered, monVars, callVars, histVars>>

\* Seeded fault: the cull does not compare names.
Bakeoff_CullsAll ==
    /\ pc = "bakeoff"
    /\ winner' \in fleet \cup {None}
    /\ cullTodo' = fleet
    /\ pc' = "cull"
    /\ UNCHANGED <<serviceVars, registry, fleet, cur, eligible, bodyFailed,
                   registered, monVars, callVars, histVars>>

\* The bake-off of live_run_cli scores every model of the grid, not the list
\* of eligible models it is given, and may find no winner.
Bakeoff ==
    /\ pc = "bakeoff"
    /\ winner' \in fleet \cup {None}
    /\ cullTodo' = fleet \ {winner'}
    /\ pc' = "cull"
    /\ UNCHANGED <<serviceVars, registry, fleet, cur, eligible, bodyFailed,
                   registered, monVars, callVars, histVars>>

\* _pool_terminate_one: the DELETE raises and the pod is retained, or it is
\* answered with success, which the re-verification does not take on trust.
CullDelete(p) ==
    /\ pc = "cull"
    /\ p \in cullTodo
    /\ cullTodo' = cullTodo \ {p}
    /\ live' \in {live, live \ {p}}
    /\ \/ pc' = "cull" /\ UNCHANGED cur
       \/ pc' = "cullVerify" /\ cur' = p
    /\ UNCHANGED <<created, registry, fleet, eligible, winner, bodyFailed,
                   registered, monVars, callVars, histVars>>

\* The listing raises or still shows the pod: retained for the final teardown.
CullRetained ==
    /\ pc = "cullVerify"
    /\ pc' = "cull"
    /\ cur' = None
    /\ UNCHANGED <<serviceVars, registry, fleet, eligible, winner,
                   cullTodo, bodyFailed, registered, monVars, callVars,
                   histVars>>

\* Seeded fault: the reply to the DELETE is believed.
CullVerified_Trusting == Proceed("cullVerify", "cullRelease")

CullVerified == cur \notin live /\ Proceed("cullVerify", "cullRelease")

\* Under the lock.  If the monitor has cleared the pool meanwhile, the del
\* raises KeyError before the file is touched, and the caller swallows it.
CullRelease ==
    /\ pc = "cullRelease"
    /\ registered' = registered \ {cur}
    /\ registry' = IF cur \in registered THEN registry \ {cur} ELSE registry
    /\ pc' = "cull"
    /\ cur' = None
    /\ UNCHANGED <<serviceVars, fleet, eligible, winner, cullTodo,
                   bodyFailed, monVars, callVars, histVars>>

\* The del is done and rewriting the file raises: the caller swallows that too,
\* and the entry of the pod, which is gone, stays behind.
CullReleaseFails ==
    /\ pc = "cullRelease"
    /\ cur \in registered
    /\ registered' = registered \ {cur}
    /\ pc' = "cull"
    /\ cur' = None
    /\ UNCHANGED <<serviceVars, registry, fleet, eligible, winner, cullTodo,
                   bodyFailed, monVars, callVars, histVars>>

CullDone == cullTodo = {} /\ ~overCost /\ Proceed("cull", "classify")

\* classify_fn(winner) returns.
Classify == Proceed("classify", "coverage")

-----------------------------------------------------------------------------
(* The main thread: teardown and exit *)

\* The coverage marker verifies, the body ends, and the finally block calls
\* terminate_all.
BodyEnds ==
    /\ pc = "coverage"
    /\ pc' = "teardown"
    /\ phase' = [phase EXCEPT !["main"] = "start"]
    /\ UNCHANGED <<serviceVars, registry, fleet, cur, eligible, winner,
                   cullTodo, bodyFailed, registered, monVars, snap, todo,
                   histVars>>

\* Any exception in the body: a refused or timed-out creation, a registry
\* write that fails, the cost ceiling, the readiness cap, the gate, too few
\* eligible models, the bake-off, the classification, the coverage marker,
\* Ctrl-C.
BodyRaises ==
    /\ pc \in BodyPCs
    /\ pc' = "teardown"
    /\ bodyFailed' = TRUE
    /\ phase' = [phase EXCEPT !["main"] = "start"]
    /\ UNCHANGED <<serviceVars, registry, fleet, cur, eligible, winner,
                   cullTodo, registered, monVars, snap, todo, histVars>>

\* Seeded fault: a failed teardown is not reported.
TeardownDone_Quiet ==
    /\ pc = "teardown"
    /\ Returned("main")
    /\ pc' = IF bodyFailed THEN "raised" ELSE "returned"
    /\ phase' = [phase EXCEPT !["main"] = "idle"]
    /\ stopped' = TRUE
    /\ UNCHANGED <<serviceVars, registry, fleet, cur, eligible, winner,
                   cullTodo, bodyFailed, registered, mon, overCost,
                   wallElapsed, snap, todo, histVars>>

\* guaranteed_teardown hands on the body's exception or the teardown's, or
\* returns; the finally block of orchestrate_live_run stops the monitor.
TeardownDone ==
    /\ pc = "teardown"
    /\ Returned("main")
    /\ pc' = IF bodyFailed \/ phase["main"] = "failed" THEN "raised"
                                                      ELSE "returned"
    /\ phase' = [phase EXCEPT !["main"] = "idle"]
    /\ stopped' = TRUE
    /\ UNCHANGED <<serviceVars, registry, fleet, cur, eligible, winner,
                   cullTodo, bodyFailed, registered, mon, overCost,
                   wallElapsed, snap, todo, histVars>>

\* The interpreter shuts down: the atexit handler is there if a pod was ever
\* registered.
RunAtExit ==
    /\ pc \in {"returned", "raised"}
    /\ fleet # {}
    /\ pc' = "atexit"
    /\ phase' = [phase EXCEPT !["main"] = "start"]
    /\ UNCHANGED <<serviceVars, registry, fleet, cur, eligible, winner,
                   cullTodo, bodyFailed, registered, monVars, snap, todo,
                   histVars>>

Exit ==
    /\ \/ pc \in {"returned", "raised"} /\ fleet = {}
       \/ pc = "atexit" /\ Returned("main")  \* what it raised is swallowed
    /\ ProcessEnds

-----------------------------------------------------------------------------
(* The monitor thread *)

MonitorProceeds(from, to) ==
    /\ mon = from
    /\ mon' = to
    /\ UNCHANGED <<serviceVars, registry, mainVars, registered, stopped,
                   overCost, wallElapsed, callVars, histVars>>

\* The interruptible sleep times out.
MonitorPolls == ~stopped /\ MonitorProceeds("watch", "check")

MonitorStops == stopped /\ MonitorProceeds("watch", "off")

MonitorSeesNoBreach ==
    ~overCost /\ ~wallElapsed /\ MonitorProceeds("check", "watch")

MonitorSeesBreach ==
    /\ mon = "check"
    /\ overCost \/ wallElapsed
    /\ mon' = "teardown"
    /\ phase' = [phase EXCEPT !["monitor"] = "start"]
    /\ UNCHANGED <<serviceVars, registry, mainVars, registered, stopped,
                   overCost, wallElapsed, snap, todo, histVars>>

\* Seeded fault: an error of terminate_all ends the monitor thread.
ForceExit_OnlyAfterSuccess ==
    /\ mon = "teardown"
    /\ phase["monitor"] = "ok"
    /\ ProcessEnds

\* on_fatal: os._exit, whatever terminate_all did.
ForceExit ==
    /\ mon = "teardown"
    /\ Returned("monitor")
    /\ ProcessEnds

Monitor ==
    \/ MonitorPolls
    \/ MonitorStops
    \/ MonitorSeesNoBreach
    \/ MonitorSeesBreach
    \/ TerminateAll("monitor")
    \/ ForceExit

-----------------------------------------------------------------------------
(* The environment *)

CostExceeded ==
    /\ pc # "down"
    /\ ~overCost
    /\ overCost' = TRUE
    /\ UNCHANGED <<serviceVars, registry, mainVars, registered, mon, stopped,
                   wallElapsed, callVars, histVars>>

WallCapElapses ==
    /\ pc # "down"
    /\ ~wallElapsed
    /\ wallElapsed' = TRUE
    /\ UNCHANGED <<serviceVars, registry, mainVars, registered, mon, stopped,
                   overCost, callVars, histVars>>

\* SIGKILL, power loss: nothing of the process runs any more.
Kill ==
    /\ pc # "down"
    /\ ProcessEnds

\* Seeded fault: the name guard is given the pod's RunPod name, which
\* starts with "classify-", and skips every pod.
Backstop_GuardedByPodName(p) ==
    /\ pc = "down"
    /\ p \in registry \cap live
    /\ UNCHANGED <<serviceVars, registry, mainVars, registered, monVars,
                   callVars, histVars>>

\* reconcile(execute=True): a pod that is live and in the registry is sent a
\* DELETE; the registry file is left as it is.  The runbook has the operator
\* run it when the process is gone.
Backstop(p) ==
    /\ pc = "down"
    /\ p \in registry \cap live
    /\ live' \in {live, live \ {p}}
    /\ UNCHANGED <<created, registry, mainVars, registered, monVars, callVars,
                   histVars>>

\* The runbook's console fallback: terminate a pod there, then remove its
\* entry from the file.
ConsoleTerminate(p) ==
    /\ pc = "down"
    /\ p \in live
    /\ live' = live \ {p}
    /\ UNCHANGED <<created, registry, mainVars, registered, monVars, callVars,
                   histVars>>

ConsoleForget(p) ==
    /\ pc = "down"
    /\ p \in registry \ live
    /\ registry' = registry \ {p}
    /\ UNCHANGED <<serviceVars, mainVars, registered, monVars, callVars,
                   histVars>>

Operator(p) == Backstop(p) \/ ConsoleTerminate(p) \/ ConsoleForget(p)

Deploy ==
    \/ \E p \in Pods : PostPod(p)
    \/ PodReply
    \/ Register
    \/ DeployDone

Cull ==
    \/ \E p \in Pods : CullDelete(p)
    \/ CullRetained
    \/ CullVerified
    \/ CullRelease
    \/ CullReleaseFails
    \/ CullDone

\* What the main thread does once it has left the body.
Leave == TerminateAll("main") \/ TeardownDone \/ RunAtExit \/ Exit

Main ==
    \/ Deploy
    \/ AllReady
    \/ Gate
    \/ Bakeoff
    \/ Cull
    \/ Classify
    \/ BodyEnds
    \/ BodyRaises
    \/ Leave

Environment ==
    \/ StartRun
    \/ DryRun
    \/ CostExceeded
    \/ WallCapElapses
    \/ Kill
    \/ \E p \in Pods : Operator(p)

Next == Main \/ Monitor \/ Environment

Spec == Init /\ [][Next]_vars

\* The monitor thread is scheduled and its requests have timeouts; so are the
\* main thread's once it has left the body.  In the body it may block forever.
Fairness == WF_vars(Monitor) /\ WF_vars(Leave)

\* The operator keeps running the backstop, and RunPod eventually honours the
\* DELETE of a registered pod.
BackstopWorks(p) == Backstop(p) /\ p \notin live'

FairSpec == Spec /\ Fairness /\ \A p \in Pods : WF_vars(BackstopWorks(p))
-----------------------------------------------------------------------------
(* Properties *)

\* The registry is the backstop: a registered pod keeps its entry in the file
\* for as long as RunPod runs it, through early and final teardown, a breach,
\* crashes and restarts.  The exception is a pod registered while the
\* monitor's terminate_all was under way (RegistryKeepsEveryLease drops it).
RecordedUntilGone ==
    \A p \in known \cap live : p \in registry \/ p \in overtaken

\* The same without the exception, as the runbook has it.
RegistryKeepsEveryLease == known \cap live \subseteq registry

\* While the process runs, each pod of its fleet that is still up is in the
\* in-memory pool, so that the final teardown tries it again: a pod whose
\* early teardown failed, or was untruly reported, is retained.
PoolCoversFleet ==
    pc # "down" => \A p \in fleet \cap live : p \in registered \cup overtaken

\* orchestrate_live_run returns a result only if the whole fleet is gone.
ReturnedMeansGone ==
    pc = "returned" => fleet \cap live \subseteq overtaken

\* No double burn: while a run is up, every live pod was created by that run,
\* whatever earlier runs left behind.
OneFleetAtATime ==
    pc # "down" => live \subseteq fleet \cup {cur}

\* The early teardown of the losers spares the winner: it is up and still
\* leased while it classifies, unless the monitor has begun its teardown.
WinnerStaysUp ==
    (pc \in {"classify", "coverage"} /\ winner # None /\ mon # "teardown")
        => winner \in live \cap registered

\* The model that classifies the corpus passed the injection gate.
WinnerPassedGate == pc = "classify" => winner \in eligible \cup {None}

\* A breach of the cost or wall cap ends the process even when the main thread
\* is blocked for good in deployment, bake-off or classification.
BreachEndsRun ==
    (pc # "down" /\ (overCost \/ wallElapsed)) ~> (pc = "down")

\* A pod a dead process left behind is reclaimed if its entry is in the file.
RecordedPodsReclaimed ==
    \A p \in Pods :
        (pc = "down" /\ p \in registry \cap live) ~> (p \notin live)

-----------------------------------------------------------------------------
(* The lease implements the ledger *)

PodStatus(p) ==
    CASE p \notin created              -> "fresh"
      [] p \in created \ live          -> "gone"
      [] p \in live \ known            -> "unleased"
      [] p \in (live \cap known) \ overtaken    -> "leased"
      [] p \in live \cap known \cap overtaken -> "overtaken"

Ledger == INSTANCE PodLedger WITH
              status <- [p \in Pods |-> PodStatus(p)],
              ledger <- registry

\* Every step of the processes, the service and the operator is a step of the
\* ledger or none at all.
ImplementsLedger == Ledger!Spec
=============================================================================
