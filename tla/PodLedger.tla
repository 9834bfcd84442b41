----------------------------- MODULE PodLedger -----------------------------
(***************************************************************************)
(* What a pod lease promises, without processes, threads or requests: the  *)
(* life of every pod id and the ledger that is consulted after a crash.    *)
(* An entry is struck from the ledger only when its pod is gone; the one   *)
(* exemption is a pod whose lease was entered while a teardown of all      *)
(* pods was already under way, which the code does not protect.            *)
(***************************************************************************)
CONSTANT Pods

VARIABLES
    status,  \* of every pod id
    ledger   \* pod ids with an entry

Statuses == {"fresh",      \* never requested
             "unleased",   \* runs, and no process has entered it yet
             "leased",     \* runs and was entered
             "overtaken",  \* runs, entered during a teardown of all pods
             "gone"}       \* does not run and never will again

TypeOK ==
    /\ status \in [Pods -> Statuses]
    /\ ledger \subseteq Pods

Init ==
    /\ status = [p \in Pods |-> "fresh"]
    /\ ledger = {}

Request(p) ==
    /\ status[p] = "fresh"
    /\ \E s \in {"unleased", "gone"} : status' = [status EXCEPT ![p] = s]
    /\ UNCHANGED ledger

Enter(p) ==
    /\ status[p] = "unleased"
    /\ \E s \in {"leased", "overtaken"} : status' = [status EXCEPT ![p] = s]
    /\ ledger' = ledger \cup {p}

Vanish(p) ==
    /\ status[p] \in {"unleased", "leased", "overtaken"}
    /\ status' = [status EXCEPT ![p] = "gone"]
    /\ UNCHANGED ledger

Strike(S) ==
    /\ \A p \in S : status[p] \in {"gone", "overtaken"}
    /\ ledger' = ledger \ S
    /\ UNCHANGED status

Next ==
    \/ \E p \in Pods : Request(p) \/ Enter(p) \/ Vanish(p)
    \/ \E S \in SUBSET Pods : Strike(S)

Spec == Init /\ [][Next]_<<status, ledger>>

=============================================================================
