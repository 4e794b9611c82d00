----------------------------- MODULE DagExecution -----------------------------
(***************************************************************************)
(* What running a dependency graph of work nodes promises, whatever the    *)
(* number of workers: a node runs only after everything it depends on has  *)
(* completed, never together with a node whose write scope overlaps its    *)
(* own, and what was once decided about a node stays decided.              *)
(***************************************************************************)
CONSTANTS
    Item,      \* work nodes
    External,  \* nodes completed before this run
    Deps,      \* depends_on of each node
    Clash      \* nodes whose write scope overlaps a node's

VARIABLE status

Outcome == {"COMPLETED", "FAILED", "CONFLICT", "CANCELLED", "BLOCKED"}

Status == Outcome \cup {"waiting", "running"}

Running == {i \in Item : status[i] = "running"}

Met(i) == \A d \in Deps[i] : d \in External \/ status[d] = "COMPLETED"

Doomed(i) == \E d \in Deps[i] \ External : status[d] \in Outcome \ {"COMPLETED"}

Init == status = [i \in Item |-> "waiting"]

Set(S, s) == status' = [i \in Item |-> IF i \in S THEN s ELSE status[i]]

Start(i) ==
    /\ status[i] = "waiting"
    /\ Met(i)
    /\ Clash[i] \cap (Running \ {i}) = {}
    /\ Set({i}, "running")

\* A rate-limited node gives up its worker and is tried again.
Yield(i) == status[i] = "running" /\ Set({i}, "waiting")

Complete(i) == status[i] = "running" /\ Set({i}, "COMPLETED")

\* A node fails in its worker, or before it gets one.
Fail(i) ==
    /\ status[i] \in {"waiting", "running"}
    /\ Met(i)
    /\ \E s \in {"FAILED", "CONFLICT", "CANCELLED"} : Set({i}, s)

Block ==
    \E S \in SUBSET {i \in Item : status[i] = "waiting" /\ Doomed(i)} : Set(S, "BLOCKED")

CancelRest == Set({i \in Item : status[i] = "waiting"}, "CANCELLED")

Next ==
    \/ \E i \in Item : Start(i) \/ Yield(i) \/ Complete(i) \/ Fail(i)
    \/ Block
    \/ CancelRest

Spec == Init /\ [][Next]_status

=============================================================================
