---------------------------- MODULE WaveScheduler ----------------------------
(***************************************************************************)
(* One call of DeterministicWaveScheduler.run: the controller thread       *)
(* chooses waves of ready, write-disjoint nodes; one pool thread per node  *)
(* takes a lease, runs the worker and reports; pause, resume and cancel    *)
(* come from the user's thread; the concurrency limit backs off on rate    *)
(* limits and heals on successes.                                          *)
(***************************************************************************)
EXTENDS Naturals, FiniteSets

CONSTANTS
    Item,          \* the nodes handed to run
    External,      \* initially_completed
    Deps,          \* depends_on
    Clash,         \* scopes_overlap of the write_paths of two different nodes
    Pos,           \* place in the stable order of _ordered
    Initial,       \* concurrency the run starts with
    RecoverAfter,  \* successes that heal the limit by one
    Retries        \* rate_limit_retries

ASSUME ItemAssumption == IsFiniteSet(Item)
ASSUME DepsAssumption == Deps \in [Item -> SUBSET (Item \cup External)]
ASSUME ExternalAssumption == Item \cap External = {}
ASSUME ClashAssumption ==
    /\ Clash \in [Item -> SUBSET Item]
    /\ \A i, j \in Item : j \in Clash[i] <=> i \in Clash[j]
    /\ \A i \in Item : i \notin Clash[i]
ASSUME PosAssumption ==
    /\ Pos \in [Item -> Nat]
    /\ \A i, j \in Item : Pos[i] = Pos[j] => i = j
ASSUME LimitAssumption ==
    /\ Initial \in Nat \ {0}
    /\ RecoverAfter \in Nat \ {0}
    /\ Retries \in Nat

VARIABLES
    main,       \* the controller: "loop" at the top of its while, "wave" joining
                \* the pool, or how run ended
    outcome,    \* outcomes; a node without one is pending
    wave,       \* the nodes of the current wave
    thr,        \* its threads: "gate" before the checkpoint, "run" in the worker
    result,     \* what a finished thread returns
    tries,      \* attempts of _run_one
    leases,     \* owners in ResourceLeaseManager._leases
    limit,      \* AdaptiveConcurrency._current
    wins,       \* its _successes, counted up to RecoverAfter
    paused,
    cancelled   \* CooperativeControl

vars == <<main, outcome, wave, thr, result, tries, leases, limit, wins, paused, cancelled>>

Outcome == {"COMPLETED", "FAILED", "CONFLICT", "CANCELLED", "BLOCKED"}
Final == {"returned", "cycle", "boundary"}

TypeOK ==
    /\ main \in {"loop", "wave"} \cup Final
    /\ outcome \in [Item -> Outcome \cup {"none"}]
    /\ wave \in SUBSET Item
    /\ thr \in [Item -> {"idle", "gate", "run", "done", "raised"}]
    /\ result \in [Item -> Outcome \cup {"none"}]
    /\ tries \in [Item -> 0 .. Retries + 1]
    /\ leases \in SUBSET Item
    /\ limit \in 1 .. Initial
    /\ wins \in 0 .. RecoverAfter
    /\ paused \in BOOLEAN
    /\ cancelled \in BOOLEAN

Init ==
    /\ main = "loop"
    /\ outcome = [i \in Item |-> "none"]
    /\ wave = {}
    /\ thr = [i \in Item |-> "idle"]
    /\ result = [i \in Item |-> "none"]
    /\ tries = [i \in Item |-> 0]
    /\ leases = {}
    /\ limit = Initial
    /\ wins = 0
    /\ paused = FALSE
    /\ cancelled = FALSE

threadVars == <<wave, thr, result, tries, leases, limit, wins>>

-----------------------------------------------------------------------------
(* CooperativeControl *)

Pause == ~cancelled /\ paused' = TRUE /\ UNCHANGED <<main, outcome, threadVars, cancelled>>

Resume == paused' = FALSE /\ UNCHANGED <<main, outcome, threadVars, cancelled>>

Cancel ==
    /\ cancelled' = TRUE
    /\ paused' = FALSE
    /\ UNCHANGED <<main, outcome, threadVars>>

\* checkpoint returns; it waits while paused and raises once cancelled.
MayPass == ~paused /\ ~cancelled

-----------------------------------------------------------------------------
(* The controller thread *)

Pending == {i \in Item : outcome[i] = "none"}

\* Mutant of Failed: only a worker's own failure counts.
Mut_Failed == {i \in Item : outcome[i] = "FAILED"}

Failed == {i \in Item : outcome[i] \notin {"none", "COMPLETED"}}

Completed == External \cup {i \in Item : outcome[i] = "COMPLETED"}

NewlyBlocked == {i \in Pending : Deps[i] \cap Failed # {}}

\* Mutant of Ready: one completed prerequisite is enough.
Mut_Ready == {i \in Pending : Deps[i] = {} \/ Deps[i] \cap Completed # {}}

Ready == {i \in Pending : Deps[i] \subseteq Completed}

\* Mutant of Overlap: a scope is compared only with the later ones it contains.
Mut_Overlap(i, S) == \E j \in S : j \in Clash[i] /\ Pos[i] < Pos[j]

Overlap(i, S) == Clash[i] \cap S # {}

\* Mutant of IsWave: write scopes are left to the lease manager.
Mut_IsWave(W) ==
    \A i \in Ready :
        i \in W <=> Cardinality({j \in W : Pos[j] < Pos[i]}) < limit

\* Another mutant of IsWave: the limit is tested before the node is counted.
Mut_IsWaveLimit(W) ==
    \A i \in Ready :
        LET earlier == {j \in W : Pos[j] < Pos[i]}
        IN  i \in W <=> ~Overlap(i, earlier) /\ Cardinality(earlier) <= limit

\* _wave: in order, each ready node that overlaps no earlier member, up to the limit.
IsWave(W) ==
    \A i \in Ready :
        LET earlier == {j \in W : Pos[j] < Pos[i]}
        IN  i \in W <=> ~Overlap(i, earlier) /\ Cardinality(earlier) < limit

\* The checkpoint at the top raises: what is pending is cancelled.
LoopCancelled ==
    /\ main = "loop" /\ Pending # {}
    /\ cancelled
    /\ outcome' = [i \in Item |-> IF i \in Pending THEN "CANCELLED" ELSE outcome[i]]
    /\ main' = "returned"
    /\ UNCHANGED <<threadVars, paused, cancelled>>

\* Nodes below a failed node are blocked, then the loop starts over.
LoopBlock ==
    /\ main = "loop" /\ Pending # {}
    /\ MayPass
    /\ NewlyBlocked # {}
    /\ outcome' = [i \in Item |-> IF i \in NewlyBlocked THEN "BLOCKED" ELSE outcome[i]]
    /\ main' = main
    /\ UNCHANGED <<threadVars, paused, cancelled>>

\* DependencyGraphError.
LoopCycle ==
    /\ main = "loop" /\ Pending # {}
    /\ MayPass
    /\ NewlyBlocked = {}
    /\ Ready = {}
    /\ main' = "cycle"
    /\ UNCHANGED <<outcome, threadVars, paused, cancelled>>

StartWave ==
    /\ main = "loop"
    /\ MayPass
    /\ NewlyBlocked = {}
    /\ Ready # {}
    /\ \E W \in SUBSET Ready :
         /\ IsWave(W)
         /\ wave' = W
         /\ thr' = [i \in Item |-> IF i \in W THEN "gate" ELSE thr[i]]
    /\ main' = "wave"
    /\ UNCHANGED <<outcome, result, tries, leases, limit, wins, paused, cancelled>>

\* The pool is joined; a user boundary is raised to the caller, otherwise the
\* outcomes are applied together.
JoinWave ==
    /\ main = "wave"
    /\ \A i \in wave : thr[i] \in {"done", "raised"}
    /\ IF \E i \in wave : thr[i] = "raised"
       THEN main' = "boundary" /\ UNCHANGED <<outcome, wave, thr, result, tries>>
       ELSE /\ main' = "loop"
            /\ outcome' = [i \in Item |-> IF i \in wave THEN result[i] ELSE outcome[i]]
            /\ wave' = {}
            /\ thr' = [i \in Item |-> "idle"]
            /\ result' = [i \in Item |-> "none"]
            /\ tries' = [i \in Item |-> 0]
    /\ UNCHANGED <<leases, limit, wins, paused, cancelled>>

LoopReturn ==
    /\ main = "loop" /\ Pending = {}
    /\ main' = "returned"
    /\ UNCHANGED <<outcome, threadVars, paused, cancelled>>

-----------------------------------------------------------------------------
(* AdaptiveConcurrency *)

OnSuccess ==
    LET heal == wins + 1 >= RecoverAfter /\ limit < Initial
    IN  /\ limit' = IF heal THEN limit + 1 ELSE limit
        /\ wins' = IF heal THEN 0 ELSE IF wins < RecoverAfter THEN wins + 1 ELSE wins

OnRateLimit == limit' = (IF limit > 1 THEN limit - 1 ELSE 1) /\ wins' = 0

SameLimit == limit' = limit /\ wins' = wins

-----------------------------------------------------------------------------
(* _run_one, in the pool thread of node i *)

Others == <<main, outcome, wave, paused, cancelled>>

Finish(i, s) ==
    /\ thr' = [thr EXCEPT ![i] = "done"]
    /\ result' = [result EXCEPT ![i] = s]
    /\ UNCHANGED Others

Attempt(i) == tries' = [tries EXCEPT ![i] = @ + 1]

GateCancelled(i) ==
    /\ thr[i] = "gate"
    /\ cancelled
    /\ Attempt(i)
    /\ Finish(i, "CANCELLED")
    /\ SameLimit
    /\ leases' = leases

\* ResourceLeaseManager.acquire.
Acquire(i) ==
    /\ thr[i] = "gate"
    /\ MayPass
    /\ ~Overlap(i, leases)
    /\ Attempt(i)
    /\ leases' = leases \cup {i}
    /\ thr' = [thr EXCEPT ![i] = "run"]
    /\ result' = result
    /\ SameLimit
    /\ UNCHANGED Others

\* An overlapping lease or a changed pre-write hash is a conflict; a durable
\* lease the state store refuses is an error of the node.
Refused(i) ==
    /\ thr[i] = "gate"
    /\ MayPass
    /\ Attempt(i)
    /\ \/ Finish(i, "CONFLICT")
       \/ ~Overlap(i, leases) /\ Finish(i, "FAILED")
    /\ SameLimit
    /\ leases' = leases

Release(i) == leases' = leases \ {i}

WorkerReturns(i) ==
    /\ thr[i] = "run"
    /\ Release(i)
    /\ OnSuccess
    /\ Finish(i, "COMPLETED")
    /\ tries' = tries

\* The worker raises (a lease conflict or a stale write of its own is a conflict),
\* or is stopped at one of its own checkpoints.
WorkerFails(i) ==
    /\ thr[i] = "run"
    /\ Release(i)
    /\ \/ \E o \in {"FAILED", "CONFLICT"} : Finish(i, o)
       \/ cancelled /\ Finish(i, "CANCELLED")
    /\ SameLimit
    /\ tries' = tries

OutOfTries(i) == tries[i] > Retries

\* Mutant of WorkerLimited: the attempt is not counted.
Mut_WorkerLimited(i) ==
    /\ thr[i] = "run"
    /\ Release(i)
    /\ OnRateLimit
    /\ tries' = [tries EXCEPT ![i] = 0]
    /\ IF OutOfTries(i)
       THEN Finish(i, "FAILED")
       ELSE thr' = [thr EXCEPT ![i] = "gate"] /\ result' = result /\ UNCHANGED Others

WorkerLimited(i) ==
    /\ thr[i] = "run"
    /\ Release(i)
    /\ OnRateLimit
    /\ tries' = tries
    /\ IF OutOfTries(i)
       THEN Finish(i, "FAILED")
       ELSE thr' = [thr EXCEPT ![i] = "gate"] /\ result' = result /\ UNCHANGED Others

\* An approval the worker needs from the user is not a failure of the node.
WorkerBoundary(i) ==
    /\ thr[i] = "run"
    /\ Release(i)
    /\ thr' = [thr EXCEPT ![i] = "raised"]
    /\ SameLimit
    /\ result' = result /\ tries' = tries
    /\ UNCHANGED Others

\* The model calls inside the worker move the shared limit too.
ModelCall(i) ==
    /\ thr[i] = "run"
    /\ OnSuccess \/ OnRateLimit
    /\ thr' = thr /\ result' = result /\ tries' = tries /\ leases' = leases
    /\ UNCHANGED Others

-----------------------------------------------------------------------------

Controller == LoopCancelled \/ LoopBlock \/ LoopCycle \/ StartWave \/ JoinWave \/ LoopReturn

WorkerEnds(i) == WorkerReturns(i) \/ WorkerFails(i) \/ WorkerLimited(i) \/ WorkerBoundary(i)

Gate(i) == GateCancelled(i) \/ Acquire(i) \/ Refused(i)

Control == Pause \/ Resume \/ Cancel

Next == Controller \/ Control \/ \E i \in Item : Gate(i) \/ WorkerEnds(i) \/ ModelCall(i)

Spec == Init /\ [][Next]_vars

\* The threads are scheduled, and a worker's bounded pipeline ends; nothing is
\* assumed of the user.
Fairness ==
    /\ WF_vars(Controller)
    /\ \A i \in Item : WF_vars(Gate(i)) /\ WF_vars(WorkerEnds(i))

FairSpec == Spec /\ Fairness

-----------------------------------------------------------------------------
(* Properties *)

InWorker == {i \in Item : thr[i] = "run"}

\* No two workers run at once with overlapping write scopes, whatever retries,
\* pauses and failures happen around them (hold around the worker call).
WriteExclusion == \A i, j \in InWorker : j \notin Clash[i]

\* The waves are disjoint, so the lease manager, the last line of defence, never
\* has to refuse a node of the wave, not even one that retries while its
\* neighbours hold their leases.
LeaseNeverRefused == \A i \in Item : thr[i] = "gate" => Clash[i] \cap leases = {}

\* Never more workers than the run was started with, although the limit moves
\* while a wave is running.
ConcurrencyBound == Cardinality(InWorker) <= Initial

\* A cycle is reported only if there is one: every node that is left waits for
\* another that is left, however deep the failures that blocked the rest.
NoFalseCycle == main = "cycle" => \A i \in Pending : Deps[i] \cap Pending # {}

\* When run returns without having been cancelled, exactly the nodes below a
\* node that did not complete are blocked, and everything else was tried.
OutcomesJustified ==
    main = "returned" /\ ~cancelled =>
        \A i \in Item :
            outcome[i] = "BLOCKED" <=> \E d \in Deps[i] \cap Item : outcome[d] # "COMPLETED"

\* The run ends unless the user leaves it paused; a cancel ends it even then.
RunEnds == (<>[]~paused \/ <>cancelled) => <>(main \in Final)

\* A node as seen from outside: the result of its thread counts at once.
Seen ==
    [i \in Item |->
        IF outcome[i] # "none" THEN outcome[i]
        ELSE IF thr[i] = "run" THEN "running"
        ELSE IF thr[i] = "done" THEN result[i] ELSE "waiting"]

Dag == INSTANCE DagExecution WITH status <- Seen

\* The scheduler implements the abstract execution of the graph.
ImplementsDag == Dag!Spec

=============================================================================
