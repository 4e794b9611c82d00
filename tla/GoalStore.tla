------------------------------ MODULE GoalStore ------------------------------
(***************************************************************************)
(* The durable record of one goal: its status, its plan revisions, their   *)
(* tasks and evidence, and the journal of actions and delegations.  Every  *)
(* operator below is one SQLite transaction of store.py, guarded by the    *)
(* transition tables of models.py.                                         *)
(*                                                                         *)
(* A task is an identifier that keeps its dependencies across revisions; a *)
(* plan contains a subset of the tasks, and a dependency on a task outside *)
(* the plan does not exist (removing a task drops it from depends_on).     *)
(***************************************************************************)
EXTENDS Naturals, GoalLifecycle

CONSTANTS
    Task,       \* task identifiers
    Deps,       \* depends_on of each task
    Pos,        \* position of each task in the plan (priority DESC, rowid)
    ClaimTask,  \* legacy checklist items for harness-owned resource claims
    Entry,      \* bound on the journal rows that still matter
    MaxRev,     \* bound on the number of plan revisions
    NoTask      \* an action that belongs to no task

ASSUME DepsAssumption == Deps \in [Task -> SUBSET Task]
ASSUME PosAssumption ==
    /\ Pos \in [Task -> Nat]
    /\ \A s, t \in Task : Pos[s] = Pos[t] => s = t
ASSUME NoTaskAssumption == NoTask \notin Task
ASSUME MaxRevAssumption == MaxRev \in Nat \ {0}

VARIABLES
    goal,    \* goals.status
    active,  \* goals.active_plan_revision, 0 for NULL
    resume,  \* goals.metadata["resume_status"]
    rev,     \* MAX(plans.revision)
    plans,   \* plans.status by revision
    tasks,   \* tasks.status by revision and task
    evid,    \* strongest evidence row by revision and task
    jrn      \* rows of the actions and delegations tables; one that is
             \* finished is read by nobody and its slot is used again

storeVars == <<goal, active, resume, rev, plans, tasks, evid, jrn>>

Revision == 1 .. MaxRev

-----------------------------------------------------------------------------
(* models.py: the transition tables of plans and tasks. *)

\* "none" is a revision that does not exist yet; DRAFT is never used, because
\* every caller of create_plan submits the plan.
PlanStatus == {"none", "PENDING", "ACCEPTED", "REJECTED", "SUPERSEDED"}

\* The statuses the runtime gives a task; "absent" is a task outside the plan.
TaskStatus == {"absent", "PENDING", "IN_PROGRESS", "COMPLETED", "BLOCKED", "OBSOLETE", "UNCERTAIN"}

TaskGraph ==
    [PENDING     |-> {"IN_PROGRESS", "COMPLETED", "BLOCKED", "OBSOLETE"},
     IN_PROGRESS |-> {"PENDING", "COMPLETED", "BLOCKED", "OBSOLETE", "UNCERTAIN"},
     COMPLETED   |-> {"PENDING", "OBSOLETE"},
     BLOCKED     |-> {"PENDING", "IN_PROGRESS", "OBSOLETE"},
     OBSOLETE    |-> {"PENDING"},
     UNCERTAIN   |-> {"PENDING", "IN_PROGRESS", "COMPLETED", "BLOCKED", "OBSOLETE"},
     absent      |-> {}]

TaskMay(from, to) == from # "absent" /\ (from = to \/ to \in TaskGraph[from])

Closed == {"COMPLETED", "OBSOLETE"}

\* Evidence strength: model-authored prose, a user's word, a verified harness record.
None  == 0
Prose == 1
User  == 2
Proof == 3

Stronger(a, b) == IF a > b THEN a ELSE b

EntryStatus == {"none", "running", "closed", "uncertain", "resolved"}

NoRow == [kind |-> "action", task |-> NoTask, rev |-> 0, status |-> "none"]

StoreTypeOK ==
    /\ goal \in GoalStatus
    /\ active \in 0 .. MaxRev
    /\ resume \in GoalStatus \cup {"unset"}
    /\ rev \in 0 .. MaxRev
    /\ plans \in [Revision -> PlanStatus]
    /\ tasks \in [Revision -> [Task -> TaskStatus]]
    /\ evid \in [Revision -> [Task -> None .. Proof]]
    /\ jrn \in [Entry -> [kind : {"action", "delegation"}, task : Task \cup {NoTask},
                          rev : 0 .. MaxRev, status : EntryStatus]]

StoreInit ==
    /\ goal = "NEW"
    /\ active = 0
    /\ resume = "unset"
    /\ rev = 0
    /\ plans = [r \in Revision |-> "none"]
    /\ tasks = [r \in Revision |-> [t \in Task |-> "absent"]]
    /\ evid = [r \in Revision |-> [t \in Task |-> None]]
    /\ jrn = [e \in Entry |-> NoRow]

-----------------------------------------------------------------------------
(* Readers *)

Present(p) == {t \in Task : p[t] # "absent"}

DepsOf(p, t) == Deps[t] \cap Present(p)

\* Every prerequisite of t in plan p is completed or obsolete.
DepsDone(p, t) == \A d \in DepsOf(p, t) : p[d] \in Closed

Authoritative(level) == level \in {User, Proof}

Open(status) == {e \in Entry : jrn[e].status = status}

Uncertain == Open("uncertain")

\* _unresolved_recovery_entities: what resume refuses to step over.
Unresolved ==
    \/ Uncertain # {}
    \/ rev # 0 /\ \E t \in Task : tasks[rev][t] = "UNCERTAIN"

-----------------------------------------------------------------------------
(* Transactions.  Each one constrains only the variables it writes. *)

TransitionGoal(to) == GoalMay(goal, to) /\ goal' = to

\* Mutant of CreatePlan: the accepted revision is superseded before approval.
Mut_CreatePlan(p) ==
    /\ rev < MaxRev
    /\ Present(p) # {}
    /\ rev' = rev + 1
    /\ plans' = [r \in Revision |-> IF r = rev + 1 THEN "PENDING"
                                    ELSE IF r <= rev THEN "SUPERSEDED" ELSE plans[r]]
    /\ tasks' = [tasks EXCEPT ![rev + 1] = p]

\* create_plan supersedes the pending revision and leaves the accepted one.
CreatePlan(p) ==
    /\ rev < MaxRev
    /\ Present(p) # {}
    /\ rev' = rev + 1
    /\ plans' = [r \in Revision |-> IF r = rev + 1 THEN "PENDING"
                                    ELSE IF plans[r] = "PENDING" THEN "SUPERSEDED" ELSE plans[r]]
    /\ tasks' = [tasks EXCEPT ![rev + 1] = p]

\* Mutant of ApprovePlan: the previously accepted revision is not superseded.
Mut_ApprovePlan ==
    /\ rev # 0
    /\ plans[rev] \in {"PENDING", "ACCEPTED"}
    /\ GoalMay(goal, "RUNNING")
    /\ plans' = [plans EXCEPT ![rev] = "ACCEPTED"]
    /\ active' = rev
    /\ goal' = "RUNNING"

\* approve_plan accepts only the latest revision, in one transaction with the goal.
ApprovePlan ==
    /\ rev # 0
    /\ plans[rev] \in {"PENDING", "ACCEPTED"}
    /\ GoalMay(goal, "RUNNING")
    /\ plans' = [r \in Revision |-> IF r = rev THEN "ACCEPTED"
                                    ELSE IF plans[r] = "ACCEPTED" THEN "SUPERSEDED" ELSE plans[r]]
    /\ active' = rev
    /\ goal' = "RUNNING"

RejectPlan ==
    /\ rev # 0
    /\ plans[rev] = "PENDING"
    /\ GoalMay(goal, "REVISING")
    /\ plans' = [plans EXCEPT ![rev] = "REJECTED"]
    /\ goal' = "REVISING"

\* transition_task on the latest plan, with its dependency gate; the evidence
\* of strength k is recorded first, and completion requires some evidence.
TransitionTask(t, to, k) ==
    /\ rev # 0
    /\ TaskMay(tasks[rev][t], to)
    /\ to \in {"IN_PROGRESS", "COMPLETED"} => DepsDone(tasks[rev], t)
    /\ to = "COMPLETED" => Stronger(evid[rev][t], k) # None
    /\ tasks' = [tasks EXCEPT ![rev][t] = to]
    /\ evid' = [evid EXCEPT ![rev][t] = Stronger(@, k)]

AddEvidence(r, t, k) == evid' = [evid EXCEPT ![r][t] = Stronger(@, k)]

\* begin_action and create_delegation + in_progress: a new running row.
BeginEntry(e, kind, t) ==
    /\ jrn[e].status \in {"none", "closed", "resolved"}
    /\ jrn' = [jrn EXCEPT ![e] = [kind |-> kind, task |-> t, rev |-> rev, status |-> "running"]]

SetEntry(e, status) == jrn' = [jrn EXCEPT ![e].status = status]

\* The row reaches a terminal status that no reader asks for.
ForgetEntry(e) == jrn' = [jrn EXCEPT ![e] = NoRow]

\* resolve_action / resolve_delegation: the row is reconciled and its uncertain
\* task, in an accepted or pending plan, is in progress again.
ResolveEntry(e) ==
    /\ jrn[e].status = "uncertain"
    /\ SetEntry(e, "resolved")
    /\ tasks' = [r \in Revision |-> [t \in Task |->
                    IF /\ t = jrn[e].task
                       /\ tasks[r][t] = "UNCERTAIN"
                       /\ plans[r] \in {"ACCEPTED", "PENDING"}
                    THEN "IN_PROGRESS" ELSE tasks[r][t]]]

\* Mutant of CrashWindow: tasks of superseded revisions are marked as well.
Mut_CrashWindow(r, t) ==
    /\ tasks[r][t] = "IN_PROGRESS"
    /\ \E e \in Open("running") :
         jrn[e].task = t /\ (jrn[e].kind = "action" \/ jrn[e].rev = r)

\* recover_inflight: the tasks it marks uncertain.  A delegation counts only
\* against the revision it was created under, an action against every one.
CrashWindow(r, t) ==
    /\ tasks[r][t] = "IN_PROGRESS"
    /\ plans[r] \in {"ACCEPTED", "PENDING"}
    /\ \E e \in Open("running") :
         jrn[e].task = t /\ (jrn[e].kind = "action" \/ jrn[e].rev = r)

RecoveredTasks ==
    [r \in Revision |-> [t \in Task |->
        IF CrashWindow(r, t) THEN "UNCERTAIN" ELSE tasks[r][t]]]

RecoveredRows ==
    [e \in Entry |-> IF jrn[e].status = "running"
                     THEN [jrn[e] EXCEPT !.status = "uncertain"] ELSE jrn[e]]

RecoveredGoal ==
    IF Open("running") # {} /\ GoalMay(goal, "RECOVERING") THEN "RECOVERING" ELSE goal

RecoverInflight == tasks' = RecoveredTasks /\ jrn' = RecoveredRows

=============================================================================
