-------------------------- MODULE GoalRuntimeProofs --------------------------
(***************************************************************************)
(* For every set of tasks, every dependency relation and any number of     *)
(* journal rows, revisions and disturbances: one revision is in force,     *)
(* history is not rewritten, uncertain actions wait for an inspection,     *)
(* work runs under an accepted plan, and completion passes its gate.       *)
(***************************************************************************)
EXTENDS GoalRuntime, TLAPS

-----------------------------------------------------------------------------
(* The plan revisions *)

PlansTyped ==
    /\ active \in 0 .. MaxRev
    /\ rev \in 0 .. MaxRev
    /\ plans \in [Revision -> PlanStatus]

\* A revision that does not exist yet has no status.
NoFuturePlan == \A r \in Revision : r > rev => plans[r] = "none"

PlanInv == PlansTyped /\ NoFuturePlan /\ PlanAuthority

-----------------------------------------------------------------------------
(* Where the worker is, and what that says of the rows and of the plan *)

Row == [kind : {"action", "delegation"}, task : Task \cup {NoTask}, rev : 0 .. MaxRev,
        status : EntryStatus]

RowsTyped ==
    /\ jrn \in [Entry -> Row]
    /\ cur \in Entry \cup {NoEntry}
    /\ job \in Entry \cup {NoEntry}

\* A tool executes only where one may be called, a delegation only inside it, and
\* they never share a row.
CallsPlaced ==
    /\ cur # NoEntry => pc \in {"plan", "calling", "deleg", "review"}
    /\ job # NoEntry <=> pc = "deleg"
    /\ job # NoEntry => job # cur /\ jrn[job].kind = "delegation" /\ jrn[job].rev = rev

\* Every row that is running belongs to the tool or the delegation at hand.
NoStrayRow == pc # "down" => Open("running") \subseteq {cur, job}

\* Inside a slice there is an accepted plan and the newest one can still take effect.
Slice == {"turn", "calling", "deleg", "verify", "review", "repair", "resetting"}

Nested == ret \in {"turn", "repair"}

LivePlan == rev # 0 /\ plans[rev] \in {"ACCEPTED", "PENDING"}

SliceAuthorised ==
    /\ pc \in Slice \/ (pc = "revising" /\ Nested) => LivePlan /\ active # 0
    /\ pc = "carrying" => LivePlan /\ (Nested => active # 0)
    /\ pc = "resetting" => ret \in {"idle", "turn"}
    /\ pc = "revising" => rev # 0 /\ base \in Revisable

\* What _completion_precheck established.
TasksProved ==
    \A t \in Present(tasks[rev]) :
        \/ tasks[rev][t] = "OBSOLETE"
        \/ tasks[rev][t] = "COMPLETED" /\ Authoritative(evid[rev][t])

GatePassed ==
    /\ active = rev /\ rev # 0 /\ plans[rev] = "ACCEPTED"
    /\ TasksProved
    /\ Uncertain = {}

\* It holds until the review begins, through the review unless the goal is moved,
\* and for ever once the goal is completed.
GateHeld ==
    /\ pc = "verify" => GatePassed
    /\ pc = "review" /\ goal = "REVIEWING" => GatePassed
    /\ goal = "COMPLETED" =>
         /\ GatePassed
         /\ Open("running") = {}
         /\ pc \in {"turn", "head", "idle", "down", "opening"}

RecordsTyped ==
    /\ tasks \in [Revision -> [Task -> TaskStatus]]
    /\ evid \in [Revision -> [Task -> None .. Proof]]

GoalTyped == goal \in GoalStatus

RetTyped == ret \in {"idle", "editor", "turn", "repair"}

IInv ==
    /\ GoalTyped /\ RetTyped
    /\ PlanInv
    /\ RowsTyped
    /\ RecordsTyped
    /\ CallsPlaced
    /\ NoStrayRow
    /\ SliceAuthorised
    /\ GateHeld

\* A goal that was just stored satisfies the inductive invariant.
LEMMA InitIInv == Init => IInv
<1> SUFFICES ASSUME Init PROVE IInv
  OBVIOUS
<1> USE DEF Init, StoreInit
<1>1. GoalTyped /\ RetTyped /\ PlanInv
  BY MaxRevAssumption
  DEF GoalTyped, RetTyped, GoalStatus, PlanInv, PlansTyped, NoFuturePlan, PlanAuthority, PlanStatus, Revision
<1>2. RowsTyped
  BY MaxRevAssumption DEF RowsTyped, Row, NoRow, EntryStatus
<1>3. RecordsTyped
  BY DEF RecordsTyped, TaskStatus, None, Proof
<1>4. CallsPlaced /\ NoStrayRow /\ SliceAuthorised /\ GateHeld
  BY DEF CallsPlaced, NoStrayRow, Open, NoRow, SliceAuthorised, Slice, GateHeld
<1> QED BY <1>1, <1>2, <1>3, <1>4 DEF IInv

-----------------------------------------------------------------------------
(* Plan revisions: which steps write them, and how *)

RejectsNewest ==
    /\ rev # 0 /\ plans[rev] = "PENDING"
    /\ plans' = [plans EXCEPT ![rev] = "REJECTED"]
    /\ active' = active /\ rev' = rev

\* create_plan keeps the authority of the accepted revision.
LEMMA CreatePlanKeeps ==
    ASSUME PlanInv, NEW p, CreatePlan(p), active' = active
    PROVE  PlanInv' /\ rev' # 0 /\ plans'[rev'] = "PENDING"
<1>1. rev' = rev + 1 /\ rev + 1 \in Revision /\ rev \in Nat
  BY MaxRevAssumption DEF CreatePlan, PlanInv, PlansTyped, Revision
<1>2. plans' = [r \in Revision |-> IF r = rev + 1 THEN "PENDING"
                                   ELSE IF plans[r] = "PENDING" THEN "SUPERSEDED" ELSE plans[r]]
  BY DEF CreatePlan
<1>3. PlansTyped'
  BY <1>1, <1>2, MaxRevAssumption DEF PlanInv, PlansTyped, PlanStatus, Revision
<1>4. NoFuturePlan'
  BY <1>1, <1>2 DEF PlanInv, NoFuturePlan, Revision
<1>5. active # rev + 1
  BY <1>1 DEF PlanInv, NoFuturePlan, PlanAuthority
<1>6. PlanAuthority'
  BY <1>1, <1>2, <1>5 DEF PlanInv, PlanAuthority
<1> QED BY <1>1, <1>2, <1>3, <1>4, <1>6 DEF PlanInv

\* approve_plan moves it to the newest revision.
LEMMA ApprovePlanKeeps ==
    ASSUME PlanInv, ApprovePlan, rev' = rev
    PROVE  PlanInv' /\ rev # 0 /\ plans'[rev] = "ACCEPTED" /\ active' = rev
<1>1. rev \in Revision /\ active' = rev
  BY MaxRevAssumption DEF ApprovePlan, PlanInv, PlansTyped, Revision
<1>2. plans' = [r \in Revision |-> IF r = rev THEN "ACCEPTED"
                                   ELSE IF plans[r] = "ACCEPTED" THEN "SUPERSEDED" ELSE plans[r]]
  BY DEF ApprovePlan
<1>3. PlansTyped' /\ NoFuturePlan'
  BY <1>1, <1>2 DEF PlanInv, PlansTyped, NoFuturePlan, PlanStatus, Revision
<1>4. PlanAuthority'
  BY <1>1, <1>2 DEF PlanInv, PlanAuthority
<1> QED BY <1>1, <1>2, <1>3, <1>4, MaxRevAssumption DEF PlanInv, Revision

\* reject_plan leaves it where it was.
LEMMA RejectKeeps ==
    ASSUME PlanInv, RejectsNewest
    PROVE  PlanInv'
<1>1. rev \in Revision
  BY MaxRevAssumption DEF RejectsNewest, PlanInv, PlansTyped, Revision
<1>2. /\ plans' = [r \in Revision |-> IF r = rev THEN "REJECTED" ELSE plans[r]]
      /\ plans[rev] = "PENDING" /\ active' = active /\ rev' = rev
  BY DEF RejectsNewest, PlanInv, PlansTyped
<1>3. PlansTyped'
  BY <1>2 DEF PlanInv, PlansTyped, PlanStatus
<1>4. NoFuturePlan'
  BY <1>1, <1>2 DEF PlanInv, NoFuturePlan, PlansTyped, Revision
<1>5. PlanAuthority'
  BY <1>1, <1>2 DEF PlanInv, PlanAuthority
<1> QED BY <1>3, <1>4, <1>5 DEF PlanInv

\* Creating happens in planning and revising, approving and rejecting between
\* slices, in planning and after a failed review; nothing else touches a plan.
LEMMA PlanWriters ==
    ASSUME Next
    PROVE  \/ SamePlans
           \/ /\ PlanStored \/ ReviseCreate
              /\ active' = active /\ \E p : CreatePlan(p)
           \/ /\ \/ pc \in {"idle", "approving"} /\ pc' = "idle"
                 \/ pc = "repair" /\ pc' = "turn"
              /\ ApprovePlan /\ rev' = rev
           \/ pc = "idle" /\ pc' \in {"idle", "plan"} /\ RejectsNewest
<1>1. CASE PlanStored \/ ReviseCreate
  BY <1>1 DEF PlanStored, ReviseCreate
<1>2. CASE AutoApprove \/ Approve \/ RepairApprove
  BY <1>2 DEF AutoApprove, Approve, RepairApprove
<1>3. CASE ResumeAwaiting
  BY <1>3 DEF ResumeAwaiting, RejectPlan, RejectsNewest
<1>4. CASE Replan
  BY <1>4 DEF Replan, SamePlans, RejectsNewest
<1>5. CASE \/ Pause \/ RequestPause \/ CompletePause \/ StopNow \/ Interrupt \/ Resume
           \/ ResumePlanning \/ Cancel \/ UserTask \/ Resolve \/ Run
  BY <1>5 DEF Pause, RequestPause, CompletePause, StopNow, Interrupt, Resume, ResumePlanning, Cancel,
              UserTask, Resolve, Run, OnlyGoal, OnlyWorker, SameStore
<1>6. CASE \/ StartGoal \/ PlanPublished \/ PlanFailed \/ PlanUnwound
           \/ Activate \/ SliceEnd \/ TurnEnd \/ ProviderFailed \/ Call \/ CallRefused
           \/ ToolBegin \/ ToolDone \/ ToolAudited \/ ToolEscaped \/ ToolLost
  BY <1>6 DEF StartGoal, PlanPublished, PlanFailed, PlanUnwound, Activate, SliceEnd, TurnEnd,
              ProviderFailed, Call, CallRefused, ToolBegin, ToolDone, ToolAudited, ToolEscaped, ToolLost,
              OnlyGoal, OnlyWorker, SameStore
<1>7. CASE \/ TaskDone \/ TaskMoved \/ ResetBegin \/ ResetOne \/ ResetEnd
           \/ RequestUser \/ StrategyReplan \/ StrategyPlan \/ Delegate \/ DelegateReturn
  BY <1>7 DEF TaskDone, TaskMoved, ResetBegin, ResetOne, ResetEnd, RequestUser, StrategyReplan,
              StrategyPlan, Delegate, DelegateReturn, OnlyGoal, OnlyWorker, SameStore
<1>8. CASE \/ FinishGoal \/ StartReview \/ ReviewPassed \/ ReviewInconclusive \/ ReviewError
           \/ RepairAwaits \/ ReviseBegin \/ ReviseRollback \/ ReviseCarry \/ ReviseEnd
  BY <1>8 DEF FinishGoal, StartReview, ReviewPassed, ReviewInconclusive, ReviewError, RepairAwaits,
              ReviseBegin, ReviseRollback, ReviseCarry, ReviseEnd, OnlyGoal, OnlyWorker, SameStore
<1>9. CASE Process_Next
  BY <1>9 DEF Process_Next, Crash, Restart, RestartSettle, RestartOpen, OnlyGoal, SameStore
<1> QED BY <1>1, <1>2, <1>3, <1>4, <1>5, <1>6, <1>7, <1>8, <1>9 DEF Next, User_Next, Worker_Next

\* The plan part of the invariant is inductive by itself.
LEMMA NextPlanInv == PlanInv /\ [Next]_vars => PlanInv'
<1> SUFFICES ASSUME PlanInv, [Next]_vars PROVE PlanInv'
  OBVIOUS
<1>1. CASE SamePlans \/ UNCHANGED vars
  BY <1>1 DEF SamePlans, vars, PlanInv, PlansTyped, NoFuturePlan, PlanAuthority
<1>2. CASE Next
  BY <1>1, <1>2, PlanWriters, CreatePlanKeeps, ApprovePlanKeeps, RejectKeeps
<1> QED BY <1>1, <1>2

\* Under every interleaving of user and worker, and through crashes, at most one
\* revision is in force, the goal points to it, and only the newest revision
\* can be awaiting approval.
THEOREM OnePlanInForce == Spec => []PlanAuthority
<1>1. Init => PlanInv
  BY InitIInv DEF IInv
<1>2. PlanInv => PlanAuthority
  BY DEF PlanInv
<1> QED BY <1>1, <1>2, NextPlanInv, PTL DEF Spec

-----------------------------------------------------------------------------
(* Tasks and evidence: which steps write them, and where *)

\* No step writes to a superseded or rejected revision.
Frozen ==
    \A r \in Revision :
        plans[r] \in {"SUPERSEDED", "REJECTED"} => tasks'[r] = tasks[r] /\ evid'[r] = evid[r]

\* The stronger of two evidence levels is an evidence level.
LEMMA StrongerTyped ==
    ASSUME NEW a \in None .. Proof, NEW b \in None .. Proof
    PROVE  Stronger(a, b) \in None .. Proof
  BY DEF Stronger, None, Proof

\* transition_task on a plan that can still take effect.
LEMMA TransitionTaskKeeps ==
    ASSUME PlanInv, RecordsTyped, LivePlan, NEW t, NEW to \in TaskStatus, NEW k \in None .. Proof,
           TransitionTask(t, to, k)
    PROVE  RecordsTyped' /\ Frozen
<1>1. /\ tasks' = [tasks EXCEPT ![rev][t] = to]
      /\ evid' = [evid EXCEPT ![rev][t] = Stronger(evid[rev][t], k)]
  BY DEF TransitionTask
<1>2. tasks' \in [Revision -> [Task -> TaskStatus]]
  BY <1>1 DEF RecordsTyped
<1>3. evid' \in [Revision -> [Task -> None .. Proof]]
  <2>1. \A r \in Revision, u \in Task : Stronger(evid[r][u], k) \in None .. Proof
    BY StrongerTyped DEF RecordsTyped
  <2> QED BY <1>1, <2>1 DEF RecordsTyped
<1>4. Frozen
  BY <1>1 DEF RecordsTyped, LivePlan, Frozen
<1> QED BY <1>2, <1>3, <1>4 DEF RecordsTyped

\* add_evidence on such a plan.
LEMMA AddEvidenceKeeps ==
    ASSUME PlanInv, RecordsTyped, NEW r, r \in Revision => plans[r] \in {"ACCEPTED", "PENDING"},
           NEW t, NEW k \in None .. Proof, AddEvidence(r, t, k), tasks' = tasks
    PROVE  RecordsTyped' /\ Frozen
<1>1. evid' = [evid EXCEPT ![r][t] = Stronger(evid[r][t], k)]
  BY DEF AddEvidence
<1>2. evid' \in [Revision -> [Task -> None .. Proof]]
  <2>1. \A q \in Revision, u \in Task : Stronger(evid[q][u], k) \in None .. Proof
    BY StrongerTyped DEF RecordsTyped
  <2> QED BY <1>1, <2>1 DEF RecordsTyped
<1>3. Frozen
  BY <1>1 DEF RecordsTyped, Frozen
<1> QED BY <1>2, <1>3 DEF RecordsTyped

\* create_plan fills a revision that did not exist.
LEMMA CreatePlanRecords ==
    ASSUME PlanInv, RecordsTyped, NEW p \in [Task -> TaskStatus], CreatePlan(p), evid' = evid
    PROVE  RecordsTyped' /\ Frozen
<1>1. tasks' = [tasks EXCEPT ![rev + 1] = p] /\ rev + 1 \in Revision
  BY MaxRevAssumption DEF CreatePlan, PlanInv, PlansTyped, Revision
<1>2. plans[rev + 1] = "none"
  BY <1>1 DEF PlanInv, NoFuturePlan, PlansTyped
<1>3. RecordsTyped'
  BY <1>1 DEF RecordsTyped
<1>4. Frozen
  BY <1>1, <1>2 DEF RecordsTyped, Frozen
<1> QED BY <1>3, <1>4

\* recover_inflight marks only tasks of accepted and pending plans.
LEMMA RecoverRecords ==
    ASSUME RecordsTyped, RecoverInflight, evid' = evid
    PROVE  RecordsTyped' /\ Frozen
<1>1. tasks' = [r \in Revision |-> [t \in Task |->
                   IF CrashWindow(r, t) THEN "UNCERTAIN" ELSE tasks[r][t]]]
  BY DEF RecoverInflight, RecoveredTasks
<1>2. RecordsTyped'
  BY <1>1 DEF RecordsTyped, TaskStatus
<1>3. ASSUME NEW r \in Revision, plans[r] \in {"SUPERSEDED", "REJECTED"} PROVE tasks'[r] = tasks[r]
  <2>1. \A t \in Task : ~CrashWindow(r, t)
    BY <1>3 DEF CrashWindow
  <2> QED BY <1>1, <2>1 DEF RecordsTyped
<1> QED BY <1>2, <1>3 DEF Frozen

\* A revision of a stored plan is a plan (revise_plan, replace_plan_document).
LEMMA NextPlansTyped ==
    ASSUME RecordsTyped, PlansTyped, rev # 0
    PROVE  NextPlans \subseteq [Task -> TaskStatus]
<1>1. tasks[rev] \in [Task -> TaskStatus]
  BY DEF RecordsTyped, PlansTyped, Revision
<1>2. ASSUME NEW p \in [Task -> TaskStatus], NEW S PROVE Restarted(p, S) \in [Task -> TaskStatus]
  BY DEF Restarted, TaskStatus
<1>3. Added(tasks[rev]) \subseteq [Task -> TaskStatus]
  <2>1. \A t \in Task : [tasks[rev] EXCEPT ![t] = "PENDING"] \in [Task -> TaskStatus]
    BY <1>1 DEF TaskStatus
  <2> SUFFICES ASSUME NEW q \in Added(tasks[rev]) PROVE q \in [Task -> TaskStatus]
    OBVIOUS
  <2>2. PICK t \in Task : q = Restarted([tasks[rev] EXCEPT ![t] = "PENDING"], Unsettled(tasks[rev]))
    BY DEF Added
  <2> QED BY <1>2, <2>1, <2>2
<1>4. Edited(tasks[rev]) \subseteq [Task -> TaskStatus]
  BY <1>1, <1>2 DEF Edited
<1>5. Removed(tasks[rev]) \subseteq [Task -> TaskStatus]
  <2>1. \A t \in Task : [tasks[rev] EXCEPT ![t] = "absent"] \in [Task -> TaskStatus]
    BY <1>1 DEF TaskStatus
  <2> SUFFICES ASSUME NEW q \in Removed(tasks[rev]) PROVE q \in [Task -> TaskStatus]
    OBVIOUS
  <2>2. PICK t \in Task : q = Restarted([tasks[rev] EXCEPT ![t] = "absent"],
                                       Unsettled(tasks[rev]) \cup {u \in Task : t \in Deps[u]})
    BY DEF Removed, Present
  <2> QED BY <1>2, <2>1, <2>2
<1>6. Draft \subseteq [Task -> TaskStatus]
  BY DEF Draft, TaskStatus
<1> QED BY <1>3, <1>4, <1>5, <1>6 DEF NextPlans

\* The steps that write tasks or evidence, with what they call.
LEMMA RecordStep ==
    ASSUME IInv, Next
    PROVE  RecordsTyped' /\ Frozen
<1> USE DEF IInv
<1>1. CASE SameTasks
  BY <1>1 DEF SameTasks, RecordsTyped, Frozen
<1>2. Words \cup {Prose, User, Proof, None} \subseteq None .. Proof
  BY WordsAssumption DEF None, Prose, User, Proof
<1>3. {"PENDING", "IN_PROGRESS", "COMPLETED", "BLOCKED", "OBSOLETE"} \subseteq TaskStatus
  BY DEF TaskStatus
<1>4. CASE PlanStored
  <2>1. PICK p \in Draft : CreatePlan(p)
    BY <1>4 DEF PlanStored
  <2>2. p \in [Task -> TaskStatus]
    BY DEF Draft, TaskStatus
  <2> QED BY <1>4, <2>1, <2>2, CreatePlanRecords DEF PlanStored
<1>5. CASE ReviseCreate
  <2>1. PICK p \in NextPlans : CreatePlan(p)
    BY <1>5 DEF ReviseCreate
  <2>2. rev # 0
    BY <1>5 DEF ReviseCreate, SliceAuthorised
  <2>3. p \in [Task -> TaskStatus]
    BY <2>2, NextPlansTyped DEF PlanInv
  <2> QED BY <1>5, <2>1, <2>3, CreatePlanRecords DEF ReviseCreate
<1>6. CASE Activate
  <2>1. PICK q \in [Task -> TaskStatus] : tasks' = [tasks EXCEPT ![rev] = q]
    <3> DEFINE p == Retired(tasks[rev])
               q == [t \in Task |-> IF CurrentTask(p) = {} /\ t \in FirstReady(p) THEN "IN_PROGRESS" ELSE p[t]]
    <3>1. tasks[rev] \in [Task -> TaskStatus]
      BY <1>6 DEF Activate, RecordsTyped, PlanInv, PlansTyped, Revision
    <3>2. p \in [Task -> TaskStatus]
      BY <1>3, <3>1 DEF Retired
    <3>3. tasks' = [tasks EXCEPT ![rev] = q]
      BY <1>6 DEF Activate
    <3> HIDE DEF p
    <3>4. q \in [Task -> TaskStatus]
      BY <1>3, <3>2
    <3> QED BY <3>3, <3>4
  <2>2. evid' = evid /\ plans[rev] = "ACCEPTED"
    BY <1>6 DEF Activate
  <2> QED BY <2>1, <2>2 DEF RecordsTyped, Frozen
<1>7. CASE ToolAudited
  <2>1. tasks' = tasks
    BY <1>7 DEF ToolAudited
  <2>2. CASE evid' = evid
    BY <1>1, <2>1, <2>2 DEF SameTasks
  <2>3. CASE evid' # evid
    <3>1. PICK k \in Words \cup {Proof} : AddEvidence(active, jrn[cur].task, k)
      BY <1>7, <2>3 DEF ToolAudited
    <3>2. active \in Revision => plans[active] = "ACCEPTED"
      BY DEF PlanInv, PlanAuthority
    <3> QED BY <1>2, <2>1, <3>1, <3>2, AddEvidenceKeeps
  <2> QED BY <2>2, <2>3
<1>8. CASE TaskDone \/ TaskMoved \/ ResetOne \/ ResetEnd \/ UserTask
  <2>1. PICK t : \E to \in {"PENDING", "IN_PROGRESS", "COMPLETED", "BLOCKED", "OBSOLETE"},
                   k \in Words \cup {Prose, User, Proof, None} : TransitionTask(t, to, k)
    BY <1>8 DEF TaskDone, TaskMoved, ResetOne, ResetEnd, UserTask
  <2>2. LivePlan
    BY <1>8 DEF TaskDone, TaskMoved, ResetOne, ResetEnd, UserTask, SliceAuthorised, Slice, LivePlan
  <2> QED BY <1>2, <1>3, <2>1, <2>2, TransitionTaskKeeps
<1>9. CASE DelegateReturn
  <2>1. PICK k \in Words : AddEvidence(jrn[job].rev, jrn[job].task, k)
    BY <1>9 DEF DelegateReturn
  <2>2. jrn[job].rev = rev /\ LivePlan
    BY <1>9 DEF DelegateReturn, CallsPlaced, SliceAuthorised, Slice
  <2> QED BY <1>2, <1>9, <2>1, <2>2, AddEvidenceKeeps DEF DelegateReturn, LivePlan
<1>10. CASE ReviseCarry
  <2>1. PICK t : AddEvidence(rev, t, CarriedLevel(t))
    BY <1>10 DEF ReviseCarry
  <2>2. CarriedLevel(t) \in None .. Proof
    BY <1>2 DEF CarriedLevel
  <2>3. LivePlan
    BY <1>10 DEF ReviseCarry, SliceAuthorised
  <2> QED BY <1>10, <2>1, <2>2, <2>3, AddEvidenceKeeps DEF ReviseCarry, LivePlan
<1>11. CASE Resolve
  <2>1. PICK e \in Entry : ResolveEntry(e)
    BY <1>11 DEF Resolve
  <2>2. evid' = evid
    BY <1>11 DEF Resolve
  <2>3. RecordsTyped'
    BY <1>3, <2>1, <2>2 DEF ResolveEntry, RecordsTyped
  <2>4. ASSUME NEW r \in Revision, plans[r] \in {"SUPERSEDED", "REJECTED"} PROVE tasks'[r] = tasks[r]
    <3>1. tasks'[r] = [t \in Task |-> tasks[r][t]]
      BY <2>1, <2>4 DEF ResolveEntry
    <3> QED BY <3>1 DEF RecordsTyped
  <2> QED BY <2>2, <2>3, <2>4 DEF Frozen
<1>12. CASE StopNow \/ Interrupt \/ Restart
  BY <1>12, RecoverRecords DEF StopNow, Interrupt, Restart
<1>13. CASE \/ Pause \/ RequestPause \/ CompletePause \/ Resume \/ ResumePlanning \/ Cancel \/ Run
            \/ ResumeAwaiting \/ Approve \/ Replan
  BY <1>1, <1>13 DEF Pause, RequestPause, CompletePause, Resume, ResumePlanning, Cancel, Run,
         ResumeAwaiting, Approve, Replan, OnlyGoal, OnlyWorker, SameStore
<1>14. CASE \/ StartGoal \/ PlanPublished \/ AutoApprove \/ PlanFailed \/ PlanUnwound
            \/ SliceEnd \/ TurnEnd \/ ProviderFailed \/ Call \/ CallRefused
            \/ ToolBegin \/ ToolDone \/ ToolEscaped \/ ToolLost
  BY <1>1, <1>14 DEF StartGoal, PlanPublished, AutoApprove, PlanFailed, PlanUnwound, SliceEnd, TurnEnd,
         ProviderFailed, Call, CallRefused, ToolBegin, ToolDone, ToolEscaped, ToolLost,
         OnlyGoal, OnlyWorker, SameStore
<1>15. CASE \/ ResetBegin \/ RequestUser \/ StrategyReplan \/ StrategyPlan \/ Delegate
            \/ FinishGoal \/ StartReview \/ ReviewPassed \/ ReviewInconclusive \/ ReviewError
            \/ RepairApprove \/ RepairAwaits \/ ReviseBegin \/ ReviseRollback \/ ReviseEnd
  BY <1>1, <1>15 DEF ResetBegin, RequestUser, StrategyReplan, StrategyPlan, Delegate, FinishGoal,
         StartReview, ReviewPassed, ReviewInconclusive, ReviewError, RepairApprove, RepairAwaits,
         ReviseBegin, ReviseRollback, ReviseEnd, OnlyGoal, OnlyWorker, SameStore
<1>16. CASE Crash \/ RestartSettle \/ RestartOpen
  BY <1>1, <1>16 DEF Crash, RestartSettle, RestartOpen, OnlyGoal, SameStore
<1> QED BY <1>4, <1>5, <1>6, <1>7, <1>8, <1>9, <1>10, <1>11, <1>12, <1>13, <1>14, <1>15, <1>16
        DEF Next, User_Next, Worker_Next, Process_Next

-----------------------------------------------------------------------------
(* The journal: which steps write a row, and what the worker holds *)

RowsInv == RowsTyped /\ CallsPlaced /\ NoStrayRow

\* An uncertain action stays uncertain or is resolved.
Kept ==
    \A e \in Entry :
        (jrn[e].kind = "action" /\ jrn[e].status = "uncertain")
        => jrn'[e].status \in {"uncertain", "resolved"}

\* A step that writes no row and neither starts nor ends a call.
LEMMA RowsUntouched ==
    ASSUME IInv, jrn' = jrn, cur' = cur, job' = job, pc # "down", pc' # "down",
           rev' = rev \/ job = NoEntry,
           cur # NoEntry => pc' \in {"plan", "calling", "deleg", "review"},
           pc' = "deleg" <=> pc = "deleg"
    PROVE  RowsInv' /\ Kept
<1>1. RowsTyped'
  BY DEF IInv, RowsTyped
<1>2. CallsPlaced' /\ NoStrayRow'
  BY DEF IInv, CallsPlaced, NoStrayRow, Open
<1>3. Kept
  BY DEF Kept
<1> QED BY <1>1, <1>2, <1>3 DEF RowsInv

\* recover_inflight leaves no row running; the worker's hold on its calls may end.
LEMMA RecoverRows ==
    ASSUME IInv, RecoverInflight
    PROVE  /\ jrn' \in [Entry -> Row]
           /\ \A e \in Entry : jrn'[e].status # "running"
           /\ \A e \in Entry : jrn'[e].kind = jrn[e].kind /\ jrn'[e].rev = jrn[e].rev
           /\ Kept
<1>1. jrn' = [e \in Entry |-> IF jrn[e].status = "running"
                              THEN [jrn[e] EXCEPT !.status = "uncertain"] ELSE jrn[e]]
  BY DEF RecoverInflight, RecoveredRows
<1>2. jrn \in [Entry -> Row]
  BY DEF IInv, RowsTyped
<1>3. ASSUME NEW e \in Entry
      PROVE  /\ jrn'[e] \in Row /\ jrn'[e].status # "running"
             /\ jrn'[e].kind = jrn[e].kind /\ jrn'[e].rev = jrn[e].rev
             /\ jrn[e].status = "uncertain" => jrn'[e].status = "uncertain"
  BY <1>1, <1>2 DEF Row, EntryStatus
<1>4. jrn' \in [Entry -> Row]
  BY <1>1, <1>3
<1> QED BY <1>3, <1>4 DEF Kept

\* Writing one row's status keeps the other rows and the rest of that row.
LEMMA SetEntryRows ==
    ASSUME IInv, NEW e \in Entry, NEW st \in EntryStatus, SetEntry(e, st)
    PROVE  /\ jrn' \in [Entry -> Row]
           /\ jrn'[e] = [jrn[e] EXCEPT !.status = st]
           /\ jrn'[e].status = st /\ jrn'[e].kind = jrn[e].kind /\ jrn'[e].rev = jrn[e].rev
           /\ \A x \in Entry \ {e} : jrn'[x] = jrn[x]
<1>1. jrn \in [Entry -> Row] /\ jrn' = [jrn EXCEPT ![e] = [jrn[e] EXCEPT !.status = st]]
  BY DEF IInv, RowsTyped, SetEntry
<1>2. [jrn[e] EXCEPT !.status = st] \in Row
  BY <1>1 DEF Row
<1> QED BY <1>1, <1>2 DEF Row

\* Forgetting a row.
LEMMA ForgetEntryRows ==
    ASSUME IInv, NEW e \in Entry, ForgetEntry(e)
    PROVE  /\ jrn' \in [Entry -> Row]
           /\ jrn'[e] = NoRow
           /\ \A x \in Entry \ {e} : jrn'[x] = jrn[x]
<1>1. jrn \in [Entry -> Row] /\ jrn' = [jrn EXCEPT ![e] = NoRow]
  BY DEF IInv, RowsTyped, ForgetEntry
<1>2. NoRow \in Row
  BY MaxRevAssumption DEF NoRow, Row, EntryStatus
<1> QED BY <1>1, <1>2

\* A new row takes the place of one that is finished.
LEMMA BeginEntryRows ==
    ASSUME IInv, NEW e \in Entry, NEW kind \in {"action", "delegation"}, NEW t \in Task \cup {NoTask},
           BeginEntry(e, kind, t)
    PROVE  /\ jrn' \in [Entry -> Row]
           /\ jrn[e].status \in {"none", "closed", "resolved"}
           /\ jrn'[e] = [kind |-> kind, task |-> t, rev |-> rev, status |-> "running"]
           /\ \A x \in Entry \ {e} : jrn'[x] = jrn[x]
<1> DEFINE row == [kind |-> kind, task |-> t, rev |-> rev, status |-> "running"]
<1>1. jrn \in [Entry -> Row] /\ jrn' = [jrn EXCEPT ![e] = row]
  BY DEF IInv, RowsTyped, BeginEntry
<1>2. row \in Row
  BY DEF IInv, PlanInv, PlansTyped, Row, EntryStatus
<1>3. jrn[e].status \in {"none", "closed", "resolved"}
  BY DEF BeginEntry
<1> QED BY <1>1, <1>2, <1>3

\* The steps that write the journal.
LEMMA RowWriterStep ==
    ASSUME IInv,
           \/ ToolBegin \/ ToolDone \/ ToolAudited \/ ToolEscaped \/ ToolLost
           \/ Delegate \/ DelegateReturn \/ Resolve
           \/ StopNow \/ Interrupt \/ Crash \/ Restart
    PROVE  RowsInv' /\ Kept
<1>1. /\ cur \in Entry \cup {NoEntry} /\ job \in Entry \cup {NoEntry}
      /\ cur # NoEntry => cur \in Entry /\ pc \in {"plan", "calling", "deleg", "review"}
      /\ job # NoEntry => job \in Entry /\ job # cur
      /\ job # NoEntry <=> pc = "deleg"
      /\ job # NoEntry => jrn[job].kind = "delegation" /\ jrn[job].rev = rev
      /\ pc # "down" => \A e \in Entry : jrn[e].status = "running" => e \in {cur, job}
  BY DEF IInv, RowsTyped, CallsPlaced, NoStrayRow, Open
<1> DEFINE Placed ==
        /\ jrn' \in [Entry -> Row]
        /\ cur' \in Entry \cup {NoEntry} /\ job' \in Entry \cup {NoEntry}
        /\ cur' # NoEntry => pc' \in {"plan", "calling", "deleg", "review"}
        /\ job' # NoEntry <=> pc' = "deleg"
        /\ job' # NoEntry => job' # cur' /\ jrn'[job'].kind = "delegation" /\ jrn'[job'].rev = rev'
        /\ pc' # "down" => \A e \in Entry : jrn'[e].status = "running" => e \in {cur', job'}
<1>2. ASSUME Placed PROVE RowsInv'
  BY <1>2 DEF RowsInv, RowsTyped, CallsPlaced, NoStrayRow, Open
<1>3. CASE ToolBegin
  <2>1. PICK e \in Entry \ {job}, t \in ToolTask : BeginEntry(e, "action", t) /\ cur' = e
    BY <1>3 DEF ToolBegin
  <2>2. t \in Task \cup {NoTask}
    <3>1. jrn \in [Entry -> Row]
      BY DEF IInv, RowsTyped
    <3> QED BY <1>1, <1>3, <3>1 DEF ToolBegin, ToolTask, CurrentTask, Row
  <2>3. /\ pc' = pc /\ job' = job /\ rev' = rev /\ cur = NoEntry
        /\ pc \in {"plan", "calling", "deleg", "review"}
    BY <1>3 DEF ToolBegin, SamePlans
  <2>4. /\ jrn' \in [Entry -> Row] /\ jrn[e].status \in {"none", "closed", "resolved"}
        /\ \A x \in Entry \ {e} : jrn'[x] = jrn[x]
    BY <2>1, <2>2, BeginEntryRows
  <2>5. Placed
    BY <1>1, <2>1, <2>3, <2>4, NoEntryAssumption
  <2>6. Kept
    BY <2>4 DEF Kept
  <2> QED BY <1>2, <2>5, <2>6
<1>4. CASE ToolDone \/ ToolEscaped
  <2>1. PICK st \in {"closed", "uncertain"} : SetEntry(cur, st)
    BY <1>4 DEF ToolDone, ToolEscaped
  <2>2. cur # NoEntry /\ jrn[cur].status \in {"running", "closed"} /\ job' = job /\ rev' = rev
    BY <1>4 DEF ToolDone, ToolEscaped, ReturnFromTool, SameWork, SameCall, SamePlans
  <2>3. \/ cur' = cur /\ pc' = pc
        \/ cur' = NoEntry /\ pc' = AfterTool
    BY <1>4 DEF ToolDone, ToolEscaped, ReturnFromTool, SameWork, SameCall
  <2>4. /\ jrn' \in [Entry -> Row] /\ jrn'[cur].status \in {"closed", "uncertain"}
        /\ \A x \in Entry \ {cur} : jrn'[x] = jrn[x]
    BY <1>1, <2>1, <2>2, SetEntryRows DEF EntryStatus
  <2>5. Placed
    BY <1>1, <2>2, <2>3, <2>4 DEF AfterTool
  <2>6. Kept
    BY <1>1, <2>2, <2>4 DEF Kept
  <2> QED BY <1>2, <2>5, <2>6
<1>5. CASE ToolAudited
  <2>1. /\ cur # NoEntry /\ jrn[cur].status = "closed" /\ ForgetEntry(cur)
        /\ cur' = NoEntry /\ pc' = AfterTool /\ job' = job /\ rev' = rev
    BY <1>5 DEF ToolAudited, ReturnFromTool, SamePlans
  <2>2. /\ jrn' \in [Entry -> Row] /\ jrn'[cur].status = "none"
        /\ \A x \in Entry \ {cur} : jrn'[x] = jrn[x]
    BY <1>1, <2>1, ForgetEntryRows DEF NoRow
  <2>3. Placed
    BY <1>1, <2>1, <2>2 DEF AfterTool
  <2>4. Kept
    BY <1>1, <2>1, <2>2 DEF Kept
  <2> QED BY <1>2, <2>3, <2>4
<1>6. CASE ToolLost
  <2>1. /\ cur # NoEntry /\ jrn[cur].status \in {"uncertain", "resolved"}
        /\ cur' = NoEntry /\ job' = NoEntry /\ rev' = rev
        /\ pc' \in {"idle", "turn"}
    BY <1>6 DEF ToolLost, SamePlans
  <2>2. CASE pc = "deleg" /\ jrn[job].status # "resolved"
    <3>1. ForgetEntry(job) /\ job \in Entry
      BY <1>1, <1>6, <2>2 DEF ToolLost
    <3>2. /\ jrn' \in [Entry -> Row] /\ jrn'[job].status = "none"
          /\ \A x \in Entry \ {job} : jrn'[x] = jrn[x]
      BY <3>1, ForgetEntryRows DEF NoRow
    <3>3. Placed
      BY <1>1, <2>1, <3>1, <3>2
    <3>4. Kept
      BY <1>1, <2>2, <3>2 DEF Kept
    <3> QED BY <1>2, <3>3, <3>4
  <2>3. CASE ~(pc = "deleg" /\ jrn[job].status # "resolved")
    <3>1. jrn' = jrn
      BY <1>6, <2>3 DEF ToolLost
    <3>2. Placed
      BY <1>1, <2>1, <2>3, <3>1 DEF IInv, RowsTyped
    <3>3. Kept
      BY <3>1 DEF Kept
    <3> QED BY <1>2, <3>2, <3>3
  <2> QED BY <2>2, <2>3
<1>7. CASE Delegate
  <2>1. PICK e \in Entry, t \in Present(tasks[rev]) : BeginEntry(e, "delegation", t) /\ job' = e
    BY <1>7 DEF Delegate
  <2>2. pc = "calling" /\ pc' = "deleg" /\ cur = NoEntry /\ cur' = NoEntry /\ rev' = rev
    BY <1>7 DEF Delegate, SamePlans
  <2>3. /\ jrn' \in [Entry -> Row] /\ jrn[e].status \in {"none", "closed", "resolved"}
        /\ jrn'[e].kind = "delegation" /\ jrn'[e].rev = rev
        /\ \A x \in Entry \ {e} : jrn'[x] = jrn[x]
    <3>1. t \in Task \cup {NoTask}
      BY DEF Present
    <3>2. /\ jrn' \in [Entry -> Row] /\ jrn[e].status \in {"none", "closed", "resolved"}
          /\ jrn'[e] = [kind |-> "delegation", task |-> t, rev |-> rev, status |-> "running"]
          /\ \A x \in Entry \ {e} : jrn'[x] = jrn[x]
      BY <2>1, <3>1, BeginEntryRows
    <3> QED BY <3>2
  <2>4. Placed
    BY <1>1, <2>1, <2>2, <2>3, NoEntryAssumption
  <2>5. Kept
    BY <2>3 DEF Kept
  <2> QED BY <1>2, <2>4, <2>5
<1>8. CASE DelegateReturn
  <2>1. pc = "deleg" /\ pc' = "turn" /\ cur = NoEntry /\ cur' = NoEntry /\ job' = NoEntry /\ rev' = rev
    BY <1>8 DEF DelegateReturn, SamePlans
  <2>2. job \in Entry
    BY <1>1, <2>1
  <2>3. CASE jrn[job].status = "resolved"
    <3>1. jrn' = jrn
      BY <1>8, <2>3 DEF DelegateReturn
    <3>2. Placed
      BY <1>1, <2>1, <2>3, <3>1 DEF IInv, RowsTyped
    <3> QED BY <1>2, <3>1, <3>2 DEF Kept
  <2>4. CASE jrn[job].status # "resolved"
    <3>1. ForgetEntry(job)
      BY <1>8, <2>4 DEF DelegateReturn
    <3>2. /\ jrn' \in [Entry -> Row] /\ jrn'[job].status = "none"
          /\ \A x \in Entry \ {job} : jrn'[x] = jrn[x]
      BY <2>2, <3>1, ForgetEntryRows DEF NoRow
    <3>3. Placed
      BY <1>1, <2>1, <3>2
    <3>4. Kept
      BY <1>1, <2>1, <3>2 DEF Kept
    <3> QED BY <1>2, <3>3, <3>4
  <2> QED BY <2>3, <2>4
<1>9. CASE Resolve
  <2>1. PICK e \in Entry : jrn[e].status = "uncertain" /\ SetEntry(e, "resolved")
    BY <1>9 DEF Resolve, ResolveEntry
  <2>2. pc' = pc /\ cur' = cur /\ job' = job /\ rev' = rev
    BY <1>9 DEF Resolve, SameWork, SameCall, SamePlans
  <2>3. /\ jrn' \in [Entry -> Row] /\ jrn'[e].status = "resolved"
        /\ jrn'[e].kind = jrn[e].kind /\ jrn'[e].rev = jrn[e].rev
        /\ \A x \in Entry \ {e} : jrn'[x] = jrn[x]
    BY <2>1, SetEntryRows DEF EntryStatus
  <2>4. Placed
    BY <1>1, <2>2, <2>3
  <2>5. Kept
    BY <2>3 DEF Kept
  <2> QED BY <1>2, <2>4, <2>5
<1>10. CASE StopNow
  <2>1. pc' = pc /\ cur' = cur /\ job' = job /\ rev' = rev /\ RecoverInflight
    BY <1>10 DEF StopNow, SameWork, SameCall, SamePlans
  <2>2. Placed
    BY <1>1, <2>1, RecoverRows
  <2> QED BY <1>2, <2>1, <2>2, RecoverRows
<1>11. CASE Interrupt
  <2>1. pc' = "idle" /\ cur' = NoEntry /\ job' = NoEntry /\ RecoverInflight
    BY <1>11 DEF Interrupt
  <2>2. Placed
    BY <2>1, RecoverRows
  <2> QED BY <1>2, <2>1, <2>2, RecoverRows
<1>12. CASE Crash
  <2>1. pc' = "down" /\ cur' = NoEntry /\ job' = NoEntry /\ jrn' = jrn
    BY <1>12 DEF Crash, SameStore
  <2>2. Placed
    BY <2>1 DEF IInv, RowsTyped
  <2> QED BY <1>2, <2>1, <2>2 DEF Kept
<1>13. CASE Restart
  <2>1. /\ pc = "down" /\ pc' \in {"opening", "settling"}
        /\ cur' = cur /\ job' = job /\ RecoverInflight
    BY <1>13 DEF Restart, SameWork, SameCall
  <2>2. Placed
    BY <1>1, <2>1, RecoverRows
  <2> QED BY <1>2, <2>1, <2>2, RecoverRows
<1> QED BY <1>3, <1>4, <1>5, <1>6, <1>7, <1>8, <1>9, <1>10, <1>11, <1>12, <1>13

\* The other steps only move the worker between calls.
LEMMA RowStep ==
    ASSUME IInv, Next
    PROVE  RowsInv' /\ Kept
<1>1. /\ cur # NoEntry => pc \in {"plan", "calling", "deleg", "review"}
      /\ job # NoEntry <=> pc = "deleg"
  BY DEF IInv, CallsPlaced
<1>2. CASE \/ ToolBegin \/ ToolDone \/ ToolAudited \/ ToolEscaped \/ ToolLost
           \/ Delegate \/ DelegateReturn \/ Resolve
           \/ StopNow \/ Interrupt \/ Crash \/ Restart
  BY <1>2, RowWriterStep
<1> DEFINE Quiet ==
        /\ jrn' = jrn /\ cur' = cur /\ job' = job /\ pc # "down" /\ pc' # "down"
        /\ rev' = rev \/ job = NoEntry
        /\ cur # NoEntry => pc' \in {"plan", "calling", "deleg", "review"}
        /\ pc' = "deleg" <=> pc = "deleg"
<1>3. ASSUME Quiet PROVE RowsInv' /\ Kept
  BY <1>3, RowsUntouched
<1> USE DEF SameCall, SameWork, SamePlans, SameStore, OnlyGoal, OnlyWorker
<1>4. CASE Pause \/ RequestPause \/ CompletePause
  <2>1. Quiet
    BY <1>1, <1>4 DEF Pause, RequestPause, CompletePause, Up
  <2> QED BY <1>3, <2>1
<1>5. CASE Resume
  <2>1. Quiet
    BY <1>1, <1>5 DEF Resume, Up
  <2> QED BY <1>3, <2>1
<1>6. CASE ResumePlanning \/ ResumeAwaiting \/ Cancel \/ Approve \/ UserTask \/ Run
  <2>1. Quiet
    BY <1>1, <1>6 DEF ResumePlanning, ResumeAwaiting, Cancel, Approve, UserTask, Run
  <2> QED BY <1>3, <2>1
<1>7. CASE Replan
  <2>1. pc = "idle" /\ pc' \in {"idle", "plan"} /\ jrn' = jrn /\ cur' = cur /\ job' = job /\ rev' = rev
    BY <1>7 DEF Replan
  <2>2. Quiet
    BY <1>1, <2>1
  <2> QED BY <1>3, <2>2
<1>8. CASE \/ StartGoal \/ PlanStored \/ PlanPublished \/ AutoApprove \/ PlanFailed \/ PlanUnwound
           \/ Activate \/ SliceEnd \/ TurnEnd \/ ProviderFailed \/ Call \/ CallRefused
  <2>1. Quiet
    BY <1>1, <1>8 DEF StartGoal, PlanStored, PlanPublished, AutoApprove, PlanFailed, PlanUnwound,
                      Activate, SliceEnd, TurnEnd, ProviderFailed, Call, CallRefused
  <2> QED BY <1>3, <2>1
<1>9. CASE TaskDone \/ TaskMoved \/ ResetBegin \/ ResetOne
  <2>1. Quiet
    BY <1>1, <1>9 DEF TaskDone, TaskMoved, ResetBegin, ResetOne
  <2> QED BY <1>3, <2>1
<1>10. CASE ResetEnd
  <2>1. pc = "resetting" /\ pc' = ret /\ jrn' = jrn /\ cur' = cur /\ job' = job /\ rev' = rev
    BY <1>10 DEF ResetEnd
  <2>2. ret \in {"idle", "turn"}
    BY <2>1 DEF IInv, SliceAuthorised
  <2>3. Quiet
    BY <1>1, <2>1, <2>2
  <2> QED BY <1>3, <2>3
<1>11. CASE RequestUser \/ StrategyReplan \/ StrategyPlan \/ FinishGoal \/ StartReview
  <2>1. Quiet
    BY <1>1, <1>11 DEF RequestUser, StrategyReplan, StrategyPlan, FinishGoal, StartReview, AfterTool
  <2> QED BY <1>3, <2>1
<1>12. CASE ReviewPassed \/ ReviewInconclusive \/ ReviewError \/ RepairApprove \/ RepairAwaits
  <2>1. Quiet
    BY <1>1, <1>12 DEF ReviewPassed, ReviewInconclusive, ReviewError, RepairApprove, RepairAwaits
  <2> QED BY <1>3, <2>1
<1>13. CASE ReviseBegin \/ ReviseCreate \/ ReviseCarry
  <2>1. Quiet
    BY <1>1, <1>13 DEF ReviseBegin, ReviseCreate, ReviseCarry
  <2> QED BY <1>3, <2>1
<1>14. CASE ReviseRollback \/ ReviseEnd
  <2>1. /\ pc \in {"revising", "carrying"} /\ pc' \in {Caller, Unwound}
        /\ jrn' = jrn /\ cur' = cur /\ job' = job /\ rev' = rev
    BY <1>14 DEF ReviseRollback, ReviseEnd, Returned
  <2>2. pc' \notin {"down", "deleg"}
    BY <2>1 DEF Caller, Unwound, IInv, RetTyped
  <2>3. Quiet
    BY <1>1, <2>1, <2>2
  <2> QED BY <1>3, <2>3
<1>15. CASE RestartSettle \/ RestartOpen
  <2>1. Quiet
    BY <1>1, <1>15 DEF RestartSettle, RestartOpen
  <2> QED BY <1>3, <2>1
<1> QED BY <1>2, <1>4, <1>5, <1>6, <1>7, <1>8, <1>9, <1>10, <1>11, <1>12, <1>13, <1>14, <1>15
        DEF Next, User_Next, Worker_Next, Process_Next

-----------------------------------------------------------------------------
(* The plan a slice works under *)

Outside == {"start", "idle", "plan", "planned", "approving", "head", "down", "settling", "opening"}

\* The accepted revision is the one the goal points to.
LEMMA AcceptedIsActive ==
    ASSUME IInv, rev # 0, plans[rev] = "ACCEPTED"
    PROVE  LivePlan /\ active # 0 /\ active = rev
  BY DEF IInv, PlanInv, PlansTyped, PlanAuthority, LivePlan, Revision

\* Every step leaves a slice with the authority it needs.
LEMMA SliceStep ==
    ASSUME IInv, Next
    PROVE  SliceAuthorised' /\ RetTyped'
<1> DEFINE Auth == LivePlan /\ active # 0
<1>1. /\ pc \in Slice \/ (pc = "revising" /\ Nested) => Auth
      /\ pc = "carrying" => LivePlan /\ (Nested => active # 0)
      /\ pc = "resetting" => ret \in {"idle", "turn"}
      /\ pc = "revising" => rev # 0 /\ base \in Revisable
      /\ ret \in {"idle", "editor", "turn", "repair"}
  BY DEF IInv, SliceAuthorised, RetTyped
<1>2. ASSUME pc' \in Outside PROVE SliceAuthorised'
  BY <1>2 DEF SliceAuthorised, Outside, Slice
<1>3. ASSUME SamePlans, pc' = pc, ret' = ret, base' = base PROVE SliceAuthorised'
  BY <1>1, <1>3 DEF SliceAuthorised, SamePlans, LivePlan, Nested
<1>4. ASSUME SamePlans, Auth, pc' \in Slice \ {"resetting"} PROVE SliceAuthorised'
  BY <1>4 DEF SliceAuthorised, SamePlans, LivePlan, Slice
<1> USE DEF SameCall, SameWork, SameStore, OnlyGoal, OnlyWorker
<1>5. CASE Pause \/ RequestPause \/ CompletePause \/ Cancel \/ UserTask \/ Resolve \/ StopNow
  <2>1. SamePlans /\ pc' = pc /\ ret' = ret /\ base' = base
    BY <1>5 DEF Pause, RequestPause, CompletePause, Cancel, UserTask, Resolve, StopNow
  <2> QED BY <1>1, <1>3, <2>1 DEF RetTyped
<1>6. CASE Resume
  <2>1. SamePlans /\ (pc' = pc \/ pc' = "plan") /\ ret' = ret /\ base' = base
    BY <1>6 DEF Resume
  <2> QED BY <1>1, <1>2, <1>3, <2>1 DEF RetTyped, Outside
<1>7. CASE \/ Interrupt \/ ResumePlanning \/ ResumeAwaiting \/ Approve \/ Run
           \/ StartGoal \/ PlanStored \/ PlanPublished \/ AutoApprove \/ PlanFailed \/ PlanUnwound
           \/ SliceEnd \/ TurnEnd \/ ProviderFailed \/ StrategyPlan
  <2>1. pc' \in Outside /\ (ret' = ret \/ ret' = "idle")
    BY <1>7 DEF Interrupt, ResumePlanning, ResumeAwaiting, Approve, Run, StartGoal, PlanStored,
                PlanPublished, AutoApprove, PlanFailed, PlanUnwound, SliceEnd, TurnEnd,
                ProviderFailed, StrategyPlan, Outside
  <2> QED BY <1>1, <1>2, <2>1 DEF RetTyped
<1>8. CASE Replan
  <2>1. pc' \in {"idle", "plan"} /\ ret' = ret
    BY <1>8 DEF Replan
  <2> QED BY <1>1, <1>2, <2>1 DEF RetTyped, Outside
<1>9. CASE Process_Next
  <2>1. pc' \in Outside /\ (ret' = ret \/ ret' = "idle")
    BY <1>9 DEF Process_Next, Crash, Restart, RestartSettle, RestartOpen, Outside
  <2> QED BY <1>1, <1>2, <2>1 DEF RetTyped
<1>10. CASE Activate
  <2>1. rev # 0 /\ plans[rev] = "ACCEPTED" /\ SamePlans /\ pc' = "turn" /\ ret' = ret
    BY <1>10 DEF Activate
  <2> QED BY <1>1, <1>4, <2>1, AcceptedIsActive DEF RetTyped, Slice
<1>11. CASE \/ Call \/ CallRefused \/ TaskDone \/ TaskMoved \/ RequestUser \/ StrategyReplan
            \/ Delegate \/ DelegateReturn \/ FinishGoal \/ StartReview
            \/ ReviewPassed \/ ReviewInconclusive \/ ReviewError \/ RepairAwaits
  <2>1. SamePlans /\ pc \in Slice /\ pc' \in Slice \ {"resetting"} /\ ret' = ret
    BY <1>11 DEF Call, CallRefused, TaskDone, TaskMoved, RequestUser, StrategyReplan, Delegate,
                 DelegateReturn, FinishGoal, StartReview, ReviewPassed, ReviewInconclusive,
                 ReviewError, RepairAwaits, AfterTool, Slice
  <2> QED BY <1>1, <1>4, <2>1 DEF RetTyped
<1>12. CASE ToolBegin \/ ToolDone \/ ToolAudited \/ ToolEscaped \/ ToolLost
  <2>1. cur # NoEntry => pc \in {"plan", "calling", "deleg", "review"}
    BY DEF IInv, CallsPlaced
  <2>2. /\ SamePlans /\ ret' = ret /\ base' = base
        /\ pc \in {"plan", "calling", "deleg", "review"}
        /\ \/ pc' = pc
           \/ pc \in Slice /\ pc' = "turn"
           \/ pc' = "idle"
    BY <1>12, <2>1 DEF ToolBegin, ToolDone, ToolAudited, ToolEscaped, ToolLost, ReturnFromTool,
                       AfterTool, Slice
  <2> QED BY <1>1, <1>2, <1>3, <1>4, <2>2 DEF RetTyped, Outside, Slice
<1>13. CASE ResetBegin
  <2>1. /\ rev # 0 /\ plans[rev] = "ACCEPTED" /\ SamePlans /\ pc' = "resetting"
        /\ ret' \in {"idle", "turn"}
    BY <1>13 DEF ResetBegin
  <2> QED BY <2>1, AcceptedIsActive DEF SliceAuthorised, RetTyped, SamePlans, LivePlan
<1>14. CASE ResetOne
  <2>1. SamePlans /\ pc' = pc /\ ret' = ret /\ base' = base
    BY <1>14 DEF ResetOne
  <2> QED BY <1>1, <1>3, <2>1 DEF RetTyped
<1>15. CASE ResetEnd
  <2>1. SamePlans /\ pc = "resetting" /\ pc' = ret /\ ret' = "idle"
    BY <1>15 DEF ResetEnd
  <2> QED BY <1>1, <1>2, <1>4, <2>1 DEF RetTyped, Outside, Slice
<1>16. CASE RepairApprove
  <2>1. ApprovePlan /\ rev' = rev /\ pc' = "turn" /\ ret' = ret
    BY <1>16 DEF RepairApprove
  <2>2. rev # 0 /\ plans'[rev] = "ACCEPTED" /\ active' = rev
    BY <2>1, ApprovePlanKeeps DEF IInv
  <2> QED BY <1>1, <2>1, <2>2 DEF SliceAuthorised, RetTyped, LivePlan
<1>17. CASE ReviseBegin
  <2>1. /\ SamePlans /\ rev # 0 /\ base' = goal /\ goal \in Revisable /\ pc' = "revising"
        /\ \/ ret' \in {"idle", "editor"}
           \/ pc \in Slice /\ ret' \in {"turn", "repair"}
    BY <1>17 DEF ReviseBegin, Slice
  <2> QED BY <1>1, <2>1 DEF SliceAuthorised, RetTyped, SamePlans, LivePlan, Slice, Nested, Revisable
<1>18. CASE ReviseCreate
  <2>1. /\ pc = "revising" /\ pc' = "carrying" /\ ret' = ret /\ active' = active
        /\ \E p : CreatePlan(p)
    BY <1>18 DEF ReviseCreate
  <2>2. rev' # 0 /\ plans'[rev'] = "PENDING"
    BY <2>1, CreatePlanKeeps DEF IInv
  <2> QED BY <1>1, <2>1, <2>2 DEF SliceAuthorised, RetTyped, LivePlan, Slice, Nested
<1>19. CASE ReviseCarry
  <2>1. SamePlans /\ pc' = pc /\ ret' = ret /\ base' = base
    BY <1>19 DEF ReviseCarry
  <2> QED BY <1>1, <1>3, <2>1 DEF RetTyped
<1>20. CASE ReviseRollback \/ ReviseEnd
  <2>1. SamePlans /\ pc \in {"revising", "carrying"} /\ pc' \in {Caller, Unwound} /\ ret' = "idle"
    BY <1>20 DEF ReviseRollback, ReviseEnd, Returned
  <2>2. CASE Nested
    BY <1>1, <1>4, <2>1, <2>2 DEF Nested, Caller, Unwound, Slice, RetTyped
  <2>3. CASE ~Nested
    BY <1>1, <1>2, <2>1, <2>3 DEF Nested, Caller, Unwound, Outside, RetTyped
  <2> QED BY <2>2, <2>3
<1> QED BY <1>5, <1>6, <1>7, <1>8, <1>9, <1>10, <1>11, <1>12, <1>13, <1>14, <1>15, <1>16, <1>17,
           <1>18, <1>19, <1>20
        DEF Next, User_Next, Worker_Next

-----------------------------------------------------------------------------
(* The completion gate *)

\* The goal table only reaches legal statuses, COMPLETED only from REVIEWING.
LEMMA GoalMayTyped ==
    ASSUME NEW from \in GoalStatus, NEW to, GoalMay(from, to)
    PROVE  /\ to \in GoalStatus
           /\ to = "COMPLETED" => from \in {"REVIEWING", "COMPLETED"}
  BY DEF GoalMay, GoalGraph, GoalStatus

\* What a step needs to move the goal into a status the gate speaks of.
GoalMoves ==
    /\ GoalTyped'
    /\ goal' = "COMPLETED" => goal = "COMPLETED" \/ (ReviewPassed /\ goal = "REVIEWING")
    /\ pc' = "verify" => pc = "verify" \/ FinishGoal
    /\ pc' = "review" /\ goal' = "REVIEWING" => StartReview \/ (pc = "review" /\ goal = "REVIEWING")

\* Only a passed review completes the goal and only _finish_goal starts one.
LEMMA GoalStep ==
    ASSUME IInv, Next
    PROVE  GoalMoves
<1>1. goal \in GoalStatus
  BY DEF IInv, GoalTyped
<1>2. ASSUME goal' = goal, pc' = pc \/ pc' \notin {"verify", "review"} PROVE GoalMoves
  BY <1>1, <1>2 DEF GoalMoves, GoalTyped
<1>3. ASSUME goal' \in GoalStatus \ {"REVIEWING", "COMPLETED"}, pc' = pc \/ pc' # "verify"
      PROVE  GoalMoves
  BY <1>3 DEF GoalMoves, GoalTyped
<1> USE DEF SameGoal, SameStore, OnlyWorker
<1>4. CASE Pause \/ CompletePause \/ Cancel \/ StopNow \/ Interrupt \/ Approve
  <2>1. goal' \in {"PAUSED", "CANCELLED", "RUNNING"} /\ (pc' = pc \/ pc' = "idle")
    BY <1>4 DEF Pause, CompletePause, Cancel, StopNow, Interrupt, Approve, ApprovePlan, TransitionGoal
  <2> QED BY <1>3, <2>1 DEF GoalStatus
<1>5. CASE RequestPause \/ ResumePlanning \/ UserTask \/ Resolve \/ Run
  <2>1. goal' = goal /\ (pc' = pc \/ pc' \in {"plan", "head"})
    BY <1>5 DEF RequestPause, ResumePlanning, UserTask, Resolve, Run
  <2> QED BY <1>2, <2>1
<1>6. CASE Resume
  <2>1. GoalMay(goal, ResumeTarget) /\ goal' = ResumeTarget /\ (pc' = pc \/ pc' = "plan") /\ goal = "PAUSED"
    BY <1>6 DEF Resume, TransitionGoal
  <2>2. ResumeTarget # "REVIEWING"
    BY DEF ResumeTarget
  <2> QED BY <1>1, <1>3, <2>1, <2>2, GoalMayTyped
<1>7. CASE ResumeAwaiting
  <2>1. goal' \in {"RUNNING", "REVISING"} /\ pc' \in {"idle", "plan"}
    BY <1>7 DEF ResumeAwaiting, ApprovePlan, RejectPlan
  <2> QED BY <1>3, <2>1 DEF GoalStatus
<1>8. CASE Replan
  <2>1. /\ pc = "idle" /\ pc' \in {"idle", "plan"} /\ goal \notin Terminal
        /\ goal' = goal \/ goal' \in {"DISCOVERING", "REVISING"}
    BY <1>8 DEF Replan
  <2> QED BY <1>2, <1>3, <2>1 DEF GoalStatus
<1>9. CASE StartGoal \/ PlanPublished \/ AutoApprove \/ PlanFailed \/ RequestUser \/ StrategyReplan
  <2>1. /\ goal' = goal \/ goal' \in {"DISCOVERING", "AWAITING", "RUNNING", "PAUSED", "REVISING"}
        /\ pc' = pc \/ pc' \in {"plan", "approving", "idle", "turn"}
    <3>1. CASE StartGoal \/ PlanPublished \/ AutoApprove \/ PlanFailed
      BY <3>1 DEF StartGoal, PlanPublished, AutoApprove, PlanFailed, ApprovePlan, TransitionGoal
    <3>2. CASE RequestUser \/ StrategyReplan
      BY <3>2 DEF RequestUser, StrategyReplan, TransitionGoal, AfterTool
    <3> QED BY <1>9, <3>1, <3>2
  <2> QED BY <1>2, <1>3, <2>1 DEF GoalStatus
<1>10. CASE \/ PlanStored \/ PlanUnwound \/ Activate \/ SliceEnd \/ TurnEnd \/ Call \/ CallRefused
            \/ ToolBegin \/ ToolDone \/ ToolAudited \/ ToolLost
            \/ TaskDone \/ TaskMoved \/ ResetBegin \/ ResetOne
            \/ StrategyPlan \/ Delegate \/ DelegateReturn \/ ReviewError \/ RepairAwaits
            \/ ReviseCreate \/ ReviseCarry
  <2>1. goal' = goal
    BY <1>10 DEF PlanStored, PlanUnwound, Activate, SliceEnd, TurnEnd, Call, CallRefused, ToolBegin,
                 ToolDone, ToolAudited, ToolLost, TaskDone, TaskMoved, ResetBegin, ResetOne,
                 StrategyPlan, Delegate, DelegateReturn, ReviewError, RepairAwaits, ReviseCreate, ReviseCarry
  <2>2. pc' = pc \/ pc' \notin {"verify", "review"}
    BY <1>10 DEF PlanStored, PlanUnwound, Activate, SliceEnd, TurnEnd, Call, CallRefused, ToolBegin,
                 ToolDone, ToolAudited, ToolLost, TaskDone, TaskMoved, ResetBegin, ResetOne,
                 StrategyPlan, Delegate, DelegateReturn, ReviewError, RepairAwaits, ReviseCreate, ReviseCarry,
                 ReturnFromTool, AfterTool
  <2> QED BY <1>2, <2>1, <2>2
<1>11. CASE ResetEnd
  <2>1. goal' = goal /\ pc = "resetting" /\ pc' = ret
    BY <1>11 DEF ResetEnd
  <2>2. pc' \notin {"verify", "review"}
    BY <2>1 DEF IInv, SliceAuthorised
  <2> QED BY <1>2, <2>1, <2>2
<1>12. CASE ProviderFailed \/ ToolEscaped \/ ReviewInconclusive \/ RepairApprove \/ ReviseBegin
  <2>1. /\ goal' = goal \/ goal' \in {"PAUSED", "RUNNING", "REVISING"}
        /\ pc' \in {"idle", "turn", "revising", "deleg"}
    BY <1>12 DEF ProviderFailed, ToolEscaped, ReturnFromTool, AfterTool, ReviewInconclusive, RepairApprove,
                 ReviseBegin, ApprovePlan, TransitionGoal
  <2> QED BY <1>2, <1>3, <2>1 DEF GoalStatus
<1>13. CASE FinishGoal
  <2>1. goal' = "VERIFYING" /\ pc' = "verify"
    BY <1>13 DEF FinishGoal, TransitionGoal
  <2> QED BY <1>13, <2>1 DEF GoalMoves, GoalTyped, GoalStatus
<1>14. CASE StartReview
  <2>1. goal' \in {goal, "REVIEWING"} /\ pc' \in {"review", "turn"} /\ pc = "verify"
    BY <1>14 DEF StartReview
  <2>2. goal # "COMPLETED"
    BY <2>1 DEF IInv, GateHeld
  <2> QED BY <1>1, <1>14, <2>1, <2>2 DEF GoalMoves, GoalTyped, GoalStatus
<1>15. CASE ReviewPassed
  <2>1. pc = "review" /\ pc' = "turn" /\ (goal' = goal \/ (goal' = "COMPLETED" /\ GoalMay(goal, "COMPLETED")))
    BY <1>15 DEF ReviewPassed
  <2>2. goal # "COMPLETED"
    BY <2>1 DEF IInv, GateHeld
  <2> QED BY <1>1, <1>15, <2>1, <2>2, GoalMayTyped DEF GoalMoves, GoalTyped, GoalStatus
<1>16. CASE ReviseRollback \/ ReviseEnd
  <2>1. /\ pc \in {"revising", "carrying"} /\ pc' \in {Caller, Unwound}
        /\ \/ goal' = goal
           \/ goal' = "AWAITING"
           \/ pc = "revising" /\ goal' \in {base, "RUNNING"}
    BY <1>16 DEF ReviseRollback, ReviseEnd, Returned
  <2>2. pc' \notin {"verify", "review"}
    BY <2>1 DEF Caller, Unwound, IInv, RetTyped
  <2>3. pc = "revising" => base \in Revisable
    BY DEF IInv, SliceAuthorised
  <2> QED BY <1>1, <2>1, <2>2, <2>3 DEF GoalMoves, GoalTyped, GoalStatus, Revisable
<1>17. CASE Process_Next
  <2>1. /\ goal' = goal \/ goal' \in {"RECOVERING", "PAUSED"}
        /\ pc' \notin {"verify", "review"}
    BY <1>17 DEF Process_Next, Crash, Restart, RestartSettle, RestartOpen, RecoveredGoal
  <2> QED BY <1>2, <1>3, <2>1 DEF GoalStatus
<1> QED BY <1>4, <1>5, <1>6, <1>7, <1>8, <1>9, <1>10, <1>11, <1>12, <1>13, <1>14, <1>15, <1>16, <1>17
        DEF Next, User_Next, Worker_Next

\* A step that writes neither plans nor tasks nor rows keeps the gate.
LEMMA GateUntouched ==
    ASSUME GatePassed, SamePlans, SameTasks, jrn' = jrn
    PROVE  GatePassed'
  BY DEF GatePassed, TasksProved, Present, Uncertain, Open, SamePlans, SameTasks

\* recover_inflight changes nothing when no row is running.
LEMMA NothingToRecover ==
    ASSUME RowsTyped, RecordsTyped, Open("running") = {}, RecoverInflight
    PROVE  jrn' = jrn /\ tasks' = tasks
<1>1. \A e \in Entry : jrn[e].status # "running"
  BY DEF Open
<1>2. jrn' = [e \in Entry |-> jrn[e]]
  BY <1>1 DEF RecoverInflight, RecoveredRows
<1>3. \A r, t : ~CrashWindow(r, t)
  BY DEF CrashWindow
<1>4. tasks' = [r \in Revision |-> [t \in Task |-> tasks[r][t]]]
  BY <1>3 DEF RecoverInflight, RecoveredTasks
<1>5. tasks' \in [Revision -> [Task -> TaskStatus]]
  BY <1>4 DEF RecordsTyped
<1>6. \A r \in Revision : tasks'[r] = tasks[r]
  <2> SUFFICES ASSUME NEW r \in Revision PROVE tasks'[r] = tasks[r]
    OBVIOUS
  <2>1. tasks'[r] = [t \in Task |-> tasks[r][t]]
    BY <1>4
  <2> QED BY <2>1 DEF RecordsTyped
<1> QED BY <1>2, <1>4, <1>6 DEF RowsTyped, RecordsTyped

\* Outside a call nothing is running.
LEMMA NothingRuns ==
    ASSUME IInv, pc # "down", cur = NoEntry, job = NoEntry
    PROVE  Open("running") = {}
  BY NoEntryAssumption DEF IInv, NoStrayRow, Open

\* Between the gate and the review the user may pause, stop and resume.
LEMMA VerifyStep ==
    ASSUME IInv, Next, pc = "verify", pc' \in {"verify", "review"}
    PROVE  GatePassed'
<1>1. GatePassed /\ cur = NoEntry /\ job = NoEntry /\ Open("running") = {}
  BY NothingRuns DEF IInv, GateHeld, CallsPlaced
<1>2. CASE Pause \/ RequestPause \/ Resume \/ StartReview
  BY <1>1, <1>2, GateUntouched DEF Pause, RequestPause, Resume, StartReview, OnlyGoal
<1>3. CASE Resolve
  <2>1. \E e \in Entry : jrn[e].status = "uncertain"
    BY <1>3 DEF Resolve, ResolveEntry
  <2> QED BY <1>1, <2>1 DEF GatePassed, Uncertain, Open
<1>4. CASE StopNow
  <2>1. jrn' = jrn /\ tasks' = tasks /\ evid' = evid /\ SamePlans
    BY <1>1, <1>4, NothingToRecover DEF StopNow, IInv
  <2> QED BY <1>1, <2>1, GateUntouched DEF SameTasks
<1>5. CASE \/ CompletePause \/ Interrupt \/ ResumePlanning \/ ResumeAwaiting \/ Cancel
           \/ Approve \/ Replan \/ UserTask \/ Run
  BY <1>5 DEF CompletePause, Interrupt, ResumePlanning, ResumeAwaiting, Cancel, Approve, Replan,
              UserTask, Run
<1>6. CASE \/ StartGoal \/ PlanStored \/ PlanPublished \/ AutoApprove \/ PlanFailed \/ PlanUnwound
           \/ Activate \/ SliceEnd \/ TurnEnd \/ ProviderFailed \/ Call \/ CallRefused
           \/ ToolBegin \/ ToolDone \/ ToolAudited \/ ToolEscaped \/ ToolLost
  BY <1>1, <1>6 DEF StartGoal, PlanStored, PlanPublished, AutoApprove, PlanFailed, PlanUnwound,
              Activate, SliceEnd, TurnEnd, ProviderFailed, Call, CallRefused, ToolBegin, ToolDone,
              ToolAudited, ToolEscaped, ToolLost
<1>7. CASE \/ TaskDone \/ TaskMoved \/ ResetBegin \/ ResetOne \/ ResetEnd
           \/ RequestUser \/ StrategyReplan \/ StrategyPlan \/ Delegate \/ DelegateReturn
           \/ FinishGoal \/ ReviewPassed \/ ReviewInconclusive \/ ReviewError
           \/ RepairApprove \/ RepairAwaits
           \/ ReviseBegin \/ ReviseCreate \/ ReviseRollback \/ ReviseCarry \/ ReviseEnd
  BY <1>7 DEF TaskDone, TaskMoved, ResetBegin, ResetOne, ResetEnd, RequestUser, StrategyReplan,
              StrategyPlan, Delegate, DelegateReturn, FinishGoal, ReviewPassed, ReviewInconclusive,
              ReviewError, RepairApprove, RepairAwaits, ReviseBegin, ReviseCreate, ReviseRollback,
              ReviseCarry, ReviseEnd
<1>8. CASE Process_Next
  BY <1>8 DEF Process_Next, Crash, Restart, RestartSettle, RestartOpen
<1> QED BY <1>2, <1>3, <1>4, <1>5, <1>6, <1>7, <1>8 DEF Next, User_Next, Worker_Next

\* Evidence only grows: a proved task stays proved.
LEMMA ProofStays ==
    ASSUME NEW a \in None .. Proof, NEW b \in None .. Proof, Authoritative(a)
    PROVE  Authoritative(Stronger(a, b))
  BY DEF Authoritative, Stronger, None, User, Proof

\* The reviewers' own tools add rows that end and evidence that cannot be lost.
LEMMA ReviewStep ==
    ASSUME IInv, Next, pc = "review", goal = "REVIEWING",
           (pc' = "review" /\ goal' = "REVIEWING") \/ ReviewPassed
    PROVE  GatePassed' /\ (ReviewPassed => Open("running")' = {})
<1>1. GatePassed /\ job = NoEntry
  BY DEF IInv, GateHeld, CallsPlaced
<1>2. CASE RequestPause
  BY <1>1, <1>2, GateUntouched DEF RequestPause, ReviewPassed, OnlyGoal
<1>3. CASE ReviewPassed
  <2>1. cur = NoEntry /\ SamePlans /\ SameTasks /\ jrn' = jrn
    BY <1>3 DEF ReviewPassed, OnlyGoal
  <2>2. Open("running") = {}
    BY <1>1, <2>1, NothingRuns
  <2> QED BY <1>1, <2>1, <2>2, GateUntouched DEF Open
<1>4. CASE ToolBegin \/ ToolDone \/ ToolAudited
  <2>1. SamePlans /\ tasks' = tasks /\ pc' = "review"
    BY <1>4 DEF ToolBegin, ToolDone, ToolAudited, ReturnFromTool, AfterTool, SameTasks
  <2>2. Uncertain' = {}
    <3>1. jrn \in [Entry -> Row] /\ \A e \in Entry : jrn[e].status # "uncertain"
      BY <1>1 DEF IInv, RowsTyped, GatePassed, Uncertain, Open
    <3>2. CASE ToolBegin
      <4>1. PICK e \in Entry : \E t \in ToolTask : BeginEntry(e, "action", t)
        BY <3>2 DEF ToolBegin
      <4> QED BY <3>1, <4>1 DEF BeginEntry, Uncertain, Open
    <3>3. CASE ToolDone
      BY <3>1, <3>3 DEF ToolDone, SetEntry, Uncertain, Open, Row
    <3>4. CASE ToolAudited
      BY <3>1, <3>4 DEF ToolAudited, ForgetEntry, NoRow, Uncertain, Open
    <3> QED BY <1>4, <3>2, <3>3, <3>4
  <2>3. rev \in Revision /\ active = rev
    BY <1>1 DEF GatePassed, IInv, PlanInv, PlansTyped, Revision
  <2>4. \A t \in Task : Authoritative(evid[rev][t]) => Authoritative(evid'[rev][t])
    <3>1. CASE evid' = evid
      BY <3>1
    <3>2. CASE evid' # evid
      <4>1. PICK k \in Words \cup {Proof} : AddEvidence(active, jrn[cur].task, k)
        BY <1>4, <3>2 DEF ToolBegin, ToolDone, ToolAudited, SameTasks
      <4>2. k \in None .. Proof
        BY WordsAssumption DEF None, Prose, Proof
      <4>3. evid \in [Revision -> [Task -> None .. Proof]]
        BY DEF IInv, RecordsTyped
      <4>4. ASSUME NEW t \in Task PROVE evid'[rev][t] \in {evid[rev][t], Stronger(evid[rev][t], k)}
        BY <2>3, <4>1, <4>3 DEF AddEvidence
      <4> QED BY <2>3, <4>2, <4>3, <4>4, ProofStays
    <3> QED BY <3>1, <3>2
  <2>5. TasksProved'
    BY <1>1, <2>1, <2>4 DEF GatePassed, TasksProved, Present, SamePlans
  <2>6. ~ReviewPassed
    BY <2>1 DEF ReviewPassed
  <2> QED BY <1>1, <2>1, <2>2, <2>5, <2>6 DEF GatePassed, SamePlans
<1> USE DEF SameGoal, SameStore, OnlyWorker
<1>5. CASE \/ Pause \/ CompletePause \/ StopNow \/ Interrupt \/ Resume \/ ResumePlanning
           \/ ResumeAwaiting \/ Cancel \/ Approve \/ Replan \/ UserTask \/ Run
  BY <1>5 DEF Pause, CompletePause, StopNow, Interrupt, Resume, ResumePlanning, ResumeAwaiting, Cancel,
              Approve, Replan, UserTask, Run, TransitionGoal, ReviewPassed
<1>6. CASE Resolve
  <2>1. \E e \in Entry : jrn[e].status = "uncertain"
    BY <1>6 DEF Resolve, ResolveEntry
  <2> QED BY <1>1, <2>1 DEF GatePassed, Uncertain, Open
<1>7. CASE \/ StartGoal \/ PlanStored \/ PlanPublished \/ AutoApprove \/ PlanFailed \/ PlanUnwound
           \/ Activate \/ SliceEnd \/ TurnEnd \/ ProviderFailed \/ Call \/ CallRefused
           \/ ToolEscaped
  BY <1>7 DEF StartGoal, PlanStored, PlanPublished, AutoApprove, PlanFailed, PlanUnwound,
              Activate, SliceEnd, TurnEnd, ProviderFailed, Call, CallRefused, ToolEscaped
<1>8. CASE ToolLost
  BY <1>8 DEF ToolLost, ReviewPassed
<1>9. CASE \/ TaskDone \/ TaskMoved \/ ResetBegin \/ ResetOne \/ ResetEnd
           \/ RequestUser \/ StrategyReplan \/ StrategyPlan \/ Delegate \/ DelegateReturn
           \/ FinishGoal \/ StartReview \/ RepairApprove \/ RepairAwaits
           \/ ReviseCreate \/ ReviseRollback \/ ReviseCarry \/ ReviseEnd
  BY <1>9 DEF TaskDone, TaskMoved, ResetBegin, ResetOne, ResetEnd, RequestUser, StrategyReplan,
              StrategyPlan, Delegate, DelegateReturn, FinishGoal, StartReview,
              RepairApprove, RepairAwaits, ReviseCreate, ReviseRollback, ReviseCarry, ReviseEnd
<1>10. CASE ReviewInconclusive \/ ReviewError \/ ReviseBegin
  <2>1. pc' # "review"
    BY <1>10 DEF ReviewInconclusive, ReviewError, ReviseBegin
  <2> QED BY <1>3, <2>1
<1>11. CASE Process_Next
  BY <1>11 DEF Process_Next, Crash, Restart, RestartSettle, RestartOpen, ReviewPassed
<1> QED BY <1>2, <1>3, <1>4, <1>5, <1>6, <1>7, <1>8, <1>9, <1>10, <1>11 DEF Next, User_Next, Worker_Next

\* A completed goal is left alone: only the slice winds down and the process restarts.
LEMMA CompletedStep ==
    ASSUME IInv, Next, goal = "COMPLETED"
    PROVE  /\ GatePassed'
           /\ Open("running")' = {}
           /\ pc' \in {"turn", "head", "idle", "down", "opening"}
<1>1. GatePassed /\ Open("running") = {} /\ pc \in {"turn", "head", "idle", "down", "opening"}
  BY DEF IInv, GateHeld
<1>2. cur = NoEntry
  BY <1>1 DEF IInv, CallsPlaced
<1>3. CASE SliceEnd \/ TurnEnd \/ ProviderFailed \/ Crash \/ RestartOpen
  <2>1. SamePlans /\ SameTasks /\ jrn' = jrn /\ pc' \in {"head", "idle", "down"}
    BY <1>3 DEF SliceEnd, TurnEnd, ProviderFailed, Crash, RestartOpen, OnlyGoal, OnlyWorker, SameStore
  <2> QED BY <1>1, <2>1, GateUntouched DEF Open
<1>4. CASE Restart
  <2>1. jrn' = jrn /\ tasks' = tasks /\ evid' = evid /\ SamePlans /\ pc' = "opening"
    BY <1>1, <1>4, NothingToRecover DEF Restart, IInv
  <2> QED BY <1>1, <2>1, GateUntouched DEF SameTasks, Open
<1>5. CASE \/ Pause \/ RequestPause \/ CompletePause \/ StopNow \/ Interrupt
           \/ Resume \/ ResumePlanning \/ ResumeAwaiting \/ Cancel
           \/ Replan \/ UserTask \/ Resolve \/ Run
  BY <1>5 DEF Pause, RequestPause, CompletePause, StopNow, Interrupt, Resume, ResumePlanning,
              ResumeAwaiting, Cancel, Replan, UserTask, Resolve, Run, Terminal
<1>6. CASE Approve
  BY <1>1, <1>6 DEF Approve, GatePassed
<1>7. CASE \/ StartGoal \/ PlanStored \/ PlanPublished \/ AutoApprove \/ PlanFailed \/ PlanUnwound
           \/ Activate \/ Call \/ CallRefused
           \/ ToolBegin \/ ToolDone \/ ToolAudited \/ ToolEscaped \/ ToolLost
  BY <1>1, <1>2, <1>7 DEF StartGoal, PlanStored, PlanPublished, AutoApprove, PlanFailed, PlanUnwound,
              Activate, Call, CallRefused, ToolBegin, ToolDone, ToolAudited, ToolEscaped, ToolLost
<1>8. CASE \/ TaskDone \/ TaskMoved \/ ResetBegin \/ ResetOne \/ ResetEnd
           \/ RequestUser \/ StrategyReplan \/ StrategyPlan \/ Delegate \/ DelegateReturn
           \/ FinishGoal \/ StartReview \/ ReviewPassed \/ ReviewInconclusive \/ ReviewError
           \/ RepairApprove \/ RepairAwaits
           \/ ReviseBegin \/ ReviseCreate \/ ReviseRollback \/ ReviseCarry \/ ReviseEnd
  BY <1>1, <1>8 DEF TaskDone, TaskMoved, ResetBegin, ResetOne, ResetEnd, RequestUser, StrategyReplan,
              StrategyPlan, Delegate, DelegateReturn, FinishGoal, StartReview, ReviewPassed,
              ReviewInconclusive, ReviewError, RepairApprove, RepairAwaits, ReviseBegin, ReviseCreate,
              ReviseRollback, ReviseCarry, ReviseEnd, Revisable, Terminal
<1>9. CASE RestartSettle
  BY <1>1, <1>9 DEF RestartSettle
<1> QED BY <1>3, <1>4, <1>5, <1>6, <1>7, <1>8, <1>9 DEF Next, User_Next, Worker_Next, Process_Next

\* The three scenes of the gate, put together.
LEMMA GateStep ==
    ASSUME IInv, Next
    PROVE  GateHeld'
<1>1. GoalMoves
  BY GoalStep
<1>2. ASSUME pc' = "verify" PROVE GatePassed'
  <2>1. CASE pc = "verify"
    BY <1>2, <2>1, VerifyStep
  <2>2. CASE FinishGoal
    <3>1. GatePassed
      BY <2>2 DEF FinishGoal, CompletionPrecheck, GatePassed, TasksProved, Closed
    <3> QED BY <2>2, <3>1, GateUntouched DEF FinishGoal, OnlyGoal
  <2> QED BY <1>1, <1>2, <2>1, <2>2 DEF GoalMoves
<1>3. ASSUME pc' = "review", goal' = "REVIEWING" PROVE GatePassed'
  <2>1. CASE StartReview
    <3>1. pc = "verify"
      BY <2>1 DEF StartReview
    <3> QED BY <1>3, <3>1, VerifyStep
  <2>2. CASE pc = "review" /\ goal = "REVIEWING"
    BY <1>3, <2>2, ReviewStep
  <2> QED BY <1>1, <1>3, <2>1, <2>2 DEF GoalMoves
<1>4. ASSUME goal' = "COMPLETED"
      PROVE  GatePassed' /\ Open("running")' = {} /\ pc' \in {"turn", "head", "idle", "down", "opening"}
  <2>1. CASE goal = "COMPLETED"
    BY <2>1, CompletedStep
  <2>2. CASE ReviewPassed /\ goal = "REVIEWING"
    <3>1. pc = "review" /\ pc' = "turn"
      BY <2>2 DEF ReviewPassed
    <3> QED BY <2>2, <3>1, ReviewStep
  <2> QED BY <1>1, <1>4, <2>1, <2>2 DEF GoalMoves
<1> QED BY <1>2, <1>3, <1>4 DEF GateHeld

-----------------------------------------------------------------------------
(* The theorems *)

\* The inductive invariant is kept by every step, and by stuttering.
LEMMA NextIInv == IInv /\ [Next]_vars => IInv'
<1> SUFFICES ASSUME IInv, [Next]_vars PROVE IInv'
  OBVIOUS
<1>1. CASE Next
  <2>1. PlanInv'
    BY NextPlanInv DEF IInv
  <2>2. RecordsTyped'
    BY <1>1, RecordStep
  <2>3. RowsTyped' /\ CallsPlaced' /\ NoStrayRow'
    BY <1>1, RowStep DEF RowsInv
  <2>4. SliceAuthorised' /\ RetTyped'
    BY <1>1, SliceStep
  <2>5. GoalTyped'
    BY <1>1, GoalStep DEF GoalMoves
  <2>6. GateHeld'
    BY <1>1, GateStep
  <2> QED BY <2>1, <2>2, <2>3, <2>4, <2>5, <2>6 DEF IInv
<1>2. CASE UNCHANGED vars
  <2>1. GoalTyped' /\ RetTyped' /\ PlanInv'
    BY <1>2 DEF vars, IInv, GoalTyped, RetTyped, PlanInv, PlansTyped, NoFuturePlan, PlanAuthority
  <2>2. RowsTyped' /\ RecordsTyped' /\ CallsPlaced' /\ NoStrayRow'
    BY <1>2 DEF vars, IInv, RowsTyped, RecordsTyped, CallsPlaced, NoStrayRow, Open
  <2>3. SliceAuthorised'
    BY <1>2 DEF vars, IInv, SliceAuthorised, LivePlan, Nested
  <2>4. GateHeld'
    BY <1>2 DEF vars, IInv, GateHeld, GatePassed, TasksProved, Present, Uncertain, Open
  <2> QED BY <2>1, <2>2, <2>3, <2>4 DEF IInv
<1> QED BY <1>1, <1>2

\* The inductive invariant holds of every reachable state.
THEOREM GoalInvariant == Spec => []IInv
  BY InitIInv, NextIInv, PTL DEF Spec

\* However the user pauses, stops, resumes or restarts during verification and
\* review, a completed goal has an accepted plan with every task closed and every
\* completed one proved, and no action or worker running or uncertain.
THEOREM CompletionIsGated == Spec => []CompletionGate
<1>1. IInv => CompletionGate
  BY DEF IInv, GateHeld, GatePassed, TasksProved, CompletionGate
<1> QED BY <1>1, GoalInvariant, PTL

\* A delegated worker, or a tool of any but the planner, runs only while the
\* goal has an accepted plan.
THEOREM WorkIsAuthorised == Spec => []ExecutionAuthorised
<1>1. IInv => ExecutionAuthorised
  <2> SUFFICES ASSUME IInv, (cur # NoEntry /\ pc # "plan") \/ job # NoEntry
               PROVE  active # 0 /\ plans[active] = "ACCEPTED"
    BY DEF ExecutionAuthorised
  <2>1. pc \in Slice
    BY DEF IInv, CallsPlaced, Slice
  <2>2. active # 0
    BY <2>1 DEF IInv, SliceAuthorised
  <2> QED BY <2>2 DEF IInv, PlanInv, PlansTyped, PlanAuthority, Revision
<1> QED BY <1>1, GoalInvariant, PTL

\* No step, of whichever thread, writes a task or an evidence record of a
\* superseded or rejected revision.
THEOREM HistoryIsFrozen == Spec => HistoryFrozen
<1>1. IInv /\ [Next]_vars =>
        [\A r \in Revision :
           plans[r] \in {"SUPERSEDED", "REJECTED"} => tasks'[r] = tasks[r] /\ evid'[r] = evid[r]]_vars
  BY RecordStep DEF Frozen
<1> QED BY <1>1, GoalInvariant, PTL DEF Spec, HistoryFrozen

\* No late result, stop or restart takes an action out of "uncertain".
THEOREM UncertainActionsWait == Spec => UncertainActionsInspected
<1>1. IInv /\ [Next]_vars =>
        [\A e \in Entry :
           (jrn[e].kind = "action" /\ jrn[e].status = "uncertain")
           => jrn'[e].status \in {"uncertain", "resolved"}]_vars
  BY RowStep DEF Kept
<1> QED BY <1>1, GoalInvariant, PTL DEF Spec, UncertainActionsInspected

-----------------------------------------------------------------------------
(* Types of what the invariant does not speak of *)

WorkTyped ==
    /\ pc \in Step
    /\ resume \in GoalStatus \cup {"unset"}
    /\ todo \in SUBSET Task
    /\ focus \in Task \cup {NoTask}
    /\ base \in GoalStatus
    /\ pauseReq \in BOOLEAN
    /\ shocks \in 0 .. MaxShock

\* The worker's bookkeeping keeps its types.
LEMMA WorkStep ==
    ASSUME IInv, WorkTyped, Next
    PROVE  WorkTyped'
<1>1. goal \in GoalStatus /\ ret \in {"idle", "editor", "turn", "repair"}
  BY DEF IInv, GoalTyped, RetTyped
<1>2. Shock => shocks' \in 0 .. MaxShock
  BY MaxShockAssumption DEF Shock, WorkTyped
<1>3. "NEW" \in GoalStatus /\ "RUNNING" \in GoalStatus /\ "DISCOVERING" \in GoalStatus
  BY DEF GoalStatus
<1> USE DEF WorkTyped, SameGoal, SameStore, SameWork, SameUser, OnlyGoal, OnlyWorker
<1>4. CASE Pause \/ RequestPause \/ CompletePause \/ StopNow \/ Interrupt
  BY <1>1, <1>2, <1>3, <1>4 DEF Pause, RequestPause, CompletePause, StopNow, Interrupt, Step
<1>5. CASE \/ Resume \/ ResumePlanning \/ ResumeAwaiting \/ Cancel
           \/ Approve \/ UserTask \/ Resolve \/ Run
  BY <1>5 DEF Resume, ResumePlanning, ResumeAwaiting, Cancel, Approve, UserTask, Resolve, Run, Step
<1>6. CASE Replan
  BY <1>6 DEF Replan, Step
<1>7. CASE \/ StartGoal \/ PlanStored \/ PlanPublished \/ AutoApprove \/ PlanFailed \/ PlanUnwound
           \/ Activate \/ SliceEnd \/ TurnEnd \/ ProviderFailed \/ Call \/ CallRefused
  BY <1>1, <1>3, <1>7 DEF StartGoal, PlanStored, PlanPublished, AutoApprove, PlanFailed, PlanUnwound,
              Activate, SliceEnd, TurnEnd, ProviderFailed, Call, CallRefused, Step
<1>8. CASE ToolBegin \/ ToolDone \/ ToolAudited \/ ToolEscaped \/ ToolLost
  BY <1>3, <1>8 DEF ToolBegin, ToolDone, ToolAudited, ToolEscaped, ToolLost, ReturnFromTool, AfterTool, Step
<1>9. CASE ResetBegin
  BY <1>9 DEF ResetBegin, Present, DependantsIn, Step
<1>10. CASE ResetOne
  BY <1>10 DEF ResetOne
<1>11. CASE ResetEnd
  <2>1. pc' \in {"idle", "turn"}
    BY <1>11 DEF ResetEnd, IInv, SliceAuthorised
  <2> QED BY <1>11, <2>1 DEF ResetEnd, Step
<1>12. CASE \/ TaskDone \/ TaskMoved
            \/ RequestUser \/ StrategyReplan \/ StrategyPlan \/ Delegate \/ DelegateReturn
            \/ FinishGoal \/ StartReview \/ ReviewPassed \/ ReviewInconclusive \/ ReviewError
            \/ RepairApprove \/ RepairAwaits
  BY <1>3, <1>12 DEF TaskDone, TaskMoved, RequestUser, StrategyReplan, StrategyPlan, Delegate,
              DelegateReturn, FinishGoal, StartReview, ReviewPassed, ReviewInconclusive, ReviewError,
              RepairApprove, RepairAwaits, AfterTool, Step
<1>13. CASE ReviseBegin \/ ReviseCreate \/ ReviseCarry
  BY <1>1, <1>13 DEF ReviseBegin, ReviseCreate, ReviseCarry, Step
<1>14. CASE ReviseRollback \/ ReviseEnd
  <2>1. pc' \in {Caller, Unwound}
    BY <1>14 DEF ReviseRollback, ReviseEnd
  <2>2. pc' \in Step
    BY <1>1, <2>1 DEF Caller, Unwound, Step
  <2> QED BY <1>3, <1>14, <2>2 DEF ReviseRollback, ReviseEnd, Returned
<1>15. CASE Process_Next
  <2>1. CASE Crash
    BY <1>2, <1>3, <2>1 DEF Crash, Step
  <2>2. CASE Restart
    BY <2>2 DEF Restart, Step
  <2>3. CASE RestartSettle \/ RestartOpen
    BY <1>1, <1>3, <2>3 DEF RestartSettle, RestartOpen, Step
  <2> QED BY <1>15, <2>1, <2>2, <2>3 DEF Process_Next
<1> QED BY <1>4, <1>5, <1>6, <1>7, <1>8, <1>9, <1>10, <1>11, <1>12, <1>13, <1>14, <1>15
        DEF Next, User_Next, Worker_Next

\* Every column and every variable of the worker keeps its type.
THEOREM GoalTypes == Spec => []TypeOK
<1>1. Init => WorkTyped
  <2> SUFFICES ASSUME Init PROVE WorkTyped
    OBVIOUS
  <2>1. shocks \in 0 .. MaxShock
    BY MaxShockAssumption DEF Init
  <2>2. pc \in Step /\ base \in GoalStatus
    BY DEF Init, Step, GoalStatus
  <2>3. todo \in SUBSET Task /\ focus \in Task \cup {NoTask} /\ resume \in GoalStatus \cup {"unset"}
    BY DEF Init, StoreInit
  <2>4. pauseReq \in BOOLEAN
    BY DEF Init
  <2> QED BY <2>1, <2>2, <2>3, <2>4 DEF WorkTyped
<1>2. IInv /\ WorkTyped /\ [Next]_vars => WorkTyped'
  <2> SUFFICES ASSUME IInv, WorkTyped, [Next]_vars PROVE WorkTyped'
    OBVIOUS
  <2>1. CASE UNCHANGED vars
    BY <2>1 DEF vars, WorkTyped
  <2> QED BY <2>1, WorkStep
<1>3. IInv /\ WorkTyped => TypeOK
  BY DEF IInv, WorkTyped, TypeOK, StoreTypeOK, GoalTyped, RetTyped, PlanInv, PlansTyped, RowsTyped, Row,
         RecordsTyped
<1> QED BY <1>1, <1>2, <1>3, GoalInvariant, PTL DEF Spec

=============================================================================
