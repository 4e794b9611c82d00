----------------------------- MODULE GoalRuntime -----------------------------
(***************************************************************************)
(* The life of one Normal-mode goal: a worker thread that plans, executes, *)
(* delegates, revises and reviews, and a user whose commands come from     *)
(* another thread (terminal or browser).  The worker's steps end where     *)
(* another thread can observe it, which is at every store transaction, and *)
(* the process may be killed between any two of them.                      *)
(***************************************************************************)
EXTENDS GoalStore

CONSTANTS
    NoEntry,   \* no journal row
    Command,   \* the interventions an instance explores
    Words,     \* evidence a model's own report may carry: None, Prose or both
    MaxShock   \* bound on the number of pauses, stops, interrupts and crashes

ASSUME NoEntryAssumption == NoEntry \notin Entry
ASSUME CommandAssumption ==
    Command \subseteq {"pause", "request", "stop", "interrupt", "crash",
                       "cancel", "replan", "revise", "task"}
ASSUME WordsAssumption == Words \subseteq {None, Prose} /\ Words # {}
ASSUME MaxShockAssumption == MaxShock \in Nat

VARIABLES
    pc,        \* where the worker is
    cur,       \* journal row of the tool that is executing
    job,       \* journal row of the delegation that is executing
    todo,      \* tasks a multi-transaction step has still to write
    focus,     \* task whose dependants are being reset
    ret,       \* who called: "idle" a user command, "editor" the document
               \* editor, "turn" the coordinator, "repair" the review gate
    base,      \* goal status revise_plan found
    pauseReq,  \* goals.metadata["pause_requested"]
    shocks     \* number of pauses, stops, interrupts and crashes so far

workVars == <<cur, job, todo, focus, ret, base>>
vars == <<goal, active, resume, rev, plans, tasks, evid, jrn, pc, cur, job, todo, focus, ret,
          base, pauseReq, shocks>>

\* "start": start_goal has stored the goal; "plan": the planner is talking to
\* the model; "planned" and "approving": a new plan is being published; "head":
\* top of the slice loop; "turn": the model's calls are being handled; "calling":
\* one call passed the status check; "deleg": inside a delegated worker; "verify"
\* and "review": inside _finish_goal; "revising" and "carrying": inside
\* revise_plan; "resetting": inside _reset_dependants; "settling" and
\* "opening": inside AgentRuntime.__init__.
Step == {"start", "idle", "plan", "planned", "approving", "head", "turn", "calling", "deleg",
         "verify", "review", "revising", "carrying", "repair", "resetting",
         "down", "settling", "opening"}

TypeOK ==
    /\ StoreTypeOK
    /\ pc \in Step
    /\ cur \in Entry \cup {NoEntry}
    /\ job \in Entry \cup {NoEntry}
    /\ todo \in SUBSET Task
    /\ focus \in Task \cup {NoTask}
    /\ ret \in {"idle", "editor", "turn", "repair"}
    /\ base \in GoalStatus
    /\ pauseReq \in BOOLEAN
    /\ shocks \in 0 .. MaxShock

Init ==
    /\ StoreInit
    /\ pc = "start"
    /\ cur = NoEntry
    /\ job = NoEntry
    /\ todo = {}
    /\ focus = NoTask
    /\ ret = "idle"
    /\ base = "NEW"
    /\ pauseReq = FALSE
    /\ shocks = 0

-----------------------------------------------------------------------------
(* Frames *)

SameGoal == goal' = goal /\ resume' = resume
SamePlans == active' = active /\ rev' = rev /\ plans' = plans
SameTasks == tasks' = tasks /\ evid' = evid
SameStore == SameGoal /\ SamePlans /\ SameTasks /\ jrn' = jrn
SameCall == cur' = cur /\ job' = job
SameWork == SameCall /\ todo' = todo /\ focus' = focus /\ ret' = ret /\ base' = base
SameUser == pauseReq' = pauseReq /\ shocks' = shocks

\* A disturbance of the worker: the number of them is bounded.
Shock == shocks < MaxShock /\ shocks' = shocks + 1

\* A step that only moves the goal, and one that only moves the worker.
OnlyGoal == SamePlans /\ SameTasks /\ jrn' = jrn /\ SameWork
OnlyWorker == SameStore /\ SameWork /\ SameUser

\* The process is up and the goal is known to the user: commands are served.
Up == pc \notin {"start", "down", "settling", "opening"}

Revisable == {"AWAITING", "RUNNING", "PAUSED", "REVISING", "VERIFYING", "REVIEWING"}

\* Dependants of S in plan p: the least set that contains S and every task
\* that depends on a member.
DependantsIn(p, S) ==
    {t \in Present(p) :
        \A C \in SUBSET Present(p) :
            (S \cap Present(p) \subseteq C /\ \A u \in Present(p) : Deps[u] \cap C # {} => u \in C)
            => t \in C}

-----------------------------------------------------------------------------
(* Pausing, stopping and resuming, from the user's thread *)

Pause ==
    /\ "pause" \in Command /\ Up
    /\ goal \notin Terminal \cup {"PAUSED"}
    /\ Shock
    /\ resume' = goal
    /\ TransitionGoal("PAUSED")
    /\ OnlyGoal
    /\ pc' = pc /\ pauseReq' = pauseReq

RequestPause ==
    /\ "request" \in Command /\ Up
    /\ goal \notin Terminal \cup {"PAUSED"}
    /\ Shock
    /\ pauseReq' = TRUE
    /\ resume' = goal
    /\ goal' = goal
    /\ OnlyGoal
    /\ pc' = pc

\* At a checkpoint the controller turns the request into a pause.
CompletePause ==
    /\ pc = "idle"
    /\ pauseReq
    /\ goal \notin Terminal
    /\ pauseReq' = FALSE
    /\ resume' = IF goal = "PAUSED" THEN resume ELSE goal
    /\ TransitionGoal("PAUSED")
    /\ OnlyGoal
    /\ pc' = pc /\ shocks' = shocks

\* stop_now does not wait for the worker and does not record resume_status.
StopNow ==
    /\ "stop" \in Command /\ Up
    /\ goal \notin Terminal
    /\ Shock
    /\ RecoverInflight
    /\ goal' = "PAUSED"
    /\ evid' = evid /\ resume' = resume
    /\ SamePlans /\ SameWork
    /\ pc' = pc /\ pauseReq' = pauseReq

\* checkpoint_interrupt: Ctrl-C unwinds the worker, then its work is recovered.
Interrupt ==
    /\ "interrupt" \in Command /\ Up
    /\ pc # "idle"
    /\ goal \notin Terminal
    /\ RecoverInflight
    /\ resume' = IF RecoveredGoal = "RECOVERING"
                 THEN IF active # 0 THEN "RUNNING" ELSE "DISCOVERING"
                 ELSE IF goal = "PAUSED" THEN resume ELSE goal
    /\ goal' = "PAUSED"
    /\ pc' = "idle"
    /\ Shock
    /\ cur' = NoEntry /\ job' = NoEntry /\ todo' = {} /\ focus' = NoTask
    /\ ret' = "idle" /\ base' = "NEW"
    /\ evid' = evid /\ pauseReq' = pauseReq
    /\ SamePlans

\* The status resume returns to.
ResumeTarget ==
    LET desired == IF resume = "unset" THEN "RUNNING" ELSE resume
    IN  IF desired \in {"NEW", "PAUSED", "RECOVERING", "VERIFYING", "REVIEWING", "BLOCKED"}
        THEN IF active # 0 THEN "RUNNING" ELSE "DISCOVERING"
        ELSE desired

\* resume of a paused goal; a planning status goes straight on to generate_plan.
Resume ==
    /\ Up
    /\ goal = "PAUSED"
    /\ ~Unresolved
    /\ TransitionGoal(ResumeTarget)
    /\ IF ResumeTarget \in {"DISCOVERING", "REVISING"}
       THEN pc = "idle" /\ pc' = "plan"
       ELSE pc' = pc
    /\ resume' = resume
    /\ OnlyGoal /\ SameUser

\* resume of an interrupted planning status.
ResumePlanning ==
    /\ pc = "idle"
    /\ goal \in {"DISCOVERING", "REVISING"}
    /\ pc' = "plan"
    /\ OnlyWorker

\* resume while a newer revision awaits approval: an in-scope repair is
\* approved, a scope expansion is rejected and planned again.
ResumeAwaiting ==
    /\ pc = "idle"
    /\ goal = "AWAITING"
    /\ rev # 0 /\ active # 0 /\ active < rev /\ plans[rev] = "PENDING"
    /\ \/ ApprovePlan /\ pc' = "idle"
       \/ RejectPlan /\ active' = active /\ pc' = "plan"
    /\ resume' = resume /\ rev' = rev
    /\ SameTasks /\ jrn' = jrn /\ SameWork /\ SameUser

Cancel ==
    /\ "cancel" \in Command /\ pc = "idle"
    /\ goal \notin Terminal
    /\ TransitionGoal("CANCELLED")
    /\ resume' = resume
    /\ OnlyGoal /\ SameUser
    /\ pc' = pc

-----------------------------------------------------------------------------
(* Planning *)

StartGoal ==
    /\ pc = "start"
    /\ TransitionGoal("DISCOVERING")
    /\ pc' = "plan"
    /\ resume' = resume
    /\ OnlyGoal /\ SameUser

Draft == {p \in [Task -> {"absent", "PENDING"}] : Present(p) # {}}

\* The planner and its critic agreed; the revision is stored.
PlanStored ==
    /\ pc = "plan" /\ cur = NoEntry
    /\ \E p \in Draft : CreatePlan(p)
    /\ pc' = "planned"
    /\ evid' = evid /\ active' = active /\ jrn' = jrn
    /\ SameGoal /\ SameWork /\ SameUser

\* Then the goal moves, and the plan is approved by policy or left to the user.
PlanPublished ==
    /\ pc = "planned"
    /\ TransitionGoal("AWAITING")
    /\ pc' \in {"approving", "idle"}
    /\ resume' = resume
    /\ OnlyGoal /\ SameUser

AutoApprove ==
    /\ pc = "approving"
    /\ ApprovePlan
    /\ pc' = "idle"
    /\ resume' = resume /\ rev' = rev
    /\ SameTasks /\ jrn' = jrn /\ SameWork /\ SameUser

\* _pause_planning after a failed pass.
PlanFailed ==
    /\ pc = "plan" /\ cur = NoEntry
    /\ IF goal \in {"DISCOVERING", "REVISING"}
       THEN resume' = goal /\ TransitionGoal("PAUSED")
       ELSE SameGoal
    /\ pc' = "idle"
    /\ OnlyGoal /\ SameUser

\* A hard stop unwinds the planner; an illegal transition unwinds the publisher.
PlanUnwound ==
    /\ \/ pc = "plan" /\ cur = NoEntry
       \/ pc = "planned" /\ ~GoalMay(goal, "AWAITING")
       \/ pc = "approving" /\ ~GoalMay(goal, "RUNNING")
    /\ pc' = "idle"
    /\ OnlyWorker

Approve ==
    /\ pc = "idle"
    /\ rev # 0 /\ plans[rev] = "PENDING"
    /\ ApprovePlan
    /\ pc' = pc
    /\ resume' = resume /\ rev' = rev
    /\ SameTasks /\ jrn' = jrn /\ SameWork /\ SameUser

\* reject_plan: the user asks for another plan.
Replan ==
    LET g == IF goal = "PAUSED" /\ resume \in {"DISCOVERING", "REVISING"} THEN resume ELSE goal
        pending == rev # 0 /\ plans[rev] = "PENDING"
    IN  /\ "replan" \in Command /\ pc = "idle"
        /\ goal \notin Terminal
        /\ \/ rev = 0 /\ g \in {"DISCOVERING", "REVISING"} /\ goal' = g /\ plans' = plans
              /\ pc' = "plan"
           \/ rev # 0 /\ g = "RUNNING" /\ goal' = "REVISING" /\ plans' = plans /\ pc' = "plan"
           \/ pending /\ g # "RUNNING" /\ GoalMay(g, "REVISING") /\ goal' = "REVISING"
              /\ plans' = [plans EXCEPT ![rev] = "REJECTED"] /\ pc' = "plan"
           \/ pending /\ g # "RUNNING" /\ ~GoalMay(g, "REVISING") /\ goal' = g
              /\ plans' = plans /\ pc' = pc
           \/ rev # 0 /\ ~pending /\ g = "REVISING" /\ goal' = g /\ plans' = plans /\ pc' = "plan"
        /\ resume' = resume /\ active' = active /\ rev' = rev
        /\ SameTasks /\ jrn' = jrn /\ SameWork /\ SameUser

-----------------------------------------------------------------------------
(* Execution slices *)

\* continue_until_boundary / run_slice on a running goal.
Run ==
    /\ pc = "idle"
    /\ goal = "RUNNING"
    /\ active # 0 /\ plans[active] = "ACCEPTED"
    /\ pc' = "head"
    /\ OnlyWorker

\* first_ready_task: every prerequisite completed, first in plan order.
ReadyTasks(p) ==
    {t \in Task : p[t] = "PENDING" /\ \A d \in DepsOf(p, t) : p[d] = "COMPLETED"}

FirstReady(p) == {t \in ReadyTasks(p) : \A u \in ReadyTasks(p) : Pos[t] <= Pos[u]}

\* The plan after legacy resource-claim items have been retired.
Retired(p) == [t \in Task |-> IF t \in ClaimTask /\ p[t] = "PENDING" THEN "OBSOLETE" ELSE p[t]]

\* The task the slice is bound to: the first one in progress, if any.
CurrentTask(p) ==
    {t \in Task : p[t] = "IN_PROGRESS" /\ \A u \in Task : p[u] = "IN_PROGRESS" => Pos[t] <= Pos[u]}

\* _activate_ready_task binds the slice to one dependency-ready task.
Activate ==
    LET p == Retired(tasks[rev])
    IN  /\ pc = "head"
        /\ goal = "RUNNING"
        /\ rev # 0 /\ plans[rev] = "ACCEPTED"
        /\ tasks' = [tasks EXCEPT ![rev] = [t \in Task |->
                        IF CurrentTask(p) = {} /\ t \in FirstReady(p) THEN "IN_PROGRESS" ELSE p[t]]]
        /\ pc' = "turn"
        /\ evid' = evid /\ jrn' = jrn
        /\ SameGoal /\ SamePlans /\ SameWork /\ SameUser

\* The slice loop ends at its top, after a turn, or by an exception in a turn.
SliceEnd ==
    /\ pc \in {"head", "turn"}
    /\ pc' = "idle"
    /\ OnlyWorker

TurnEnd ==
    /\ pc = "turn"
    /\ pc' = "head"
    /\ OnlyWorker

\* Repeated provider failures stop the goal for the user.
ProviderFailed ==
    /\ pc = "turn"
    /\ resume' = "RUNNING"
    /\ goal' = IF goal = "RUNNING" THEN "PAUSED" ELSE goal
    /\ pc' = "idle"
    /\ OnlyGoal /\ SameUser

\* One call of the turn passes the status check.
Call ==
    /\ pc = "turn"
    /\ goal = "RUNNING"
    /\ pc' = "calling"
    /\ OnlyWorker

\* A call that is answered with an error and changes nothing.
CallRefused ==
    /\ pc = "calling"
    /\ cur = NoEntry
    /\ pc' = "turn"
    /\ OnlyWorker

-----------------------------------------------------------------------------
(* Workspace tools, called by the coordinator, a delegated worker (no status  *)
(* check), the planner or a reviewer (both read-only, for no task).           *)

ToolTask ==
    CASE pc = "deleg"   -> {jrn[job].task}
      [] pc = "calling" -> IF CurrentTask(tasks[rev]) = {} THEN {NoTask} ELSE CurrentTask(tasks[rev])
      [] OTHER          -> {NoTask}

ToolBegin ==
    /\ pc \in {"plan", "calling", "deleg", "review"}
    /\ cur = NoEntry
    /\ \E e \in Entry \ {job}, t \in ToolTask : BeginEntry(e, "action", t) /\ cur' = e
    /\ pc' = pc
    /\ job' = job /\ todo' = todo /\ focus' = focus /\ ret' = ret /\ base' = base
    /\ SameGoal /\ SamePlans /\ SameTasks /\ SameUser

AfterTool == IF pc = "calling" THEN "turn" ELSE pc

ReturnFromTool ==
    /\ cur' = NoEntry
    /\ pc' = AfterTool
    /\ job' = job /\ todo' = todo /\ focus' = focus /\ ret' = ret /\ base' = base

\* Mutant of ToolDone: a late result overwrites what a stop recorded.
Mut_ToolDone ==
    /\ cur # NoEntry
    /\ jrn[cur].status \in {"running", "uncertain"}
    /\ SetEntry(cur, "closed")
    /\ pc' = pc
    /\ SameGoal /\ SamePlans /\ SameTasks /\ SameWork /\ SameUser

\* complete_action: the row is closed before the workspace is audited.
ToolDone ==
    /\ cur # NoEntry
    /\ jrn[cur].status = "running"
    /\ SetEntry(cur, "closed")
    /\ pc' = pc
    /\ SameGoal /\ SamePlans /\ SameTasks /\ SameWork /\ SameUser

\* The audit is clean; evidence is bound to the accepted revision, verified
\* unless it is a preview that did not pass.  A failed tool leaves none.
ToolAudited ==
    /\ cur # NoEntry
    /\ jrn[cur].status = "closed"
    /\ \/ evid' = evid
       \/ /\ jrn[cur].task # NoTask /\ active # 0
          /\ \E k \in Words \cup {Proof} : AddEvidence(active, jrn[cur].task, k)
    /\ ForgetEntry(cur)
    /\ ReturnFromTool
    /\ tasks' = tasks
    /\ SameGoal /\ SamePlans /\ SameUser

\* The audit finds writes outside the leases: the closed row is reopened as
\* uncertain and the goal paused.
ToolEscaped ==
    /\ pc \in {"calling", "deleg"}
    /\ cur # NoEntry
    /\ jrn[cur].status = "closed"
    /\ SetEntry(cur, "uncertain")
    /\ resume' = "RUNNING"
    /\ goal' = IF goal = "RUNNING" THEN "PAUSED" ELSE goal
    /\ ReturnFromTool
    /\ SamePlans /\ SameTasks /\ SameUser

\* The row was taken away by a stop while the tool ran: complete_action raises,
\* which unwinds the slice or the planner, fails the delegation or the review.
ToolLost ==
    /\ cur # NoEntry
    /\ jrn[cur].status \in {"uncertain", "resolved"}
    /\ cur' = NoEntry /\ job' = NoEntry
    /\ pc' = IF pc \in {"plan", "calling"} THEN "idle" ELSE "turn"
    /\ IF pc = "deleg" /\ jrn[job].status # "resolved" THEN ForgetEntry(job) ELSE jrn' = jrn
    /\ todo' = todo /\ focus' = focus /\ ret' = ret /\ base' = base
    /\ SameGoal /\ SamePlans /\ SameTasks /\ SameUser

-----------------------------------------------------------------------------
(* Control calls of the coordinator *)

\* update_task(done): authoritative evidence of this revision, or a passed
\* verification command inherited from a prerequisite.
TaskDone ==
    /\ pc = "calling" /\ cur = NoEntry
    /\ rev # 0
    /\ \E t \in Task :
         \/ Authoritative(evid[rev][t]) /\ TransitionTask(t, "COMPLETED", Prose)
         \/ /\ \E d \in DepsOf(tasks[rev], t) : evid[rev][d] = Proof
            /\ TransitionTask(t, "COMPLETED", Proof)
    /\ pc' = "turn"
    /\ jrn' = jrn
    /\ SameGoal /\ SamePlans /\ SameWork /\ SameUser

\* update_task(in_progress | blocked), with or without evidence prose.
TaskMoved ==
    /\ pc = "calling" /\ cur = NoEntry
    /\ \E t \in Task, to \in {"IN_PROGRESS", "BLOCKED"}, k \in Words : TransitionTask(t, to, k)
    /\ pc' = "turn"
    /\ jrn' = jrn
    /\ SameGoal /\ SamePlans /\ SameWork /\ SameUser

\* update_task(pending), or the same command from the user: the dependants
\* are reset first, one transaction each, then the task.
ResetBegin ==
    /\ \/ pc = "calling" /\ cur = NoEntry /\ ret' = "turn"
       \/ "task" \in Command /\ pc = "idle" /\ goal \notin Terminal /\ ret' = "idle"
    /\ rev # 0 /\ plans[rev] = "ACCEPTED"
    /\ \E t \in Present(tasks[rev]) :
         focus' = t /\ todo' = DependantsIn(tasks[rev], {t}) \ {t}
    /\ pc' = "resetting"
    /\ base' = base
    /\ SameStore /\ SameCall /\ SameUser

\* Mutant of NextReset: in plan order.
Mut_NextReset == {t \in todo : \A u \in todo : Pos[t] <= Pos[u]}

\* Dependants in reverse plan order.
NextReset == {t \in todo : \A u \in todo : Pos[u] <= Pos[t]}

ResetOne ==
    /\ pc = "resetting"
    /\ todo # {}
    /\ \E t \in NextReset : TransitionTask(t, "PENDING", None) /\ todo' = todo \ {t}
    /\ pc' = pc
    /\ focus' = focus /\ ret' = ret /\ base' = base /\ jrn' = jrn
    /\ SameCall /\ SameGoal /\ SamePlans /\ SameUser

ResetEnd ==
    /\ pc = "resetting"
    /\ todo = {}
    /\ TransitionTask(focus, "PENDING", None)
    /\ pc' = ret
    /\ focus' = NoTask /\ ret' = "idle"
    /\ todo' = todo /\ base' = base /\ jrn' = jrn
    /\ SameCall /\ SameGoal /\ SamePlans /\ SameUser

\* The user marks a task done, blocked or skipped.
UserTask ==
    /\ "task" \in Command /\ pc = "idle"
    /\ goal \notin Terminal
    /\ rev # 0 /\ plans[rev] = "ACCEPTED"
    /\ \E t \in Task :
         \/ TransitionTask(t, "COMPLETED", User)
         \/ \E to \in {"BLOCKED", "OBSOLETE"} : TransitionTask(t, to, None)
    /\ pc' = pc
    /\ jrn' = jrn
    /\ SameGoal /\ SamePlans /\ SameWork /\ SameUser

RequestUser ==
    /\ pc = "calling" /\ cur = NoEntry
    /\ resume' = "RUNNING"
    /\ TransitionGoal("PAUSED")
    /\ pc' = "turn"
    /\ OnlyGoal /\ SameUser

\* A mutating tool after three failed strategies is refused and the goal sent
\* to planning; the running status it read may be stale by then.
StrategyReplan ==
    /\ pc \in {"calling", "deleg"} /\ cur = NoEntry
    /\ TransitionGoal("REVISING")
    /\ pc' = AfterTool
    /\ resume' = resume
    /\ OnlyGoal /\ SameUser

\* Such a slice ends in planning.
StrategyPlan ==
    /\ pc = "turn"
    /\ goal = "REVISING"
    /\ pc' = "plan"
    /\ OnlyWorker

Delegate ==
    /\ pc = "calling" /\ cur = NoEntry
    /\ rev # 0 /\ plans[rev] = "ACCEPTED"
    /\ \E e \in Entry, t \in Present(tasks[rev]) :
         /\ tasks[rev][t] \notin Closed
         /\ DepsDone(tasks[rev], t)
         /\ BeginEntry(e, "delegation", t)
         /\ job' = e
    /\ pc' = "deleg"
    /\ cur' = cur /\ todo' = todo /\ focus' = focus /\ ret' = ret /\ base' = base
    /\ SameGoal /\ SamePlans /\ SameTasks /\ SameUser

\* The worker reports, runs out of steps or raises; its row is closed from
\* "running" and also from "uncertain".
DelegateReturn ==
    /\ pc = "deleg" /\ cur = NoEntry
    /\ IF jrn[job].status = "resolved" THEN jrn' = jrn ELSE ForgetEntry(job)
    /\ \E k \in Words : AddEvidence(jrn[job].rev, jrn[job].task, k)
    /\ job' = NoEntry
    /\ pc' = "turn"
    /\ cur' = cur /\ todo' = todo /\ focus' = focus /\ ret' = ret /\ base' = base
    /\ tasks' = tasks
    /\ SameGoal /\ SamePlans /\ SameUser

-----------------------------------------------------------------------------
(* Completion: the deterministic gate, then the specialist review *)

\* Mutant of CompletionPrecheck: crash-window work is not looked at.
Mut_CompletionPrecheck ==
    /\ rev # 0 /\ plans[rev] = "ACCEPTED" /\ active = rev
    /\ \A t \in Present(tasks[rev]) :
         /\ tasks[rev][t] \in Closed
         /\ tasks[rev][t] = "COMPLETED" => Authoritative(evid[rev][t])

CompletionPrecheck ==
    /\ rev # 0 /\ plans[rev] = "ACCEPTED" /\ active = rev
    /\ \A t \in Present(tasks[rev]) :
         /\ tasks[rev][t] \in Closed
         /\ tasks[rev][t] = "COMPLETED" => Authoritative(evid[rev][t])
    /\ Uncertain = {}

FinishGoal ==
    /\ pc = "calling" /\ cur = NoEntry
    /\ CompletionPrecheck
    /\ TransitionGoal("VERIFYING")
    /\ pc' = "verify"
    /\ resume' = resume
    /\ OnlyGoal /\ SameUser

StartReview ==
    /\ pc = "verify"
    /\ IF GoalMay(goal, "REVIEWING")
       THEN goal' = "REVIEWING" /\ pc' = "review"
       ELSE goal' = goal /\ pc' = "turn"
    /\ resume' = resume
    /\ OnlyGoal /\ SameUser

ReviewPassed ==
    /\ pc = "review" /\ cur = NoEntry
    /\ goal' = IF GoalMay(goal, "COMPLETED") THEN "COMPLETED" ELSE goal
    /\ pc' = "turn"
    /\ resume' = resume
    /\ OnlyGoal /\ SameUser

\* No verdict, no provider, or a missing operational check: back to running.
ReviewInconclusive ==
    /\ pc = "review" /\ cur = NoEntry
    /\ goal' = IF GoalMay(goal, "RUNNING") THEN "RUNNING" ELSE goal
    /\ pc' = "turn"
    /\ resume' = resume
    /\ OnlyGoal /\ SameUser

\* An exception inside the review is answered to the model as an error.
ReviewError ==
    /\ pc = "review" /\ cur = NoEntry
    /\ pc' = "turn"
    /\ OnlyWorker

\* A failed verdict: revise_plan adds the repair tasks; an in-scope repair is
\* then approved by the harness, another one waits for the user.
RepairApprove ==
    /\ pc = "repair"
    /\ ApprovePlan
    /\ pc' = "turn"
    /\ resume' = resume /\ rev' = rev
    /\ SameTasks /\ jrn' = jrn /\ SameWork /\ SameUser

RepairAwaits ==
    /\ pc = "repair"
    /\ pc' = "turn"
    /\ OnlyWorker

-----------------------------------------------------------------------------
(* revise_plan and replace_plan_document *)

ReviseBegin ==
    /\ \/ "revise" \in Command /\ pc = "idle" /\ ret' \in {"idle", "editor"}
       \/ pc = "calling" /\ cur = NoEntry /\ ret' = "turn"
       \/ pc = "review" /\ cur = NoEntry /\ ret' = "repair"
    /\ rev # 0
    /\ goal \in Revisable
    /\ TransitionGoal("REVISING")
    /\ base' = goal
    /\ pc' = "revising"
    /\ resume' = resume
    /\ cur' = cur /\ job' = job /\ todo' = todo /\ focus' = focus
    /\ SamePlans /\ SameTasks /\ jrn' = jrn /\ SameUser

\* The tasks of plan p a revision starts again whatever it is about.
Unsettled(p) == {t \in Task : p[t] \in {"IN_PROGRESS", "UNCERTAIN"}}

\* Mutant of Restarted: dependants of a changed task keep their status.
Mut_Restarted(p, S) == [t \in Task |-> IF p[t] # "absent" /\ t \in S THEN "PENDING" ELSE p[t]]

\* Plan p with the tasks in S and all their dependants pending again.
Restarted(p, S) == [t \in Task |-> IF t \in DependantsIn(p, S) THEN "PENDING" ELSE p[t]]

Added(p) ==
    {Restarted([p EXCEPT ![t] = "PENDING"], Unsettled(p)) :
        t \in {u \in Task \ Present(p) : \A v \in Present(p) : u \notin Deps[v]}}

Edited(p) == {Restarted(p, Unsettled(p) \cup {t}) : t \in Present(p)}

Removed(p) ==
    {Restarted([p EXCEPT ![t] = "absent"], Unsettled(p) \cup {u \in Task : t \in Deps[u]}) :
        t \in {u \in Present(p) : Present(p) # {u}}}

NextPlans ==
    CASE ret = "idle"   -> Added(tasks[rev]) \cup Edited(tasks[rev]) \cup Removed(tasks[rev])
      [] ret = "editor" -> Draft
      [] OTHER          -> Added(tasks[rev])

ReviseCreate ==
    /\ pc = "revising"
    /\ \E p \in NextPlans :
         CreatePlan(p) /\ todo' = {t \in Task : p[t] = "COMPLETED"}
    /\ pc' = "carrying"
    /\ evid' = evid /\ active' = active /\ jrn' = jrn
    /\ cur' = cur /\ job' = job /\ focus' = focus /\ ret' = ret /\ base' = base
    /\ SameGoal /\ SameUser

\* Mutant of Caller: the editor has no return point of its own.
Mut_Caller == ret

\* Where revise_plan returns to.
Caller == IF ret = "editor" THEN "idle" ELSE ret

\* An exception reaches the user, or the coordinator as an error.
Unwound == IF ret \in {"idle", "editor"} THEN "idle" ELSE "turn"

Returned == ret' = "idle" /\ base' = "NEW" /\ SameCall /\ todo' = todo /\ focus' = focus

\* create_plan failed: the goal returns to the status revise_plan found.
ReviseRollback ==
    LET fallback == IF ret = "editor" \/ base \in {"AWAITING", "RUNNING", "PAUSED"}
                    THEN base ELSE "RUNNING"
    IN  /\ pc = "revising"
        /\ goal' = IF base # "REVISING" /\ GoalMay(goal, fallback) THEN fallback ELSE goal
        /\ pc' = Unwound
        /\ resume' = resume
        /\ Returned
        /\ SamePlans /\ SameTasks /\ jrn' = jrn /\ SameUser

\* Evidence of every earlier revision is copied as the harness's own: a
\* verified record stays verified, a user's word becomes prose.
CarriedLevel(t) ==
    IF \E r \in Revision : evid[r][t] = Proof THEN Proof
    ELSE IF \E r \in Revision : evid[r][t] # None THEN Prose ELSE None

ReviseCarry ==
    /\ pc = "carrying"
    /\ \E t \in todo : AddEvidence(rev, t, CarriedLevel(t)) /\ todo' = todo \ {t}
    /\ pc' = pc
    /\ tasks' = tasks /\ jrn' = jrn
    /\ cur' = cur /\ job' = job /\ focus' = focus /\ ret' = ret /\ base' = base
    /\ SameGoal /\ SamePlans /\ SameUser

ReviseEnd ==
    /\ pc = "carrying"
    /\ todo = {}
    /\ IF GoalMay(goal, "AWAITING")
       THEN goal' = "AWAITING" /\ pc' = Caller
       ELSE goal' = goal /\ pc' = Unwound
    /\ resume' = resume
    /\ Returned
    /\ SamePlans /\ SameTasks /\ jrn' = jrn /\ SameUser

-----------------------------------------------------------------------------
(* Uncertain work, crashes and restarts *)

\* The user (or the declared-footprint check) inspected the row.
Resolve ==
    /\ Up
    /\ goal \notin Terminal
    /\ \E e \in Entry : ResolveEntry(e)
    /\ pc' = pc
    /\ evid' = evid
    /\ SameGoal /\ SamePlans /\ SameWork /\ SameUser

Crash ==
    /\ "crash" \in Command /\ pc # "down"
    /\ Shock
    /\ pc' = "down"
    /\ cur' = NoEntry /\ job' = NoEntry /\ todo' = {} /\ focus' = NoTask
    /\ ret' = "idle" /\ base' = "NEW"
    /\ pauseReq' = pauseReq
    /\ SameStore

\* AgentRuntime.__init__: recover_inflight, ...
Restart ==
    /\ pc = "down"
    /\ RecoverInflight
    /\ goal' = RecoveredGoal
    /\ pc' = IF Open("running") = {} THEN "opening" ELSE "settling"
    /\ resume' = resume /\ evid' = evid
    /\ SamePlans /\ SameWork /\ SameUser

\* ... then, if something was recovered, an explicit pause, ...
RestartSettle ==
    /\ pc = "settling"
    /\ IF goal = "RECOVERING"
       THEN resume' = (IF active # 0 THEN "RUNNING" ELSE "DISCOVERING") /\ goal' = "PAUSED"
       ELSE SameGoal
    /\ pc' = "opening"
    /\ OnlyGoal /\ SameUser

\* ... then planning and review phases are normalised to a pause.
RestartOpen ==
    /\ pc = "opening"
    /\ IF goal \in {"DISCOVERING", "REVISING", "VERIFYING", "REVIEWING"}
       THEN /\ resume' = IF goal \in {"DISCOVERING", "REVISING"} THEN goal ELSE "RUNNING"
            /\ goal' = "PAUSED"
       ELSE SameGoal
    /\ pc' = "idle"
    /\ OnlyGoal /\ SameUser

-----------------------------------------------------------------------------

User_Next ==
    \/ Pause \/ RequestPause \/ CompletePause \/ StopNow \/ Interrupt
    \/ Resume \/ ResumePlanning \/ ResumeAwaiting \/ Cancel
    \/ Approve \/ Replan \/ UserTask \/ Resolve \/ Run

Worker_Next ==
    \/ StartGoal \/ PlanStored \/ PlanPublished \/ AutoApprove \/ PlanFailed \/ PlanUnwound
    \/ Activate \/ SliceEnd \/ TurnEnd \/ ProviderFailed \/ Call \/ CallRefused
    \/ ToolBegin \/ ToolDone \/ ToolAudited \/ ToolEscaped \/ ToolLost
    \/ TaskDone \/ TaskMoved \/ ResetBegin \/ ResetOne \/ ResetEnd
    \/ RequestUser \/ StrategyReplan \/ StrategyPlan \/ Delegate \/ DelegateReturn
    \/ FinishGoal \/ StartReview \/ ReviewPassed \/ ReviewInconclusive \/ ReviewError
    \/ RepairApprove \/ RepairAwaits
    \/ ReviseBegin \/ ReviseCreate \/ ReviseRollback \/ ReviseCarry \/ ReviseEnd

Process_Next == Crash \/ Restart \/ RestartSettle \/ RestartOpen

Next == User_Next \/ Worker_Next \/ Process_Next

Spec == Init /\ [][Next]_vars

-----------------------------------------------------------------------------
(* Properties *)

\* At most one revision is in force, it is the one the goal points to, and only
\* the newest revision can be awaiting approval (create_plan, approve_plan,
\* reject_plan under every interleaving of user and worker).
PlanAuthority ==
    /\ \A r \in Revision : plans[r] = "ACCEPTED" <=> r = active
    /\ \A r \in Revision : plans[r] = "PENDING" => r = rev

\* Whatever was paused, stopped, resumed or replanned meanwhile, a delegated
\* worker, or a tool of any but the planner, runs only under a plan that is
\* still accepted.
ExecutionAuthorised ==
    (cur # NoEntry /\ pc # "plan") \/ job # NoEntry => active # 0 /\ plans[active] = "ACCEPTED"

\* A goal is completed only with every task of the accepted plan closed, every
\* completed one backed by a verified or user record of that revision, and no
\* action or worker running or uncertain (_completion_precheck still holds at
\* the end of a review during which the user may pause, stop and resume).
CompletionGate ==
    goal = "COMPLETED" =>
        /\ active = rev /\ plans[rev] = "ACCEPTED"
        /\ \A t \in Present(tasks[rev]) :
             \/ tasks[rev][t] = "OBSOLETE"
             \/ tasks[rev][t] = "COMPLETED" /\ Authoritative(evid[rev][t])
        /\ Uncertain \cup Open("running") = {}

\* Between commands no task is started or finished before its prerequisites
\* are closed, across resets, revisions, stops and crashes.
Started == {"IN_PROGRESS", "COMPLETED", "UNCERTAIN"}
DepsClosed ==
    pc = "idle" /\ rev # 0 =>
        \A t \in Task : tasks[rev][t] \in Started => DepsDone(tasks[rev], t)

\* An action that became uncertain stays so until someone inspects it: no late
\* result, stop or restart changes it (complete_action, recover_inflight).
UncertainActionsInspected ==
    [][\A e \in Entry :
         (jrn[e].kind = "action" /\ jrn[e].status = "uncertain")
         => jrn'[e].status \in {"uncertain", "resolved"}]_vars

\* A superseded or rejected revision is history: nothing rewrites its tasks
\* or its evidence.
HistoryFrozen ==
    [][\A r \in Revision :
         plans[r] \in {"SUPERSEDED", "REJECTED"} => tasks'[r] = tasks[r] /\ evid'[r] = evid[r]]_vars

-----------------------------------------------------------------------------
(* What the documentation says and the code does not do; see the findings *)

\* "Goal paused safely; state is durable": only a user command or a restart
\* takes a goal out of PAUSED.
PauseHonoured == [][goal = "PAUSED" /\ Worker_Next => goal' = "PAUSED"]_vars

\* "cannot resume while crash-window work is uncertain": no work starts
\* while an uncertain action or worker is waiting for inspection.
NoWorkOverUncertain == [][Uncertain # {} => ~(pc = "idle" /\ pc' = "head")]_vars

=============================================================================
