------------------------------- MODULE UltraRun -------------------------------
(***************************************************************************)
(* One approved Ultra run of a goal: the orchestrator's thread and its     *)
(* node workers (ultra.py), the session that starts, restores and          *)
(* finalizes the run (ultra_session.py), the user's pause, resume, cancel  *)
(* and recovery commands on another thread (runtime.py), and the crash of  *)
(* the process at any point, followed by the steps of start-up recovery.   *)
(*                                                                         *)
(* Durable state is one goal row, one ultra_runs row, a work_nodes row and *)
(* the tool action rows per node, and one artifact per node in the         *)
(* workspace.  The content of an artifact is abstracted to what the gates  *)
(* know of it: the baseline of the user, a draft that some tool wrote, or  *)
(* the bytes the node's gates accepted.  A node's quality pipeline between *)
(* its first tool and its result package is the module UltraNode.          *)
(***************************************************************************)
EXTENDS Naturals, FiniteSets, GoalLifecycle

CONSTANTS
    Node,       \* work nodes of the approved master plan
    Deps,       \* depends_on of each node
    Created,    \* nodes whose artifact does not exist before the run
    MaxCrashes, \* bound on process crashes
    MaxOps,     \* bound on user commands
    MaxLost     \* bound on artifacts that disappear from outside

ASSUME DepsAssumption == Deps \in [Node -> SUBSET Node]
ASSUME CreatedAssumption == Created \subseteq Node
ASSUME BoundsAssumption == MaxCrashes \in Nat /\ MaxOps \in Nat /\ MaxLost \in Nat

VARIABLES
    goal,     \* goals.status
    waiting,  \* goals.metadata["waiting_question"] is set
    resume,   \* goals.metadata: where resume_status / resume_action lead
    rstat,    \* ultra_runs.status
    approved, \* ultra_runs.master_approved
    plan,     \* plans.status of the bound plan
    dst,      \* work_nodes.status
    res,      \* work_nodes.result_json
    act,      \* status of the node's mutating action row that still matters
    agents,   \* an agent_runs row outside a node is RUNNING
    art,      \* the node's artifact in the workspace
    proc,     \* the process: down, a step of start-up recovery, or up
    sess,     \* AgentRuntime.ultra_session: none, without engine, or live
    phase,    \* UltraOrchestrator.run_state.phase
    before,   \* UltraOrchestrator._phase_before_pause
    halt,     \* CooperativeControl._paused
    quit,     \* CooperativeControl._cancelled
    est,      \* status of the orchestrator's nodes
    thread,   \* where the run's background thread is
    gate,     \* which call of the global gate is next
    work,     \* where each node's worker is
    outc,     \* the scheduler's outcome of each node
    seen,     \* the goal status _finalize_result read
    final,    \* the phase in the UltraRunResult
    op,       \* where the user's command is
    ask,      \* the goal status that command read
    cut,      \* nodes whose tool a crash interrupted, not resolved since
    vouched,  \* nodes a restore took for completed although their bytes differ
    doubted,  \* nodes whose accepted bytes failed the checks of the last restore
    reviewed, \* the artifacts as the global gate saw them
    late,     \* a resume found the thread still running
    crashes, ops, lost

goalRow == <<goal, waiting, resume>>
runRow  == <<rstat, approved, plan>>
rows    == <<dst, res, act>>
engine  == <<phase, before, halt, quit>>
sched   == <<est, work, outc>>
fin     == <<seen, final>>
user    == <<op, ask>>
ghosts  == <<cut, vouched, doubted, reviewed, late>>
bounds  == <<crashes, ops, lost>>
vars    == <<goalRow, runRow, rows, agents, art, proc, sess, engine, sched, thread, gate, fin,
             user, ghosts, bounds>>

Phase ==
    {"AWAITING_APPROVAL", "EXPANDING", "MODULE_WAVES", "INTEGRATION", "GLOBAL_REVIEW",
     "FINAL_EVIDENCE", "REVISION_REQUIRED", "PAUSED", "CANCELLED", "FAILED", "COMPLETED"}

TerminalPhase == {"CANCELLED", "FAILED", "COMPLETED"}

NodeStatus ==
    {"PENDING", "READY", "IN_PROGRESS", "COMPLETED", "FAILED", "BLOCKED", "CANCELLED",
     "UNCERTAIN", "REVISION_REQUIRED"}

RunStatus ==
    {"awaiting_approval", "running", "paused", "revision_required", "cancelled", "blocked",
     "completed", "recovering"}

Content == {"absent", "baseline", "draft", "accepted"}

\* Threads that have ended, or were never started in this process.
Ended == {"none", "done"}

ThreadAt ==
    Ended \cup
    {"start", "expand", "waves", "wave", "collect", "gate", "call", "answer", "judge", "complete",
     "return", "fin_read", "fin_stop", "fin_verify", "fin_review", "fin_accept", "fin_accepted",
     "fin_undo", "fin_block", "fail"}

WorkAt == {"idle", "queued", "started", "tool", "mutated", "accepted"}

Boot == {"actions", "pause_goal", "nodes", "pause_run", "reconcile", "terminal", "transient"}

TypeOK ==
    /\ goal \in GoalStatus
    /\ waiting \in BOOLEAN
    /\ resume \in {"RUNNING", "REVISING", "AWAITING", "replan"}
    /\ rstat \in RunStatus
    /\ approved \in BOOLEAN
    /\ plan \in {"PENDING", "ACCEPTED"}
    /\ dst \in [Node -> NodeStatus]
    /\ res \in [Node -> {"none", "success", "failed", "revision"}]
    /\ act \in [Node -> {"none", "running", "uncertain"}]
    /\ agents \in BOOLEAN
    /\ art \in [Node -> Content]
    /\ proc \in {"down", "up"} \cup Boot
    /\ sess \in {"none", "empty", "live"}
    /\ phase \in Phase
    /\ before \in Phase \cup {"none"}
    /\ halt \in BOOLEAN
    /\ quit \in BOOLEAN
    /\ est \in [Node -> {"todo", "completed", "cancelled"}]
    /\ thread \in ThreadAt
    /\ gate \in 1 .. 3
    /\ work \in [Node -> WorkAt]
    /\ outc \in [Node -> {"none", "completed", "failed", "blocked", "cancelled", "uncertain",
                          "boundary"}]
    /\ seen \in GoalStatus
    /\ final \in Phase
    /\ op \in {"idle", "pause_check", "pause_save", "pause_goal", "resume_engine", "resume_phase",
               "restore", "ensure", "cancel_goal", "bind"}
    /\ ask \in GoalStatus
    /\ cut \in SUBSET Node
    /\ vouched \in SUBSET Node
    /\ doubted \in SUBSET Node
    /\ reviewed \in [Node -> Content]
    /\ late \in BOOLEAN
    /\ crashes \in 0 .. MaxCrashes
    /\ ops \in 0 .. MaxOps
    /\ lost \in 0 .. MaxLost

\* The run awaits approval: the foundation, the plan and its nodes are saved.
Init ==
    /\ goal = "AWAITING" /\ waiting = FALSE /\ resume = "RUNNING"
    /\ rstat = "awaiting_approval" /\ approved = FALSE /\ plan = "PENDING"
    /\ dst = [n \in Node |-> "PENDING"]
    /\ res = [n \in Node |-> "none"]
    /\ act = [n \in Node |-> "none"]
    /\ agents = FALSE
    /\ art = [n \in Node |-> IF n \in Created THEN "absent" ELSE "baseline"]
    /\ proc = "up" /\ sess = "live"
    /\ phase = "AWAITING_APPROVAL" /\ before = "none" /\ halt = FALSE /\ quit = FALSE
    /\ est = [n \in Node |-> "todo"]
    /\ thread = "none" /\ gate = 1
    /\ work = [n \in Node |-> "idle"]
    /\ outc = [n \in Node |-> "none"]
    /\ seen = "AWAITING" /\ final = "AWAITING_APPROVAL"
    /\ op = "idle" /\ ask = "AWAITING"
    /\ cut = {} /\ vouched = {} /\ doubted = {} /\ reviewed = art /\ late = FALSE
    /\ crashes = 0 /\ ops = 0 /\ lost = 0

-----------------------------------------------------------------------------
(* The engine's phases, and the control token checked at safe boundaries. *)

\* What may follow each phase, besides the interrupts.
PhaseGraph ==
    [AWAITING_APPROVAL |-> {"EXPANDING"},
     EXPANDING         |-> {"MODULE_WAVES"},
     MODULE_WAVES      |-> {"INTEGRATION"},
     INTEGRATION       |-> {"GLOBAL_REVIEW"},
     GLOBAL_REVIEW     |-> {"FINAL_EVIDENCE"},
     FINAL_EVIDENCE    |-> {"COMPLETED"},
     PAUSED            |-> Phase \ TerminalPhase,
     REVISION_REQUIRED |-> {"AWAITING_APPROVAL"},
     CANCELLED         |-> {},
     FAILED            |-> {},
     COMPLETED         |-> {}]

PhaseMay(from, to) ==
    \/ from = to
    \/ to \in {"PAUSED", "CANCELLED", "FAILED", "REVISION_REQUIRED"} /\ from \notin TerminalPhase
    \/ to \in PhaseGraph[from]

Mut_StatusOf(p) == IF p = "FAILED" THEN "failed" ELSE "running"

StatusOf(p) ==
    CASE p = "AWAITING_APPROVAL" -> "awaiting_approval"
      [] p = "PAUSED"            -> "paused"
      [] p = "REVISION_REQUIRED" -> "revision_required"
      [] p = "CANCELLED"         -> "cancelled"
      [] p = "FAILED"            -> "blocked"
      [] p = "COMPLETED"         -> "completed"
      [] OTHER                   -> "running"

SavePhase(p) == phase' = p /\ rstat' = StatusOf(p)

\* _set_phase on the run's thread: an illegal move raises out of run().
Enter(p, at) ==
    /\ IF PhaseMay(phase, p)
          THEN SavePhase(p) /\ thread' = at
          ELSE UNCHANGED <<phase, rstat>> /\ thread' = "fail"
    /\ UNCHANGED <<before, halt, quit, approved, plan>>

\* checkpoint() blocks while this holds, and raises once the run is cancelled.
Held == halt /\ ~quit

Alive == thread \notin Ended

Working == {n \in Node : work[n] # "idle"}

\* What the run's thread and its workers never touch.
EngineFrame == UNCHANGED <<proc, sess, user, bounds, cut, vouched, doubted, late>>

-----------------------------------------------------------------------------
(* UltraOrchestrator.run: expansion and module waves. *)

RunStart ==
    /\ thread = "start"
    /\ IF approved /\ phase = "AWAITING_APPROVAL"
          THEN Enter("EXPANDING", "expand")
          ELSE thread' = "fail" /\ UNCHANGED <<engine, runRow>>
    /\ agents' = TRUE
    /\ EngineFrame
    /\ UNCHANGED <<goalRow, rows, art, sched, gate, fin, reviewed>>

\* _ensure_expanded of every module: planner and decomposer calls, after which
\* a pending node is READY; a cancelled node is planned again unless it was
\* stopped after its decomposition.
Expand ==
    /\ thread = "expand" /\ ~Held /\ ~quit
    /\ \E again \in SUBSET {n \in Node : est[n] = "cancelled"} :
          /\ est' = [n \in Node |-> IF n \in again THEN "todo" ELSE est[n]]
          /\ dst' = [n \in Node |->
                       IF n \in again \/ (est[n] = "todo" /\ dst[n] = "PENDING")
                         THEN "READY" ELSE dst[n]]
    /\ agents' = FALSE
    /\ thread' = "waves"
    /\ EngineFrame
    /\ UNCHANGED <<goalRow, runRow, res, act, art, engine, work, outc, gate, fin, reviewed>>

\* ScopeRevisionRequired from the expansion.
ExpandRevises ==
    /\ thread = "expand" /\ ~Held /\ ~quit
    /\ Enter("REVISION_REQUIRED", "return")
    /\ agents' = FALSE
    /\ EngineFrame
    /\ UNCHANGED <<goalRow, rows, art, sched, gate, fin, reviewed>>

\* CancellationRequested from a checkpoint outside the workers.
RunCancelled ==
    /\ thread \in {"expand", "call"} /\ quit
    /\ Enter("CANCELLED", "return")
    /\ agents' = FALSE
    /\ EngineFrame
    /\ UNCHANGED <<goalRow, rows, art, sched, gate, fin, reviewed>>

\* A model call of the expansion or of the global gate raises; its agent row
\* may be left RUNNING.
RunFails ==
    /\ thread \in {"expand", "answer"}
    /\ thread' = "fail"
    /\ agents' \in BOOLEAN
    /\ EngineFrame
    /\ UNCHANGED <<goalRow, runRow, rows, art, engine, sched, gate, fin, reviewed>>

Todo == {n \in Node : est[n] = "todo"}

Pending == {n \in Todo : outc[n] = "none"}

\* MODULE_WAVES; uncertain nodes, and dependencies the schedule does not know,
\* raise.
EnterWaves ==
    /\ thread = "waves"
    /\ IF PhaseMay(phase, "MODULE_WAVES")
          THEN /\ SavePhase("MODULE_WAVES")
               /\ thread' = IF \E n \in Todo : \/ dst[n] = "UNCERTAIN"
                                               \/ \E d \in Deps[n] : est[d] = "cancelled"
                              THEN "fail" ELSE "wave"
          ELSE UNCHANGED <<phase, rstat>> /\ thread' = "fail"
    /\ UNCHANGED <<before, halt, quit, approved, plan>>
    /\ EngineFrame
    /\ UNCHANGED <<goalRow, rows, agents, art, sched, gate, fin, reviewed>>

Finished(n) == est[n] = "completed"

Mut_Doomed == {}

\* Pending nodes behind a dependency that ended without completing.
Doomed == {n \in Pending : \E d \in Deps[n] : outc[d] \notin {"none", "completed"}}

Mut_DropPending == UNCHANGED outc

DropPending == outc' = [n \in Node |-> IF n \in Pending THEN "cancelled" ELSE outc[n]]

\* One turn of WaveScheduler.run between waves.
StartWave ==
    /\ thread = "wave" /\ Working = {} /\ Pending # {}
    /\ \A n \in Node : outc[n] # "boundary"
    /\ ~Held
    /\ LET ready == {n \in Pending : \A d \in Deps[n] : Finished(d)}
       IN  \/ /\ quit
              /\ DropPending
              /\ UNCHANGED work
           \/ /\ ~quit /\ Doomed # {}
              /\ outc' = [n \in Node |-> IF n \in Doomed THEN "blocked" ELSE outc[n]]
              /\ UNCHANGED work
           \/ /\ ~quit /\ Doomed = {}
              /\ \E wave \in SUBSET ready \ {{}} :
                    work' = [n \in Node |-> IF n \in wave THEN "queued" ELSE work[n]]
              /\ UNCHANGED outc
    /\ EngineFrame
    /\ UNCHANGED <<goalRow, runRow, rows, agents, art, engine, est, thread, gate, fin, reviewed>>

\* A worker reached a tool approval boundary: run() leaves the schedule.
WaveBoundary ==
    /\ thread = "wave" /\ Working = {}
    /\ \E n \in Node : outc[n] = "boundary"
    /\ Enter("PAUSED", "return")
    /\ EngineFrame
    /\ UNCHANGED <<goalRow, rows, agents, art, sched, gate, fin, reviewed>>

EndWaves ==
    /\ thread = "wave" /\ Working = {} /\ Pending = {}
    /\ \A n \in Node : outc[n] # "boundary"
    /\ thread' = IF \A n \in Todo \cup {m \in Node : outc[m] # "none"} : outc[n] = "completed"
                   THEN "gate" ELSE "collect"
    /\ EngineFrame
    /\ UNCHANGED <<goalRow, runRow, rows, agents, art, engine, sched, gate, fin, reviewed>>

\* The statuses of what did not complete, and the phase the run ends in.
Collect ==
    /\ thread = "collect"
    /\ dst' = [n \in Node |->
                 CASE outc[n] = "failed"    -> "FAILED"
                   [] outc[n] = "blocked"   -> "BLOCKED"
                   [] outc[n] = "cancelled" -> "CANCELLED"
                   [] outc[n] = "uncertain" -> "UNCERTAIN"
                   [] OTHER                 -> dst[n]]
    /\ Enter(IF quit \/ \E n \in Node : outc[n] \in {"cancelled", "uncertain"} THEN "CANCELLED"
             ELSE IF \E n \in Node : res[n] = "revision" THEN "REVISION_REQUIRED"
             ELSE "FAILED", "return")
    /\ EngineFrame
    /\ UNCHANGED <<goalRow, res, act, agents, art, sched, gate, fin, reviewed>>

-----------------------------------------------------------------------------
(* _run_one and _execute_node of one node. *)

NodeFrame ==
    /\ EngineFrame
    /\ UNCHANGED <<runRow, agents, engine, thread, gate, fin, reviewed>>

End(n, o) ==
    /\ work' = [work EXCEPT ![n] = "idle"]
    /\ outc' = [outc EXCEPT ![n] = o]

Mut_DepsDurable(n) == TRUE

DepsDurable(n) == \A d \in Deps[n] : dst[d] = "COMPLETED"

\* The first checkpoint, then save_work_node(RUNNING), which the store refuses
\* while a dependency is not durably completed.
Begin(n) ==
    /\ work[n] = "queued" /\ ~Held
    /\ \/ /\ quit
          /\ End(n, "cancelled") /\ UNCHANGED dst
       \/ /\ ~quit /\ DepsDurable(n)
          /\ work' = [work EXCEPT ![n] = "started"]
          /\ dst' = [dst EXCEPT ![n] = "IN_PROGRESS"]
          /\ UNCHANGED outc
       \/ /\ ~quit /\ ~DepsDurable(n)
          /\ End(n, "failed") /\ UNCHANGED dst
    /\ NodeFrame
    /\ UNCHANGED <<goalRow, res, act, art, est>>

\* The calls of a node are interrupted only at their checkpoints.
NodeCancelled(n) ==
    /\ work[n] \in {"started", "mutated"} /\ quit
    /\ \E o \in {"cancelled", "uncertain"} : End(n, o)
    /\ NodeFrame
    /\ UNCHANGED <<goalRow, rows, art, est>>

ToolBegin(n) ==
    /\ work[n] = "started" /\ ~Held /\ ~quit
    /\ act' = [act EXCEPT ![n] = "running"]
    /\ work' = [work EXCEPT ![n] = "tool"]
    /\ NodeFrame
    /\ UNCHANGED <<goalRow, dst, res, art, est, outc>>

ToolEnd(n) ==
    /\ work[n] = "tool"
    /\ act' = [act EXCEPT ![n] = "none"]
    /\ art' = [art EXCEPT ![n] = "draft"]
    /\ work' = [work EXCEPT ![n] = "mutated"]
    /\ NodeFrame
    /\ UNCHANGED <<goalRow, dst, res, est, outc>>

\* The user does not grant a tool: the goal pauses and the worker unwinds.
ToolDenied(n) ==
    /\ work[n] \in {"started", "mutated"} /\ ~Held /\ ~quit
    /\ End(n, "boundary")
    /\ waiting' = TRUE
    /\ goal' = IF goal = "RUNNING" THEN "PAUSED" ELSE goal
    /\ NodeFrame
    /\ UNCHANGED <<resume, rows, art, est>>

\* save_result_package of a node whose gates passed on the artifact's bytes.
Accept(n) ==
    /\ work[n] \in {"started", "mutated"} /\ ~Held /\ ~quit /\ art[n] # "absent"
    /\ dst' = [dst EXCEPT ![n] = "COMPLETED"]
    /\ res' = [res EXCEPT ![n] = "success"]
    /\ art' = [art EXCEPT ![n] = "accepted"]
    /\ work' = [work EXCEPT ![n] = "accepted"]
    /\ NodeFrame
    /\ UNCHANGED <<goalRow, act, est, outc>>

\* A failed or revision_required package.
Reject(n) ==
    /\ work[n] \in {"started", "mutated"} /\ ~Held /\ ~quit
    /\ \/ /\ res' = [res EXCEPT ![n] = "failed"]
          /\ dst' = [dst EXCEPT ![n] = "FAILED"]
       \/ /\ res' = [res EXCEPT ![n] = "revision"]
          /\ dst' = [dst EXCEPT ![n] = "REVISION_REQUIRED"]
    /\ End(n, "failed")
    /\ NodeFrame
    /\ UNCHANGED <<goalRow, act, art, est>>

\* Any other exception of the worker, also one raised after its package was
\* saved, is the outcome FAILED.
NodeError(n) ==
    /\ work[n] \in {"started", "mutated", "accepted"}
    /\ End(n, "failed")
    /\ NodeFrame
    /\ UNCHANGED <<goalRow, rows, art, est>>

NodeDone(n) ==
    /\ work[n] = "accepted"
    /\ End(n, "completed")
    /\ est' = [est EXCEPT ![n] = "completed"]
    /\ NodeFrame
    /\ UNCHANGED <<goalRow, rows, art>>

-----------------------------------------------------------------------------
(* _global_gate and the end of run(). *)

GatePhase == <<"INTEGRATION", "GLOBAL_REVIEW", "FINAL_EVIDENCE">>

GateEnter ==
    /\ thread = "gate"
    /\ Enter(GatePhase[gate], "call")
    /\ EngineFrame
    /\ UNCHANGED <<goalRow, rows, agents, art, sched, gate, fin, reviewed>>

\* _invoke passes its checkpoint and records a RUNNING agent.
GateCall ==
    /\ thread = "call" /\ ~Held /\ ~quit
    /\ thread' = "answer"
    /\ agents' = TRUE
    /\ EngineFrame
    /\ UNCHANGED <<goalRow, runRow, rows, art, engine, sched, gate, fin, reviewed>>

\* The answer; "call" is the package of a single accepted module, which needs
\* no model.
GateAnswer ==
    /\ thread \in {"call", "answer"}
    /\ agents' = FALSE
    /\ thread' = IF gate = 3 THEN "judge" ELSE "gate"
    /\ gate' = IF gate = 3 THEN 3 ELSE gate + 1
    /\ EngineFrame
    /\ UNCHANGED <<goalRow, runRow, rows, art, engine, sched, fin, reviewed>>

\* The global result is saved; COMPLETED is first checked, then written.
JudgePasses ==
    /\ thread = "judge"
    /\ thread' = IF PhaseMay(phase, "COMPLETED") THEN "complete" ELSE "fail"
    /\ reviewed' = art
    /\ EngineFrame
    /\ UNCHANGED <<goalRow, runRow, rows, agents, art, engine, sched, gate, fin>>

JudgeRejects ==
    /\ thread = "judge"
    /\ Enter("REVISION_REQUIRED", "return")
    /\ EngineFrame
    /\ UNCHANGED <<goalRow, rows, agents, art, sched, gate, fin, reviewed>>

Complete ==
    /\ thread = "complete"
    /\ SavePhase("COMPLETED")
    /\ thread' = "return"
    /\ UNCHANGED <<before, halt, quit, approved, plan>>
    /\ EngineFrame
    /\ UNCHANGED <<goalRow, rows, agents, art, sched, gate, fin, reviewed>>

\* UltraRunResult takes run_state as it is now.
Return ==
    /\ thread = "return"
    /\ final' = phase
    /\ thread' = "fin_read"
    /\ EngineFrame
    /\ UNCHANGED <<goalRow, runRow, rows, agents, art, engine, sched, gate, seen, reviewed>>

-----------------------------------------------------------------------------
(* UltraSession._finalize_result and _record_engine_failure. *)

FinFrame ==
    /\ EngineFrame
    /\ UNCHANGED <<runRow, rows, agents, engine, sched, gate, reviewed>>

\* transition_goal: an illegal move raises into _record_engine_failure.
MoveGoal(to, at) ==
    IF GoalMay(goal, to) THEN goal' = to /\ thread' = at
                         ELSE goal' = goal /\ thread' = "fail"

\* Open findings or unreviewed change sets reject a successful run.
FinRead ==
    /\ thread = "fin_read"
    /\ seen' = goal
    /\ IF final = "COMPLETED"
          THEN thread' \in {"fin_verify", IF goal = "RUNNING" THEN "fin_undo" ELSE "done"}
          ELSE thread' = "fin_stop"
    /\ FinFrame
    /\ UNCHANGED <<goalRow, art, final>>

\* A run that did not complete.
FinStop ==
    /\ thread = "fin_stop"
    /\ \/ /\ final = "CANCELLED"
          /\ IF seen # "CANCELLED" THEN MoveGoal("CANCELLED", "done")
                                   ELSE goal' = goal /\ thread' = "done"
          /\ UNCHANGED waiting
       \/ /\ final = "REVISION_REQUIRED"
          /\ IF seen = "RUNNING" THEN MoveGoal("REVISING", "done")
                                 ELSE goal' = goal /\ thread' = "done"
          /\ waiting' = (waiting \/ thread' = "done")
       \/ /\ final \notin {"CANCELLED", "REVISION_REQUIRED"}
          /\ IF seen = "RUNNING" THEN MoveGoal("BLOCKED", "done")
                                 ELSE goal' = goal /\ thread' = "done"
          /\ UNCHANGED waiting
    /\ FinFrame
    /\ UNCHANGED <<resume, art, fin>>

FinVerify ==
    /\ thread = "fin_verify"
    /\ IF seen = "RUNNING" THEN MoveGoal("VERIFYING", "fin_review")
                           ELSE goal' = goal /\ thread' = "fin_review"
    /\ FinFrame
    /\ UNCHANGED <<waiting, resume, art, fin>>

FinReview ==
    /\ thread = "fin_review"
    /\ goal' = IF goal = "VERIFYING" THEN "REVIEWING" ELSE goal
    /\ thread' = "fin_accept"
    /\ FinFrame
    /\ UNCHANGED <<waiting, resume, art, fin>>

\* evaluate_final_acceptance, if the goal is still under review.
FinAccept ==
    /\ thread = "fin_accept"
    /\ IF goal = "REVIEWING" THEN thread' \in {"fin_accepted", "fin_undo"} ELSE thread' = "done"
    /\ FinFrame
    /\ UNCHANGED <<goalRow, art, fin>>

FinAccepted ==
    /\ thread = "fin_accepted"
    /\ MoveGoal("COMPLETED", "done")
    /\ FinFrame
    /\ UNCHANGED <<waiting, resume, art, fin>>

\* _rollback_rejected_changes: what the run created is removed, what it edited
\* gets its baseline back.
FinUndo ==
    /\ thread = "fin_undo"
    /\ art' = [n \in Node |-> IF n \in Created THEN "absent" ELSE "baseline"]
    /\ thread' = "fin_block"
    /\ FinFrame
    /\ UNCHANGED <<goalRow, fin>>

FinBlock ==
    /\ thread = "fin_block"
    /\ MoveGoal("BLOCKED", "done")
    /\ FinFrame
    /\ UNCHANGED <<waiting, resume, art, fin>>

Mut_EngineFails ==
    /\ thread = "fail" /\ thread' = "done"
    /\ FinFrame
    /\ UNCHANGED <<goalRow, art, fin>>

\* _record_engine_failure swallows a move it may not make.
EngineFails ==
    /\ thread = "fail"
    /\ goal' = IF goal # "CANCELLED" /\ GoalMay(goal, "BLOCKED") THEN "BLOCKED" ELSE goal
    /\ thread' = "done"
    /\ FinFrame
    /\ UNCHANGED <<waiting, resume, art, fin>>

-----------------------------------------------------------------------------
(* The user's commands (runtime.py), on another thread of the process. *)

UserFrame == UNCHANGED <<agents, art, proc, gate, fin, cut, doubted, reviewed, crashes, lost>>

Command == proc = "up" /\ op = "idle" /\ ops < MaxOps /\ ops' = ops + 1

ApproveUltra ==
    /\ Command
    /\ goal = "AWAITING" /\ sess = "live" /\ thread = "none" /\ phase = "AWAITING_APPROVAL"
    /\ plan = "PENDING" /\ plan' = "ACCEPTED"
    /\ goal' = "RUNNING"
    /\ op' = "bind"
    /\ UserFrame
    /\ UNCHANGED <<waiting, resume, rstat, approved, rows, sess, engine, sched, thread, ask, vouched,
                   late>>

\* approve_ultra_master, then the background thread starts.
BindMaster ==
    /\ op = "bind" /\ op' = "idle"
    /\ approved' = TRUE /\ rstat' = "running"
    /\ waiting' = FALSE
    /\ thread' = "start"
    /\ UserFrame
    /\ UNCHANGED <<goal, resume, plan, rows, sess, engine, sched, ask, vouched, late, ops>>

Running == sess = "live" /\ Alive

\* UltraOrchestrator.pause looks at the phase, then at the transition, then
\* writes; the goal row follows.
PauseAsk ==
    /\ Command
    /\ goal \notin Terminal \cup {"PAUSED"}
    /\ ask' = goal
    /\ IF ~Running \/ phase \in {"COMPLETED", "CANCELLED"}
         THEN op' = "pause_goal" /\ UNCHANGED <<before, halt>>
         ELSE IF phase = "PAUSED"
                THEN op' = "pause_goal" /\ halt' = (halt \/ ~quit) /\ UNCHANGED before
                ELSE op' = "pause_check" /\ before' = phase /\ UNCHANGED halt
    /\ UserFrame
    /\ UNCHANGED <<goalRow, runRow, rows, sess, phase, quit, sched, thread, vouched, late>>

PauseCheck ==
    /\ op = "pause_check"
    /\ op' = IF PhaseMay(phase, "PAUSED") THEN "pause_save" ELSE "idle"
    /\ UserFrame
    /\ UNCHANGED <<goalRow, runRow, rows, sess, engine, sched, thread, ask, vouched, late, ops>>

PauseSave ==
    /\ op = "pause_save" /\ op' = "pause_goal"
    /\ SavePhase("PAUSED")
    /\ halt' = (halt \/ ~quit)
    /\ UserFrame
    /\ UNCHANGED <<goalRow, approved, plan, rows, sess, before, quit, sched, thread, ask, vouched,
                   late, ops>>

PauseGoal ==
    /\ op = "pause_goal" /\ op' = "idle"
    /\ resume' = IF ask \in {"REVISING", "AWAITING"} THEN ask ELSE "RUNNING"
    /\ goal' = IF GoalMay(goal, "PAUSED") THEN "PAUSED" ELSE goal
    /\ UserFrame
    /\ UNCHANGED <<waiting, runRow, rows, sess, engine, sched, thread, ask, vouched, late, ops>>

\* A failed goal whose run can be rebuilt may be resumed without a pause.
Resumable ==
    \/ goal = "PAUSED" /\ resume # "replan"
    \/ goal = "BLOCKED" /\ ~waiting /\ rstat \in {"running", "recovering", "blocked", "completed"}

Unresolved == \E n \in Node : dst[n] = "UNCERTAIN" \/ act[n] = "uncertain"

Resume ==
    /\ Command
    /\ Resumable /\ ~Unresolved
    /\ goal' = IF goal = "BLOCKED" THEN "RUNNING" ELSE resume
    /\ waiting' = FALSE
    /\ late' = (late \/ Running)
    /\ op' = IF Running THEN "resume_engine" ELSE "restore"
    /\ UserFrame
    /\ UNCHANGED <<resume, runRow, rows, sess, engine, sched, thread, ask, vouched>>

ResumeEngine ==
    /\ op = "resume_engine"
    /\ IF phase = "PAUSED" /\ before # "none"
         THEN op' = "resume_phase" /\ UNCHANGED halt
         ELSE op' = "idle" /\ halt' = FALSE
    /\ UserFrame
    /\ UNCHANGED <<goalRow, runRow, rows, sess, phase, before, quit, sched, thread, ask, vouched,
                   late, ops>>

\* The phase of before the pause comes back, unless the run moved on meanwhile.
ResumePhase ==
    /\ op = "resume_phase" /\ op' = "idle"
    /\ IF PhaseMay(phase, before) THEN SavePhase(before) /\ halt' = FALSE
                                  ELSE UNCHANGED <<phase, rstat, halt>>
    /\ before' = "none"
    /\ UserFrame
    /\ UNCHANGED <<goalRow, approved, plan, rows, sess, quit, sched, thread, ask, vouched, late, ops>>

\* The main loop, or an approval after a restart, needs the engine.
EnsureSession ==
    /\ Command
    /\ goal \in {"RUNNING", "AWAITING"} /\ sess = "none"
    /\ op' = "ensure"
    /\ UserFrame
    /\ UNCHANGED <<goalRow, runRow, rows, sess, engine, sched, thread, ask, vouched, late>>

Mut_Missing == {}

Missing == {n \in Node : dst[n] = "COMPLETED" /\ art[n] = "absent"}

\* The evidence of a completed node is void when its artifact is missing.
Reopened == [n \in Node |-> IF n \in Missing THEN "READY" ELSE dst[n]]

Refused ==
    \/ \E n \in Node : Reopened[n] = "UNCERTAIN" \/ act[n] = "uncertain"
    \/ ~approved /\ (rstat # "awaiting_approval" \/ plan # "PENDING")

Mut_Proven(valid) == {}

\* A stored success whose artifact passes the static checks and its own tests
\* counts as completed; the checks do not compare content with what was
\* accepted, and accepted bytes may fail them.
Proven(valid) == {n \in Node \ Missing : res[n] = "success" /\ n \in valid}

Restored(valid) ==
    [n \in Node |-> IF n \in Proven(valid) \/ Reopened[n] = "COMPLETED" THEN "completed"
                    ELSE IF Reopened[n] = "CANCELLED" THEN "cancelled" ELSE "todo"]

\* UltraSession.restore, for a resume or for the main loop.
RestoreFails ==
    /\ op \in {"restore", "ensure"} /\ Refused
    /\ op' = "idle"
    /\ sess' = "empty"
    /\ thread' = "none"
    /\ dst' = Reopened
    /\ goal' = IF op = "restore" /\ goal = "RUNNING" THEN "PAUSED" ELSE goal
    /\ UserFrame
    /\ UNCHANGED <<waiting, resume, runRow, res, act, engine, sched, ask, vouched, late, ops>>

Restore ==
    /\ op \in {"restore", "ensure"} /\ ~Refused
    /\ op' = "idle"
    /\ sess' = "live"
    /\ dst' = Reopened
    /\ phase' = "AWAITING_APPROVAL" /\ before' = "none" /\ halt' = FALSE /\ quit' = FALSE
    /\ \E valid \in SUBSET {n \in Node : art[n] # "absent"} :
          /\ est' = Restored(valid)
          /\ doubted' = {n \in Node \ valid : res[n] = "success" /\ art[n] = "accepted"}
          /\ vouched' = {n \in Node : Restored(valid)[n] = "completed" /\ art[n] # "accepted"}
    /\ work' = [n \in Node |-> "idle"] /\ outc' = [n \in Node |-> "none"]
    /\ IF approved THEN thread' = "start" /\ rstat' = "running"
                   ELSE thread' = "none" /\ UNCHANGED rstat
    /\ gate' = 1
    /\ late' = FALSE
    /\ UNCHANGED <<goalRow, approved, plan, res, act, agents, art, proc, fin, ask, cut, reviewed,
                   bounds>>

\* A session without engine refuses to cancel.
CancelAsk ==
    /\ Command
    /\ goal \notin Terminal /\ sess # "empty"
    /\ op' = "cancel_goal"
    /\ IF Running
         THEN quit' = TRUE /\ halt' = FALSE /\ UNCHANGED <<phase, rstat>>
         ELSE /\ UNCHANGED <<quit, halt>>
              /\ IF sess = "live" /\ phase \notin TerminalPhase
                   THEN SavePhase("CANCELLED") ELSE UNCHANGED <<phase, rstat>>
    /\ UserFrame
    /\ UNCHANGED <<goalRow, approved, plan, rows, sess, before, sched, thread, ask, vouched, late>>

CancelGoal ==
    /\ op = "cancel_goal" /\ op' = "idle"
    /\ goal' = IF GoalMay(goal, "CANCELLED") THEN "CANCELLED" ELSE goal
    /\ UserFrame
    /\ UNCHANGED <<waiting, resume, runRow, rows, sess, engine, sched, thread, ask, vouched, late, ops>>

\* resolve_action on a node: applied, or not run.
ResolveNode(n) ==
    /\ proc = "up" /\ op = "idle" /\ goal \notin Terminal
    /\ dst[n] = "UNCERTAIN"
    /\ \/ /\ dst' = [dst EXCEPT ![n] = "COMPLETED"]
          /\ res' = [res EXCEPT ![n] = "success"]
       \/ /\ dst' = [dst EXCEPT ![n] = "PENDING"]
          /\ UNCHANGED res
    /\ UserFrame
    /\ UNCHANGED <<goalRow, runRow, act, sess, engine, sched, thread, user, vouched, late, ops>>

ResolveAction(n) ==
    /\ proc = "up" /\ op = "idle" /\ goal \notin Terminal
    /\ act[n] = "uncertain"
    /\ act' = [act EXCEPT ![n] = "none"]
    /\ cut' = cut \ {n}
    /\ UNCHANGED <<goalRow, runRow, dst, res, agents, art, proc, sess, engine, sched, thread, gate,
                   fin, user, vouched, doubted, reviewed, late, bounds>>

\* converge_ultra stops at a verification or strategy boundary; the replan it
\* may start instead is a new run.
ConvergeBoundary ==
    /\ proc = "up" /\ op = "idle"
    /\ thread = "done" /\ final = "REVISION_REQUIRED" /\ goal = "REVISING"
    /\ goal' = "PAUSED" /\ waiting' = TRUE
    /\ resume' \in {resume, "replan"}
    /\ UserFrame
    /\ UNCHANGED <<runRow, rows, sess, engine, sched, thread, user, vouched, late, ops>>

-----------------------------------------------------------------------------
(* Crash, the environment, and AgentRuntime.__init__'s recovery. *)

\* A tool that was running may or may not have written its artifact.
Crash ==
    /\ proc # "down" /\ crashes < MaxCrashes
    /\ crashes' = crashes + 1
    /\ proc' = "down"
    /\ \E wrote \in SUBSET {n \in Node : work[n] = "tool"} :
          art' = [n \in Node |-> IF n \in wrote THEN "draft" ELSE art[n]]
    /\ cut' = cut \cup {n \in Node : work[n] = "tool"}
    /\ sess' = "none" /\ thread' = "none" /\ gate' = 1
    /\ phase' = "AWAITING_APPROVAL" /\ before' = "none" /\ halt' = FALSE /\ quit' = FALSE
    /\ est' = [n \in Node |-> "todo"]
    /\ work' = [n \in Node |-> "idle"]
    /\ outc' = [n \in Node |-> "none"]
    /\ seen' = "AWAITING" /\ final' = "AWAITING_APPROVAL"
    /\ op' = "idle" /\ ask' = "AWAITING"
    /\ vouched' = {} /\ doubted' = {} /\ late' = FALSE
    /\ UNCHANGED <<goalRow, runRow, rows, agents, reviewed, ops, lost>>

\* An accepted file is deleted from outside while no run is active.
LoseArtifact(n) ==
    /\ ~Alive /\ op = "idle" /\ goal \notin Terminal
    /\ lost < MaxLost /\ lost' = lost + 1
    /\ art[n] = "accepted"
    /\ art' = [art EXCEPT ![n] = "absent"]
    /\ UNCHANGED <<goalRow, runRow, rows, agents, proc, sess, engine, sched, thread, gate, fin, user,
                   ghosts, crashes, ops>>

BootFrame ==
    UNCHANGED <<approved, plan, res, art, sess, engine, sched, thread, gate, fin, user, ghosts, bounds>>

Restart ==
    /\ proc = "down" /\ proc' = "actions"
    /\ BootFrame /\ UNCHANGED <<goalRow, rstat, dst, act, agents>>

Mut_Interrupted == {}

Interrupted == {n \in Node : act[n] = "running"}

\* recover_inflight: a running action is uncertain, its goal recovers.
RecoverActions ==
    /\ proc = "actions"
    /\ LET moved == IF Interrupted # {} /\ GoalMay(goal, "RECOVERING") THEN "RECOVERING" ELSE goal
       IN  /\ act' = [n \in Node |-> IF n \in Interrupted THEN "uncertain" ELSE act[n]]
           /\ goal' = moved
           /\ proc' = IF Interrupted # {} /\ moved = "RECOVERING" THEN "pause_goal" ELSE "nodes"
    /\ BootFrame /\ UNCHANGED <<waiting, resume, rstat, dst, agents>>

RecoverPauses ==
    /\ proc = "pause_goal" /\ proc' = "nodes"
    /\ goal' = "PAUSED" /\ waiting' = TRUE
    /\ resume' = IF plan = "ACCEPTED" THEN "RUNNING" ELSE resume
    /\ BootFrame /\ UNCHANGED <<rstat, dst, act, agents>>

\* recover_ultra_inflight: nodes in progress are uncertain, the run recovers.
RecoverNodes ==
    /\ proc = "nodes"
    /\ LET torn == {n \in Node : dst[n] = "IN_PROGRESS"}
           some == torn # {} \/ agents
       IN  /\ dst' = [n \in Node |-> IF n \in torn THEN "UNCERTAIN" ELSE dst[n]]
           /\ rstat' = IF some /\ rstat \notin {"completed", "cancelled"} THEN "recovering" ELSE rstat
           /\ proc' = IF some THEN "pause_run" ELSE "reconcile"
    /\ agents' = FALSE
    /\ BootFrame /\ UNCHANGED <<goalRow, act>>

RecoverRun ==
    /\ proc = "pause_run" /\ proc' = "reconcile"
    /\ waiting' = TRUE /\ resume' = "RUNNING"
    /\ goal' = IF goal = "RUNNING" THEN "PAUSED" ELSE goal
    /\ BootFrame /\ UNCHANGED <<rstat, dst, act, agents>>

\* Uncertain nodes without an unfinished mutation.
ReadOnly == {n \in Node : dst[n] = "UNCERTAIN" /\ act[n] = "none"}

\* _auto_reconcile_read_only_ultra_uncertainty.
Reconcile ==
    /\ proc = "reconcile" /\ proc' = "terminal"
    /\ IF goal \notin Terminal /\ ReadOnly # {}
         THEN /\ dst' = [n \in Node |-> IF n \in ReadOnly THEN "PENDING" ELSE dst[n]]
              /\ waiting' = TRUE /\ resume' = "RUNNING"
         ELSE UNCHANGED <<dst, waiting, resume>>
    /\ BootFrame /\ UNCHANGED <<goal, rstat, act, agents>>

\* _reconcile_terminal_ultra_failure.
ReconcileTerminal ==
    /\ proc = "terminal" /\ proc' = "transient"
    /\ IF goal \in {"RUNNING", "VERIFYING", "REVIEWING", "RECOVERING"}
         THEN \/ /\ rstat = "blocked"
                 /\ goal' = "BLOCKED" /\ waiting' = FALSE /\ resume' = "RUNNING"
              \/ /\ rstat = "revision_required"
                 /\ goal' = "PAUSED"
                 /\ \/ waiting' = TRUE /\ resume' = "RUNNING"
                    \/ waiting' = FALSE /\ resume' = "replan"
              \/ /\ rstat \notin {"blocked", "revision_required"}
                 /\ UNCHANGED goalRow
         ELSE UNCHANGED goalRow
    /\ BootFrame /\ UNCHANGED <<rstat, dst, act, agents>>

\* A planning or review phase does not survive its process.
PauseTransient ==
    /\ proc = "transient" /\ proc' = "up"
    /\ IF goal \in {"REVISING", "VERIFYING", "REVIEWING"}
         THEN /\ goal' = "PAUSED" /\ waiting' = TRUE
              /\ resume' = IF goal = "REVISING" THEN "REVISING" ELSE "RUNNING"
         ELSE UNCHANGED goalRow
    /\ BootFrame /\ UNCHANGED <<rstat, dst, act, agents>>

-----------------------------------------------------------------------------

EngineStep ==
    \/ RunStart \/ Expand \/ ExpandRevises \/ RunCancelled \/ RunFails
    \/ EnterWaves \/ StartWave \/ WaveBoundary \/ EndWaves \/ Collect
    \/ GateEnter \/ GateCall \/ GateAnswer \/ JudgePasses \/ JudgeRejects \/ Complete \/ Return
    \/ FinRead \/ FinStop \/ FinVerify \/ FinReview \/ FinAccept \/ FinAccepted \/ FinUndo \/ FinBlock
    \/ EngineFails

NodeStep(n) ==
    \/ Begin(n) \/ NodeCancelled(n) \/ ToolBegin(n) \/ ToolEnd(n) \/ ToolDenied(n)
    \/ Accept(n) \/ Reject(n) \/ NodeError(n) \/ NodeDone(n)

\* The rest of a command the user gave.
OpStep ==
    \/ BindMaster \/ PauseCheck \/ PauseSave \/ PauseGoal \/ ResumeEngine \/ ResumePhase
    \/ Restore \/ RestoreFails \/ CancelGoal

BootStep ==
    \/ Restart \/ RecoverActions \/ RecoverPauses \/ RecoverNodes \/ RecoverRun
    \/ Reconcile \/ ReconcileTerminal \/ PauseTransient

UserStep ==
    \/ ApproveUltra \/ PauseAsk \/ Resume \/ EnsureSession \/ CancelAsk \/ ConvergeBoundary
    \/ \E n \in Node : ResolveNode(n) \/ ResolveAction(n)

Next ==
    \/ EngineStep \/ OpStep \/ BootStep \/ UserStep \/ Crash
    \/ \E n \in Node : NodeStep(n) \/ LoseArtifact(n)

\* The run's threads and the command in progress keep going; model calls and
\* tools return.  The user and the crashes owe nothing.
Spec ==
    /\ Init /\ [][Next]_vars
    /\ WF_vars(EngineStep \/ \E n \in Node : NodeStep(n))
    /\ WF_vars(OpStep)
    /\ WF_vars(BootStep)

-----------------------------------------------------------------------------
(* Properties *)

\* A goal completes only through an approved run, with every node that no
\* cancel dropped accepted, and with the workspace the global gate reviewed.
\* An artifact whose bytes no gate of this run saw is there because a restore
\* vouched for it (restore checks a stored success against the file's syntax
\* and tests, not its content), never a missing one.
CompletedHonestly ==
    [][goal' = "COMPLETED" /\ goal # "COMPLETED" =>
         /\ approved
         /\ reviewed = art
         /\ \A n \in Node :
               \/ est[n] = "cancelled"
               \/ /\ res[n] = "success"
                  /\ art[n] = "accepted" \/ (n \in vouched /\ art[n] # "absent")]_vars

\* "Retry resumes unfinished branches without replaying accepted mutations":
\* a node whose package is a success and whose accepted artifact is in place is
\* started again only if the restore of this run checked that artifact anew and
\* the checks failed, whatever failed or crashed after the package was saved.
AcceptedNotReplayed ==
    [][\A n \in Node :
         work[n] = "queued" /\ work'[n] = "started" /\ res[n] = "success" /\ art[n] = "accepted" =>
             n \in doubted]_vars

\* Nothing is replayed automatically: a node whose tool a crash cut off does
\* not run again before the user resolved that action (resolve_action), also
\* when a second crash interrupted recovery between its transactions.
CutWorkWaits == \A n \in cut : work[n] = "idle"

\* A durable goal does not claim RUNNING after its engine ended: only a resume
\* that met the thread still finishing can leave it there.
RunningIsOwned ==
    proc = "up" /\ op = "idle" /\ goal = "RUNNING" /\ thread = "done" => late

\* Nobody runs ahead of a dependency: while a node works, what it depends on
\* is durably completed and stays so.
DependenciesHold ==
    \A n \in Node : work[n] \notin {"idle", "queued"} => \A d \in Deps[n] : dst[d] = "COMPLETED"

\* A cancelled run stops, also when it was waiting in a pause.
CancelStops == quit ~> ~Alive

\* A run that is not held ends: no worker, gate or wave waits for another.
RunEnds == Alive ~> (~Alive \/ halt)

=============================================================================
