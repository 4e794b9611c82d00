# A TLA+ verification of the coding agent

`src/agent` is a plan-first coding agent: a deterministic harness around model
calls whose state lives in SQLite, so that a goal survives pauses, stops, crashes
and several launchers. This directory models the control core of that harness,
model-checks it with TLC on small instances and proves its central properties
with TLAPS for instances of any size.

`PROJECT.json` lists the components, the runs, the mutants (one plausible bug per
property, each of which TLC must catch), the source lines behind every definition,
the findings, the hazards and the theorems.

## The system

| Component | State | Operations | Interacts with | Hard behaviour | Correct when |
| --- | --- | --- | --- | --- | --- |
| session ownership (`session_owner.py`, `cli.py`) | OS lock, sidecar file, released flag, heartbeat thread | acquire, attach, heartbeat, publish endpoint, release, switch session | other launchers, runtime start-up | launchers side by side, a crash at any point, a heartbeat racing the release | one controlling runtime per session; the sidecar names the lock holder or a dead process |
| execution lease (`runtime.py`) | lease in the session row | claim, heartbeat, release, close | session store, recovery | read and write are two transactions | live work of another process is not recovered |
| goal store (`models.py`, `store.py`) | goals, plans, tasks, evidence, actions, delegations | one transaction per operation, transition tables | runtime, recovery | every caller composes several transactions | one revision in force, history immutable, uncertain rows wait for an inspection |
| goal runtime (`runtime.py`, `workflow.py`) | where the worker thread is; pause request; resume status | plan, approve, reject, slice, tool, delegate, task control, revise, review, pause, stop, resume, cancel, resolve, restart | store, user's thread, model | user commands between any two transactions of the worker; late results after a stop; crashes inside multi-transaction steps | work only under an accepted plan; completion only through the gate; dependencies respected |
| wave scheduler (`scheduler.py`) | outcomes, wave, threads, leases, adaptive limit, cooperative control | choose a wave, run a node, retry, report, pause, resume, cancel | pool threads, Ultra workers | retries while neighbours write; a limit that moves during a wave; a user boundary in one thread | no two overlapping writers; outcomes explained by dependencies; the run ends |
| prompt queue (`store.py`, `cli.py`, `web_views/service.py`) | queued rows with sequence, goal, claim time; the pump's locals; the work thread | enqueue, reorder, claim, bind, finish, block, put back, submit, cancel | terminal loop, web thread, goals, any process that opens the store | a claim surviving its process; the pump reads and writes in several transactions | served in order, settled honestly, run once |
| durable leases and work nodes (`store.py`) | lease rows with expiry, node statuses | acquire, renew, release, expire | Ultra session, scheduler | expiry while the worker still writes | one live owner per path |
| mutation journal and path claims (`store.py`, `runtime.py`) | before and after images, claims | begin, finish, audit, release | tools, recovery | a stop in the middle of a mutating tool | every mutation is accounted for |
| workflow session record (`store.py`) | versioned session row | compare-and-set | CLI, web views, lease | two writers of one version | no lost update |
| Ultra run (`ultra.py`, `ultra_session.py`, `runtime.py`, `store.py`) | goal row, run row, node rows, action rows, artifacts; phase, control flags, thread | approve, expand, waves, global gate, finalize, pause, resume, cancel, restore, recover, resolve | scheduler, store, user's thread, start-up | commands and crashes between any two writes of the run's thread; recovery that is itself interrupted | accepted work is not replayed; a cut-off tool is inspected; COMPLETED is honest; no running goal without an owner |
| Ultra node pipeline (`ultra.py`) | position, repair counters, gate, result package | produce, harness gates, review, three repair loops, publish, retry | reviewers, consensus round, Ultra run | a repair invalidates evidence; failures the harness owns; retries | only accepted bytes complete; the coder rewrites only what the product got wrong; it ends |
| quality consensus (`ultra_session.py`, `swarm_coordinator.py`, `store.py`) | round, votes | open, vote, tally | node pipeline | a tally after every vote | decides from every decisive vote |
| bounded actions (`action_workflow.py`) | phase of one action | open, act, verify, publish | tools | out-of-order tool results | phases follow the contract |
| managed processes (`tools/process_manager.py`) | child processes, bounded logs | start, poll, stop | tools, shutdown | exit racing stop | no orphan |
| event bus (`events.py`) | subscribers, bounded queues | emit, subscribe | UI | a slow reader | order kept |
| everything else | | | | rendering, HTTP, providers, prompts, indexing | see "Not modelled" |

The user's commands reach the runtime from the terminal thread or from the HTTP
thread of the web views while the worker thread is inside a slice. The runtime
takes no lock around a slice: the only atomic unit is the store transaction. That
is why every action of `GoalRuntime`, `UltraRun` and `PromptQueue` ends at a
transaction, and commands interleave with the worker between its transactions. Not
every command is possible everywhere: several need an idle worker, as in the code, and
`UltraRun` takes one command at a time, whose own transactions then interleave with
the run's.

## Modules

| Module | Models | Extends |
| --- | --- | --- |
| `SessionOwnership` | launchers, lock, sidecar, runtime start-up, lease, recovery | |
| `SessionOwnershipProofs` | its theorems | `SessionOwnership` |
| `GoalStore` | the store's transactions on one goal and the transition tables | |
| `GoalRuntime` | the worker, the user and the process over `GoalStore` | `GoalStore` |
| `GoalRuntimeProofs` | its theorems | `GoalRuntime` |
| `GoalDependencyProofs` | the proof that no task runs ahead of its prerequisites | `GoalRuntimeProofs` |
| `DagExecution` | abstract: what running a dependency graph promises | |
| `WaveScheduler` | detailed: one `DeterministicWaveScheduler.run`; instantiates `DagExecution` through `Seen` | |
| `WaveSchedulerProofs` | its theorems, including the refinement | `WaveScheduler` |
| `PromptLine` | abstract: a bounded line served from the front | |
| `PromptQueue` | detailed: rows, pump, work thread, web and openings of the store; instantiates `PromptLine` | |
| `PromptQueueProofs` | its theorems | `PromptQueue` |
| `PromptLineProofs` | the refinement: ranks of a finite set, and `PromptQueue` as a line | `PromptQueueProofs` |
| `GoalLifecycle` | goal statuses and the transition table, shared | |
| `UltraRun` | one approved Ultra run with its user, its crashes and its recovery | `GoalLifecycle` |
| `UltraRunProofs` | its theorems | `UltraRun` |
| `QualityRound` | one consensus round of a quality gate | |
| `UltraNode` | `_execute_node`: one node's quality pipeline around `QualityRound` | `QualityRound` |
| `UltraNodeProofs` | its theorems | `UltraNode` |
| `MC*` | the instances TLC checks | the module named |

### SessionOwnership

`Proc` is a set of process incarnations, launched once each; a restart is another
member. Per process: its position `pc`, the session it locked (`home`) and the one
its runtime controls (`sess`), which differ after a session switch, and whether a
live lease of somebody else was seen (`foreign`). Per session: lock, sidecar,
session row, lease. `action` is the action of each process in the shared journal.

`acquire`, `_write_info`, the heartbeat, `set_web_endpoint` and the two halves of
`release` are actions of their own, because a crash or another launcher can come
between them. The lease check and the lease write are separate (`ClaimCheck`,
`ClaimWrite`) because the code reads in one transaction and writes in another.
All processes share one host and PIDs are not reused, so `_process_is_alive`
decides whether a lease is live and the expiry never has to. The unlink of the
sidecar is taken to succeed; other writes of it may be skipped, as in the code.

`RecoveredBeforeWork` is about the step that start-up may skip: a runtime that takes its
session's lease for a live one does not recover, so a lease judged wrongly lets it work
beside a row nobody is carrying out. `RecoveredByOtherHome` says who can misjudge live
work.

### GoalStore and GoalRuntime

`GoalStore` has one operator per transaction. A task keeps its identity and its
dependencies across revisions and a plan is a function from tasks to statuses,
"absent" for tasks outside it. Evidence is the strongest record of a task in a
revision: none, prose written by a model, the word of the user, a verified record.
Journal rows are those whose status somebody reads; a finished row's slot is used
again, so `Entry` bounds rows that matter at once, not actions.

`GoalRuntime` adds the worker's position `pc` (the comment above `Step` says which
function each value is in), the rows of the tool (`cur`) and of the delegation
(`job`) that are executing, and the locals of the functions that take several
transactions: `todo` and `focus` for `_reset_dependants` and the evidence carry of
`revise_plan`, `base` for its rollback, `ret` for who called. What a model answers
is nondeterministic within what `control.py` lets through.

Left out: nested delegation; the statuses READY, VERIFYING, FAILED and CANCELLED of a
task, which this path never writes; `parent_id`; edits of `depends_on` within a
revision; the BLOCKED and Ultra branches; enrichment of legacy plans; visual
acceptance and `quality_state`, also where `_completion_precheck` reads them, so that the
model's gate opens in more states than the code's; the cap of ten carried evidence rows per
task. `create_delegation` and the status change after it are one step: a crash between
them leaves a PENDING delegation row, which neither recovery nor the gate reads. The automatic
reconciliation of an uncertain row by its declared footprint is `Resolve`.

### DagExecution and WaveScheduler

`WaveScheduler` has the controller loop (`LoopCancelled`, `LoopBlock`,
`LoopCycle`, `StartWave`, `JoinWave`, `LoopReturn`), one pool thread per node of
the wave (`GateCancelled`, `Acquire`, `Refused`, the four ends of a worker, whose own error may
also be a lease conflict or a stale write), the
model calls that move the adaptive limit (`ModelCall`), and the user (`Pause`,
`Resume`, `Cancel`). `scopes_overlap` is a symmetric relation between nodes
(`Clash`). Lease expiry, which the scheduler never asks for, `mutating_shell` and
`BackgroundRunController` are left out.

`DagExecution` knows nothing of waves, threads or leases: a node starts when
everything it depends on has completed and nothing that overlaps it runs. The
mapping `Seen` shows a node as running while its thread is in the worker, with its
thread's result as soon as that is known, otherwise with its outcome.

### PromptLine and PromptQueue

One action per transaction of the queue, and per step of the terminal's loop that
reads what another thread may change: `Join`, `SyncList`, `SyncItem`,
`bind_prompt_goal`, `SyncFinish`, `SyncGuard`, `claim_next_prompt`, `StartPrompt` and
`BlockPrompt` are `sync_durable_queue`. `WebSubmit`, the enqueueing, the reordering
and the cancels come from the web thread at any time. `OpenStore` is the statement in
`StateStore._initialize` that puts unbound running prompts back; a restart of the
terminal executes it, and so does every other process that opens the database.

Goals are numbered in creation order, so `created_at >= started_at` is a comparison of
numbers. Prompts are taken to have distinct texts. `PromptLine` is what a user may
rely on: prompts are served from the front, one at a time, nothing overtakes and
nothing that left comes back; `ImplementsLine` shows the rows, ordered by sequence,
to be such a line. The rows have numbers with gaps and no positions, so the mapping
`Listed` puts each live prompt at its rank, the number of live rows up to it; the line
serves the running prompt (`InService`), knows which prompts are blocked (`Stuck`) and
remembers which have ever begun (`Begun`), those an opening put back included.

### UltraRun

Durable state is the goal row, the run row, one row per node with its result package,
the action row of the node's tool, and the node's artifact. An artifact is what the
gates know of it: absent, the user's baseline, a draft some tool wrote, or the bytes
the node's gates accepted. In memory there are the orchestrator's phase and node
statuses, `CooperativeControl` (`halt`, `quit`), the position `thread` of the run's one
background thread, one worker per node of the wave (`work`), the scheduler's outcomes
(`outc`) and the user's command in progress (`op`). `Crash` clears the memory at any
point, also during start-up, whose steps (`Boot`) are separate actions because each is
a transaction of its own: `RecoverActions`, `RecoverPauses`, `RecoverNodes`,
`RecoverRun`, `Reconcile`, `ReconcileTerminal`, `PauseTransient`.

`pause` and `resume` are split where they read a thread's state and write later
(`PauseAsk`, `PauseCheck`, `PauseSave`, `PauseGoal`; `Resume`, `ResumeEngine`,
`ResumePhase`). `_finalize_result` is eight actions, one per durable write.

`Restore` runs the static checks and the tests of every stored success again. Their
outcome is open for every artifact that is there, accepted bytes included: a test may
time out, or need a file of another node that is gone. The ghost `doubted` holds the
nodes whose accepted bytes failed.

Abstracted: a wave runs as threads only through the interleaving of its workers, with
leases left to `WaveScheduler` (a lease conflict is a failed outcome here); a node's
tools are one tool; node and agent rows are one row; dynamic children are nodes known
in advance. The optimistic-lock retries and the cleanup of duplicate children in
`restore` are left out, and so is a replan, which starts another run.
`record_codex_visual_review` has no caller. Two assumptions about the surroundings:
files are deleted from outside only while no run is alive, and only accepted ones
(`LoseArtifact`); the code does not prevent a deletion during finalization, which nothing
here speaks of. And a node whose tool is uncertain is not reset by `ReadOnly`; the code
(`runtime.py:12789`) also resets one whose agent row is not side-effecting, without
effect on the run, because `restore` refuses uncertain actions first.

### QualityRound and UltraNode

`UltraNode` walks `_execute_node`: `KeepCandidate` or `Produce`, the harness gate,
the reviewers one by one, the consensus round (`Propose`, `SubmitVote`), the gate
built from both (`Collect`), and then a repair, another review, publication or
failure. The three repair loops belong to whoever owns the failure: `RepairContract`
for the test contract, `RetryInfrastructure` for tools and environment, `Fix` for the
coder. `Interrupt` leaves the execution between any two steps; `Execute` starts the
next one with what the saved result package says (`prior`).

The bytes of a candidate are what the gates know of them: whether they changed since
(`rev`), whether the harness gates passed on them (`clean`), whether a sound gate
accepted them (`accepted`). Whoever is asked to write is taken to change them.
Reviewers' confidences are `0 .. MaxWeight`. A restored package is `Produce`; tool and
environment are one kind; the tester's verdict is chosen where the gate is built; the
coordinator's lease and the messages that announce a round, which nobody reads back,
are left out.

`UltraNode` is the part of `UltraRun` between a node's first tool and its result
package; `UltraRun` sees only the package it ends in.

## Runs

Deadlock checking is off where the
system may stop (a goal in a terminal status, every launcher gone) and on for the
scheduler, whose controls stay available to the user after the run has ended, and for the
queue, whose loop never ends. The Ultra runs stop when the goal is terminal or the bounds
are used up.

The type invariants of `SessionOwnership`, `WaveScheduler` and `PromptQueue` are theorems
and not checked again by TLC.

| Run | Instance | Shows |
| --- | --- | --- |
| `owner_single` | 3 processes, 1 session | one controller at a time; no launcher works while an action that a dead one left running is unrecovered; an orderly exit leaves no sidecar that names it |
| `owner_switch` | 2 processes, 2 sessions, session switch | who marks a live process's action uncertain has locked another session, also when runtimes control sessions whose lock they do not hold |
| `owner_recovery_race` (violation) | 2 processes, 2 sessions | start-up on a second session marks the live action of the first uncertain |
| `goal_commands` | 1 task, 2 rows, 2 revisions, every command, 1 disturbance | plan authority, completion gate, uncertain actions |
| `goal_revisions` | 2-task chain, 1 row, 2 revisions; revise, stop, pause request, crash | authority of execution, dependency order, frozen history while plans are edited |
| `goal_chain` | 3-task chain, the last a retired claim item; task commands, crash | a reset cut half way leaves no task ahead of its prerequisites |
| `goal_pause` (violation) | 1 task, pause | the planner publishes over a pause |
| `goal_uncertain` (violation) | 1 task, revise, crash | approval of a revision starts work over an uncertain action |
| `scheduler` | 6 nodes, limit 2, 1 retry, a self-dependency, two overlapping pairs | exclusion, bound, honest outcomes, refinement, termination |
| `prompt_queue` | 3 prompts, room for 2, 2 goals, 2 requests outside the queue, 1 crash or foreign opening | unique order, the running prompt in front, no goal credited twice, honest settlement, at most one goal per claim, refinement of `PromptLine`, progress |
| `ultra_run` | 2 nodes in a chain, 3 user commands, 2 crashes (also during recovery), 1 artifact lost | a cut-off tool waits for an inspection; every running goal has an owner; dependencies hold in the rows; completion is honest; accepted work is not replayed unless a restore's checks of it fail; a cancel stops the workers; the run ends |
| `ultra_node` | 3 reviewers with confidence 0, 1 or 2, 4 shapes of node, 3 fixes, 2 findings, 2 executions | rounds count every decisive vote; harness-owned failures lead to no rewrite; evidence under review is about the present bytes; a completed node was accepted; executions end |

Bounds, and why they suffice for what is asked: `MaxShock` counts pauses, stops,
interrupts and crashes; one at any point already produces every race of one
disturbance with the worker, and the theorems cover any number. `Command` restricts
an instance to the interventions its question needs. Two journal rows are a
delegation and the tool inside it, or an uncertain row beside a new one. Two revisions
are one in force and one replacing it. `Words` is what a model's own report adds: with
`{0}` it adds nothing, and prose still arises from task completion and from carried
records. In `goal_chain` the plan is listed in dependency order; see the divergences
for one that is not. In the scheduler, limit 2 with six nodes gives several waves,
one retry gives both a retried and an exhausted node, and the self-dependency of `d`
makes both a real cycle and an orderly end reachable. In the queue, three prompts for
two places reach the full queue and a prompt that overtakes if reordering is wrong;
two goals suffice to credit one to the wrong prompt; the theorems cover any number. In
the Ultra run, two nodes are the least with a dependency; two crashes put one into the
recovery from the other; three commands are a pause and a resume with a cancel or an
inspection between them; `Created` makes one artifact the run's own and one the user's. For
the node, three weighted reviewers give every quorum and outvoting, and two executions
one retry with a saved package; the four shapes are an enforced leaf that writes, a
verify-only leaf in shadow mode, an enforced component and a parent in shadow mode.

Symmetry is used on process and session identifiers and on journal rows, which occur
only in equality tests, and not in the run with a liveness property.

### Fairness

The goal runtime and the session owner have no liveness property: whether a goal ends
is up to the model and the user. The others:

- scheduler (`FairSpec`): weak fairness of the controller's loop, of each thread's gate
  and of the end of each worker. The first two are threads that run whenever they can;
  the last assumes that a worker's own timeouts make it return. `RunEnds` further
  assumes the user does not leave the run paused without cancelling it.
- queue (`FairSpec`): weak fairness of the pump, which a timer of the terminal's loop
  calls, of the work thread and of the restart; and of `GoalCompletes`, `Dismiss` and
  `WebTurn`: the goal in progress ends, and the user answers what waits for an answer.
  `QueueMoves` excepts the heads that jam the queue (see the divergences).
- Ultra run (`Spec`): weak fairness of the run's thread and its workers together, of the
  user's command once begun, and of start-up. Which worker steps is not fair; a step of
  any of them is. `RunEnds` excepts a run the user holds paused.
- node (`Spec`): weak fairness of the pipeline as a whole; a call to a model returns or
  times out. Interruptions and new executions are not fair.

## What is proved

TLAPS checks the proofs for every value of the constants that satisfies the named
assumptions of the modules (`NoEntry` is not a row, dependencies are sets of tasks,
positions are distinct, `MaxRev` and the limits are positive, `Item` is finite and
`Clash` symmetric and irreflexive, and so on).

**SessionOwnership.** `TypeCorrect`, `OneController` and `SidecarCorrect`. The
inductive invariant says that a living process past its acquisition holds the lock of
its home session (`HoldsHome`), that a runtime controls its home session unless
session switching is on (`BoundSession`), and whom the sidecar names
(`SidecarOwner`). `OneController` needs the first two: exclusion is the lock's,
never the lease's.

`RecoveryBeforeWork` proves `RecoveredBeforeWork` for any number of sessions. It needs
where a lease can come from: an active lease names a process that locked that session
(`LeasePlaced`), so a starting launcher, the only live holder of its lock, never meets a
live foreign one and never skips recovery (`NeverForeign`). `HomeKept`, `LeaseWriters`,
`EntersStarted` and `Dies` say which steps can disturb that. The theorem assumes no
session switching: a runtime switched to a session it has not locked can hold its lease
alive, and a launcher that then skips recovery works beside unrecovered rows. TLC finds
that with three processes and two sessions.

`LiveWorkSafe` and `LiveWorkRaceNeedsTwoHomes` are about the journal
of the workspace, which all sessions share. Two lemmas carry them: one live process per
home session (`OneLiveHolder`), and only a recovering process writes another's row
(`ActionWriters`). `LiveWorkSafe` assumes one session, where whoever recovers holds the
only lock; the run `owner_recovery_race` shows that two sessions break it, and
`LiveWorkRaceNeedsTwoHomes` that nothing else does: the recovering process has locked a
session different from the worker's. Session switching is not needed for the race.

**GoalRuntime.** `GoalTypes`, `OnePlanInForce`, `CompletionIsGated`,
`WorkIsAuthorised`, `HistoryIsFrozen` and `UncertainActionsWait`, all for any task
set, dependency relation and number of revisions, rows and disturbances.

- `PlanInv` is inductive alone: a revision above `rev` has no status, so a new one
  cannot collide with the accepted one (`CreatePlanKeeps`, `ApprovePlanKeeps`,
  `RejectKeeps`; `PlanWriters` says nothing else writes a plan).
- `SliceAuthorised`: inside a slice the goal has an accepted revision and the newest
  one is accepted or pending. Approving and rejecting happen only between slices, in
  planning and after a failed review, so a slice cannot lose its authority, but it can
  end up with a pending plan on top of it. `HistoryIsFrozen` rests on it: the latest
  revision a slice writes to is never a superseded or rejected one.
- `CallsPlaced` and `NoStrayRow`: a running row belongs to the tool or the delegation
  at hand. `UncertainActionsWait` needs the first: the row a delegation's return
  forgets is a delegation, not an action.
- `GateHeld` carries the gate from `_completion_precheck` to COMPLETED: it holds while
  the worker is between the gate and the review, during the review as long as the goal
  is REVIEWING, and after completion. The user may pause, stop and resume in between,
  which moves the goal out of REVIEWING, and `resume` never returns to it; reviewers'
  tools can only add evidence (`ProofStays`); stop has nothing to recover there
  (`NothingToRecover`).

`PrerequisitesClosed` (`GoalDependencyProofs`) proves `DepsClosed` for every dependency
relation, if the plan lists tasks after their prerequisites (`PlanInOrder`) or nothing
unwinds the worker (`NeverUnwound`: no crash, no Ctrl-C). `DepsClosed` speaks of the
idle worker; between transactions it does not hold, so it is not inductive. `DepsInv` is:

- `TasksGated`: the newest plan is gated at every transaction, except, in an unordered
  plan, for the tasks a reset in flight has still to write.
- `ResetCovers`: who depends on a task still to be written is to be written as well or is
  PENDING again, since the reset takes the whole closure of dependants
  (`DependantsClosed`) and, in an ordered plan, the reset task is written last
  (`DependantsAfter`).

An unordered plan and a crash together break it: TLC finds a three-task chain listed in
reverse where a crash half way leaves the last task COMPLETED behind a reopened one. A
plan edited as a document can be listed in this way: the tasks new in it get their index as
priority (`runtime.py:12271`), and the store lists by descending priority (`store.py:2781`).
The hypothesis marks what the code relies on there and does not ensure.

**WaveScheduler.** `SchedulerTyped`, `WritersExcluded`, `LeasesGranted`,
`ConcurrencyBounded`, `CyclesAreReal`, `OutcomesAreJustified` and
`SchedulerImplementsDag`. The invariant says a lease is held exactly while its thread
is in the worker, the members of a wave are pairwise disjoint and ready, and each
recorded outcome has its reason. `ConcurrencyBounded` counts a wave through an
injection into `0 .. limit - 1` taken when it was chosen, because the limit moves
later. The refinement is proved step by step: every scheduler step is a step of
`DagExecution` or leaves `Seen` alone.

**PromptQueue.** `QueueTyped`, `SequencesStayUnique`, `RunningAtFront`,
`GoalsBoundOnce`, `PromptsSettledHonestly` and `PromptsRunOnce`, for any number of
prompts, goals, openings and requests. The invariant `QInv` adds to them: `Working` and
`Holding` (the pump runs between two pieces of work, and the item it holds is the only
row that may be running), `Reading` (what the pump read of a goal is still true if that
goal had ended; without it a step between its read and its write breaks the induction), and `Fresh`
(a prompt whose claim was never undone has no goal wherever its text can still become
one, which is what `OneGoalEach` needs).

`QueueImplementsLine` (`PromptLineProofs`) proves the refinement. Its first half knows
nothing of prompts: a finite set numbered without repetition is listed by ranks
(`RankOrders`, `RankInjective`, `RankOnto`, `ListedFacts`), a new largest number appends
(`ListedAppend`), a removal closes its gap (`ListedRemove`), renumbering in the same order
changes nothing (`RankKept`, `ListedUnique`). The second half has one lemma per write to the rows
(`EnqueueAppends`, `ReorderRearranges`, `ClaimServes`, `OpeningPutsBack`, `BlockBlocks`,
`FinishLeaves`, `CancelLeaves`); every other step leaves them alone (`RowsUntouched`).
It needs more than `QInv`: that the live rows are finitely many, though `Prompts` need not
be, and `HeldRow`, that the row the pump holds was not blocked behind its back and is
pending only if an opening of the store put it back.

**UltraRun.** `RunTyped`, `CutToolsWait`, `DependenciesStayDurable`, `RunningGoalsAreOwned`,
`AcceptedWorkNotReplayed` and `GoalsCompleteHonestly`, for any set of nodes and
dependencies and any number of commands, crashes and lost artifacts. The parts of
`RunInv`:

- `Placed`: only an approved run of a live session has a thread, only a thread in a wave
  has workers, and a command that will start a thread found none.
- `CutOff`: a cut-off tool keeps its action row, the row is uncertain before start-up is
  over, and `restore` refuses uncertain rows; so no run starts over it.
- `WavePlaced`: a worker's node is unfinished in the engine and its dependencies are
  finished there. No node is both a dependency at work and finished, which is why nothing
  takes the row of a dependency back.
- `Untouched`, `Certain`, `Packaged`, `Unaccepted`: what the engine may still run has no accepted
  artifact, except the nodes in `doubted`. `Unaccepted` alone is not inductive: resolving an
  uncertain node as applied writes a success, so a live run must have no uncertain node but the ones it reported.
- `Sound` and `Judged`: what the engine counts as completed is in the workspace until a rollback,
  and from the global gate to the end nobody writes an artifact.
- `Owned`: a goal that became RUNNING behind the finishing thread was resumed while it
  was there.

**UltraNode.** `TypeCorrect`, `RoundsCountEveryVote`, `ReviewsSeeCurrentEvidence`,
`CompletedNodesWereAccepted` and `HarnessFailuresRewriteNothing`, for any set of shapes,
findings and reviewers and any bounds. `NodeInv` adds to the checked invariants:
`RoundPlaced` (a round is open only while the pipeline is at it), `VerdictAtHand` (a gate
that passed is about the present bytes until they are published), `OnItsWay` (what a
candidate past the gate carries), `FailureRemembered` (a failure the harness owns and
the package saved for it tell the next execution to verify only) and `DoneIsIdle`.
`EveryVoteCounts` needs the quorum to be the number of decisive voters, which is what
the tally after each vote depends on.

Only model-checked: liveness (`RunEnds` of the scheduler and of the Ultra run, `QueueMoves`,
`NodeEnds`, `CancelStops`), which needs fairness and is out of the prover's reach, and the
three violations, which are counterexamples. Every invariant, action property and
refinement of a passing run is a theorem.

## Divergences noticed while modelling

The three violation runs are findings in `PROJECT.json`. Others, at their lines in
`src/agent`:

- `cli.py:4376`: a session switch builds a runtime on a session without its owner lock.
- `runtime.py:2289`: the execution lease is checked and written in two transactions; two
  runtimes of one session can both claim it (the owner lock prevents it without a switch).
- `runtime.py:13510`: a stop during the first planning records no resume status, and
  `resume` then defaults to RUNNING without a plan.
- `runtime.py:17817`: the slice loop does not read `pause_requested`; a requested pause
  takes effect only when the whole slice has ended, while `README.md:195` says the request
  "stops new scheduling".
- `runtime.py:12223`: a crash between `create_plan` and the evidence carry leaves completed
  tasks without evidence; nothing carries it later, so the gate stays closed
  until they are reopened.
- `runtime.py:12234`: the user's own evidence is carried as an unverified harness record,
  which the gate (`runtime.py:16736`) does not accept.
- `runtime.py:697`: a second crash between recovery and the explicit pause leaves the goal
  RECOVERING; only `/pause` followed by `/resume` repairs it.
- `runtime.py:16678`: a delegation that returns after a stop closes its uncertain row
  (`store.py:3245`); its task stays UNCERTAIN with no row to resolve.
- `runtime.py:15066`: dependants are reset in reverse plan order; if the plan is not listed
  in dependency order, a crash half way leaves a task ahead of its prerequisite.
- `workflow.py:835`: `first_ready_task` wants prerequisites COMPLETED, where
  `transition_task` also accepts OBSOLETE ones.
- `store.py:3343`: an idle in-progress task without a running row is not marked uncertain at
  restart; `docs/02-architecture.md:138` says every in-progress task is.

Prompt queue:

- `store.py:482`: opening the store, by any process and for all sessions, puts an unbound
  running prompt back although its work already made a goal; the prompt runs twice
  (`docs/09-production-ux-audit.md:17` and `:45` speak of idempotent recovery). `OneGoalEach`
  excepts prompts put back in this way.
- `cli.py:4526`: the pump credits the newest goal made since the claim to the running
  prompt, also one the web submitted.
- `cli.py:4579`: a blocked head, or a running prompt whose work answered without making a
  goal, stops the queue for good; only a restart or the user frees it.
- `store.py:7816` accepts the mode `working`, which `QueuedPrompt` (`models.py:425`) refuses.
- A web submit between the pump's guard and its claim lets a prompt start while another
  goal is active.

Ultra run:

- `runtime.py:13558`: a resume that met the finishing thread leaves the goal RUNNING with
  no thread (the ghost `late`).
- `ultra_session.py:12113`: after a cancel, a crash before the goal row was written and a
  restart, the restored run skips the CANCELLED nodes and completes without them.
- `ultra_session.py:12118`: `restore` runs the checks of an accepted artifact again, and a
  FAILED node whose checks now fail is reopened and executed over its accepted bytes, though
  the comment at line 12143 says a successful mutation is never replayed. A COMPLETED node whose checks fail
  stays completed.
- `ultra_session.py:12154`: a success package of an earlier attempt survives the reopening of
  its node, which can complete with a draft no gate accepted.
- `ultra_session.py:10268`: a rejected run restores a file the user had; its node stays
  COMPLETED, and a later run of the rest completes with the baseline in it.
- `store.py:3856`: a node restored as completed in memory stays FAILED in its row, where its
  dependents look: they fail for ever.
- `ultra.py:8780`: `pause` may write PAUSED over a terminal phase. A pause after the last
  checkpoint makes COMPLETED illegal and blocks the goal; a resume heals it.
- `ultra.py:8860`: a resume whose phase change is illegal aborts after the goal became
  RUNNING; the control is still paused.
- `runtime.py:4313`: a failed restore leaves a session without an engine, on which `cancel`
  raises until a resume or a restart.
- `runtime.py:3883`: a crash between `approve_plan` and `approve_ultra_master` leaves a
  RUNNING goal with a run that cannot be restored.
- `ultra_session.py:10482`: an approval boundary leaves its node IN_PROGRESS in the row.

Quality pipeline:

- `ultra.py:2505`: in shadow mode a reviewer without a typed verdict votes accept with
  confidence 1; the comment there says the abstention is excluded.
- `ultra.py:2056`, `ultra_session.py:9032`: if every reviewer's provider emits nothing there is
  no round, and the gate passes on the tests and the harness's own answers,
  though the comment says that independent typed verdicts remain required.
- `store.py:5095`: a rejecting reviewer can be outvoted, whatever its role; a failed tester
  without typed harness evidence does not block.
- `ultra.py:8110`: the publication gate, which reports bytes that no longer match the reviewed candidate,
  only validates statically; the leaf integrator has write tools after the review.
- `ultra.py:7699`: a parent's retry invokes the integrator although its package said to
  preserve the candidate.
- `ultra_session.py:9046`: under enforcement, a round whose reviewers all abstain stays open, and the coder is
  asked to mutate.
- `ultra.py:7692`: an interruption before the package is saved forgets who owned the
  failure. The breaker's `mutation_prohibited` is not read by the next execution.

## Not modelled

- Rendering, key handling and HTTP (`ui*.py`, `tui*.py`, `web_views/`,
  `advanced_tracing.py`): their calls are the user's actions.
- Providers, prompts, reasoning, memory, repository index: they decide what a model
  answers, and the models allow any answer the validators do.
- What tools do to the disk, the sandbox and Git: I/O; the journal around a tool is
  modelled.
- Plan documents and control schemas: parsing; their accepted and refused results appear
  as `NextPlans` and `CallRefused`.
- Durable lease rows with their wall-clock expiry, and the before and after images of the
  mutation journal: they account for bytes on disk and for time, neither of which the
  models have. The process-local leases are in `WaveScheduler`, the action rows around a
  tool in `GoalRuntime` and `UltraRun`.
- The foundation of an Ultra run (questions, goal and architecture documents) and a replan
  into another run.
- Benchmarks, tests and the generated trees under `projects/` and `output/`. These trees
  contain whole copies of older versions of `agent/`, and with the interfaces, prompts and
  providers they are most of the repository's lines; the map covers the control paths listed
  above and no more.

## Plan

1. Safety facts behind the liveness properties: what has to be enabled while a run, a
   queue or a node has not ended, as invariants that name the step rather than ENABLED.
2. The hazards in `PROJECT.json` that still have no property.
3. A module for the durable leases and the mutation journal, if expiry is given a clock;
   then the bounded action workflow and managed processes.
