----------------------------- MODULE PromptQueue -----------------------------
(***************************************************************************)
(* The durable prompt queue of one session: the rows of queued_prompts,    *)
(* the terminal's queue pump (sync_durable_queue), the work thread it      *)
(* starts, the web workspace that enqueues, reorders, submits and cancels  *)
(* concurrently, crashes, and other processes that open the same store.    *)
(*                                                                         *)
(* Goals are numbered in the order they are created, so the comparison of  *)
(* created_at with started_at is a comparison of numbers: from[p] is the   *)
(* newest goal that existed when p was claimed.                            *)
(***************************************************************************)
EXTENDS Naturals, Sequences, FiniteSets

CONSTANTS Prompts,   \* prompts that may be queued
          None,      \* no prompt, no work, no saved request
          User,      \* work that did not come from the queue
          MaxLive,   \* MAX_PENDING_PROMPTS
          MaxGoals,  \* bound: goals a behaviour may create
          MaxOpens,  \* bound: crashes and foreign openings of the store
          MaxAsks    \* bound: requests the user makes outside the queue

ASSUME QueueConstants ==
  /\ None \notin Prompts /\ User \notin Prompts /\ None # User
  /\ MaxLive \in Nat \ {0} /\ MaxGoals \in Nat /\ MaxOpens \in Nat /\ MaxAsks \in Nat

VARIABLES
  status,     \* queued_prompts.status; "new": not queued yet
  seq,        \* queued_prompts.sequence
  goalOf,     \* queued_prompts.goal_id; 0: NULL
  from,       \* queued_prompts.started_at, as the newest goal at that time
  goals,      \* status of every goal of the session, oldest first
  maker,      \* history: whose work created the goal
  turn,       \* session state pending_semantic_turn: whose request it saves
  attention,  \* an attention request is open in the terminal
  up,         \* the terminal process is alive
  work,       \* active_work: whose command the work thread executes
  stage,      \* of the work thread: "routing", "made" a goal, "done"
  pc,         \* where the terminal's loop is
  cur,        \* the pump's local running_item or item
  seen,       \* the pump's local goal or candidate, with its status as read
  opens,      \* bound counter: openings of the store after the first
  asks,       \* bound counter: requests made outside the queue
  reset       \* history: prompts whose claim was undone by an opening

rows == <<status, seq, goalOf, from>>
ui == <<work, stage, pc, cur, seen>>
vars == <<rows, goals, maker, turn, attention, up, ui, opens, asks, reset>>

RowStatus == {"new", "pending", "running", "blocked", "completed", "cancelled"}
GoalNo == 0 .. MaxGoals
NoGoal == [g |-> 0, st |-> "none"]

Live == {p \in Prompts : status[p] \in {"pending", "running", "blocked"}}
Queued == {p \in Prompts : status[p] # "new"}
Newest == Len(goals)
ActiveGoal == {g \in 1 .. Len(goals) : goals[g] = "active"}

Init ==
  /\ status = [p \in Prompts |-> "new"]
  /\ seq = [p \in Prompts |-> 0]
  /\ goalOf = [p \in Prompts |-> 0]
  /\ from = [p \in Prompts |-> 0]
  /\ goals = <<>> /\ maker = <<>>
  /\ turn = None /\ attention = FALSE
  /\ up = TRUE
  /\ work = None /\ stage = "done"
  /\ pc = "loop" /\ cur = None /\ seen = NoGoal
  /\ opens = 0 /\ asks = 0 /\ reset = {}

-----------------------------------------------------------------------------
(* Operations of the store, each one transaction.                          *)

(* Mutant: the number is taken from the size of the queue.                 *)
Mut_NextSequence(n) == n = Cardinality(Live) + 1

(* n is COALESCE(MAX(sequence), 0) + 1 over all rows, finished ones too.   *)
NextSequence(n) ==
  /\ \A q \in Queued : seq[q] < n
  /\ n = 1 \/ \E q \in Queued : n = seq[q] + 1

(* The queue is offered by the terminal while work runs or a saved request *)
(* waits, and by the web while a project is active or completed.           *)
MayEnqueue ==
  \/ pc = "inbox" /\ (work # None \/ turn # None)
  \/ goals # <<>> /\ goals[Newest] \in {"active", "completed"}

(* Mutant: only waiting prompts are counted.                               *)
Mut_Full == Cardinality({p \in Live : status[p] = "pending"}) >= MaxLive

(* Running and blocked rows count towards the limit.                       *)
Full == Cardinality(Live) >= MaxLive

enqueue_prompt(p) ==
  /\ up /\ status[p] = "new" /\ MayEnqueue
  /\ ~Full
  /\ status' = [status EXCEPT ![p] = "pending"]
  /\ \E n \in {1} \union {seq[q] + 1 : q \in Queued} :
       NextSequence(n) /\ seq' = [seq EXCEPT ![p] = n]
  /\ UNCHANGED <<goalOf, from, goals, maker, turn, attention, up, ui, opens, asks, reset>>

(* Mutant: every live row takes part in a reorder.                         *)
Mut_Movable == Live

(* The slots whose sequence numbers a reorder hands out again.             *)
Movable == {p \in Live : status[p] = "pending"}

(* The browser sends the ids it displayed; any other set is refused.       *)
reorder_pending_prompts ==
  /\ up /\ goals # <<>> /\ goals[Newest] \in {"active", "completed"}
  /\ \E order \in [Movable -> {seq[p] : p \in Movable}] :
       /\ \A p, q \in Movable : order[p] = order[q] => p = q
       /\ seq' = [p \in Prompts |-> IF p \in Movable THEN order[p] ELSE seq[p]]
       /\ seq' # seq
  /\ UNCHANGED <<status, goalOf, from, goals, maker, turn, attention, up, ui, opens, asks, reset>>

Front(p) == p \in Live /\ \A q \in Live : seq[p] <= seq[q]

Claimable(p) == Front(p) /\ status[p] = "pending"

(* create_goal_and_bind_workflow_session refuses a second unfinished goal  *)
(* and closes the saved request in the same transaction.                   *)
create_goal(who) ==
  /\ ActiveGoal = {} /\ Len(goals) < MaxGoals
  /\ goals' = Append(goals, "active")
  /\ maker' = Append(maker, who)
  /\ turn' = None

cancel_goal_and_session ==
  /\ up
  /\ \E g \in ActiveGoal :
       /\ goals' = [goals EXCEPT ![g] = "cancelled"]
       /\ status' = [p \in Prompts |->
            IF goalOf[p] = g /\ status[p] \in {"pending", "running"}
            THEN "cancelled" ELSE status[p]]
  /\ UNCHANGED <<seq, goalOf, from, maker, turn, attention, up, ui, opens, asks, reset>>

(* Every opening of the store, whichever process and session it is for,    *)
(* puts unbound running prompts back.  OpenedUnder feeds the history only. *)
OpenedUnder == {p \in Prompts : status[p] = "running" /\ goalOf[p] = 0}

(* Mutant: bound prompts are put back as well.                             *)
Mut_Unbound == {p \in Prompts : status[p] = "running"}

Unbound == {p \in Prompts : status[p] = "running" /\ goalOf[p] = 0}

OpenStore ==
  /\ status' = [p \in Prompts |-> IF p \in Unbound THEN "pending" ELSE status[p]]
  /\ reset' = reset \union OpenedUnder

-----------------------------------------------------------------------------
(* The terminal's loop: join finished work, pump the queue when no work    *)
(* runs, then take one message from the inbox.                             *)

Join ==
  /\ up /\ pc = "loop"
  /\ IF work # None /\ stage = "done"
     THEN work' = None /\ pc' = "list"
     ELSE work' = work /\ pc' = IF work = None THEN "list" ELSE "inbox"
  /\ UNCHANGED <<rows, goals, maker, turn, attention, up, stage, cur, seen, opens, asks, reset>>

Return == pc' = "inbox" /\ cur' = None /\ seen' = NoGoal

(* Read the live rows and remember the running one.                        *)
SyncList ==
  /\ up /\ pc = "list"
  /\ \/ \E p \in Prompts :
          /\ status[p] = "running"
          /\ cur' = p /\ pc' = "item"
     \/ /\ \A p \in Prompts : status[p] # "running"
        /\ cur' = None /\ pc' = "guard"
  /\ UNCHANGED <<rows, goals, maker, turn, attention, up, work, stage, seen, opens, asks, reset>>

(* Mutant: only a completed goal finishes its prompt.                      *)
Mut_FinishedCompleted(g) == g.st = "completed"

(* A goal that ended finishes its prompt the same way.                     *)
Finished(g) == g.st \in {"completed", "cancelled"}

(* Mutant: any goal of the session will do.                                *)
Mut_CreatedSince(p) == Newest > 0

(* The candidate is the active goal, which is the newest, or the newest.   *)
CreatedSince(p) == Newest > from[p]

(* Read the goal the running item is bound to, or look for a goal created  *)
(* since it was claimed.                                                   *)
SyncItem ==
  /\ up /\ pc = "item"
  /\ LET bound == goalOf[cur]
         g == IF bound # 0 THEN bound ELSE Newest
         read == [g |-> g, st |-> goals[g]]
     IN \/ /\ bound # 0 /\ Finished(read)
           /\ seen' = read /\ pc' = "finish" /\ cur' = cur
        \/ /\ bound = 0 /\ CreatedSince(cur)
           /\ seen' = read /\ pc' = "bind" /\ cur' = cur
        \/ /\ IF bound # 0 THEN ~Finished(read) ELSE ~CreatedSince(cur)
           /\ Return
  /\ UNCHANGED <<rows, goals, maker, turn, attention, up, work, stage, opens, asks, reset>>

bind_prompt_goal ==
  /\ up /\ pc = "bind"
  /\ goalOf' = [goalOf EXCEPT ![cur] = IF status[cur] = "running" THEN seen.g ELSE @]
  /\ IF Finished(seen) THEN pc' = "finish" /\ UNCHANGED <<cur, seen>> ELSE Return
  /\ UNCHANGED <<status, seq, from, goals, maker, turn, attention, up, work, stage, opens, asks, reset>>

(* finish_queued_prompt writes whatever the row's status has become.       *)
SyncFinish ==
  /\ up /\ pc = "finish"
  /\ status' = [status EXCEPT ![cur] = seen.st]
  /\ pc' = "guard" /\ cur' = None /\ seen' = NoGoal
  /\ UNCHANGED <<seq, goalOf, from, goals, maker, turn, attention, up, work, stage, opens, asks, reset>>

MayClaim == ~attention /\ ActiveGoal = {} /\ turn = None

SyncGuard ==
  /\ up /\ pc = "guard"
  /\ IF MayClaim THEN pc' = "claim" /\ UNCHANGED <<cur, seen>> ELSE Return
  /\ UNCHANGED <<rows, goals, maker, turn, attention, up, work, stage, opens, asks, reset>>

claim_next_prompt ==
  /\ up /\ pc = "claim"
  /\ \/ \E p \in Prompts :
          /\ Claimable(p)
          /\ status' = [status EXCEPT ![p] = "running"]
          /\ from' = [from EXCEPT ![p] = Newest]
          /\ cur' = p /\ pc' = "mode" /\ seen' = NoGoal
     \/ /\ \A p \in Prompts : ~Claimable(p)
        /\ Return
        /\ UNCHANGED <<status, from>>
  /\ UNCHANGED <<seq, goalOf, goals, maker, turn, attention, up, work, stage, opens, asks, reset>>

(* The saved mode can be entered: start the work thread.                   *)
StartPrompt ==
  /\ up /\ pc = "mode"
  /\ work' = cur /\ stage' = "routing"
  /\ pc' = "loop" /\ cur' = None
  /\ UNCHANGED <<rows, goals, maker, turn, attention, up, seen, opens, asks, reset>>

(* The saved mode cannot be entered: the item is blocked.                  *)
BlockPrompt ==
  /\ up /\ pc = "mode"
  /\ status' = [status EXCEPT ![cur] = "blocked"]
  /\ Return
  /\ UNCHANGED <<seq, goalOf, from, goals, maker, turn, attention, up, work, stage, opens, asks, reset>>

(* The inbox: nothing arrived, or a command of the user starts work.       *)
InboxEmpty ==
  /\ up /\ pc = "inbox"
  /\ pc' = "loop"
  /\ UNCHANGED <<rows, goals, maker, turn, attention, up, work, stage, cur, seen, opens, asks, reset>>

StartCommand ==
  /\ up /\ pc = "inbox" /\ work = None /\ asks < MaxAsks
  /\ work' = User /\ stage' = "routing" /\ pc' = "loop" /\ asks' = asks + 1
  /\ UNCHANGED <<rows, goals, maker, turn, attention, up, cur, seen, opens, reset>>

-----------------------------------------------------------------------------
(* The work thread and what runs beside it.                                *)

(* Routing saves the request before the model is asked about it.           *)
SaveTurn ==
  /\ up /\ stage = "routing" /\ turn = None /\ ActiveGoal = {}
  /\ turn' = work
  /\ UNCHANGED <<rows, goals, maker, attention, up, ui, opens, asks, reset>>

MakeGoal ==
  /\ up /\ stage = "routing"
  /\ create_goal(IF work = User /\ turn # None THEN turn ELSE work)
  /\ stage' = "made"
  /\ UNCHANGED <<rows, attention, up, work, pc, cur, seen, opens, asks, reset>>

(* The work ends: with its goal, with an error that keeps the saved        *)
(* request, or with a plain answer that closes it.                         *)
WorkEnds ==
  /\ up /\ stage \in {"routing", "made"}
  /\ stage' = "done"
  /\ turn' \in {turn, None}
  /\ UNCHANGED <<rows, goals, maker, attention, up, work, pc, cur, seen, opens, asks, reset>>

(* submit_plan_request creates the goal itself or goes through routing.    *)
WebSubmit ==
  /\ up /\ turn = None /\ ActiveGoal = {} /\ asks < MaxAsks
  /\ \/ create_goal(User)
     \/ turn' = User /\ UNCHANGED <<goals, maker>>
  /\ asks' = asks + 1
  /\ UNCHANGED <<rows, attention, up, ui, opens, reset>>

(* The user resumes or drops a saved request from the web.                 *)
WebTurn ==
  /\ up /\ turn # None
  /\ \/ stage = "done" /\ create_goal(turn)
     \/ turn' = None /\ UNCHANGED <<goals, maker>>
  /\ UNCHANGED <<rows, attention, up, ui, opens, asks, reset>>

GoalCompletes ==
  /\ up
  /\ \E g \in ActiveGoal : goals' = [goals EXCEPT ![g] = "completed"]
  /\ attention' \in BOOLEAN
  /\ UNCHANGED <<rows, maker, turn, up, ui, opens, asks, reset>>

Dismiss ==
  /\ up /\ attention
  /\ attention' = FALSE
  /\ UNCHANGED <<rows, goals, maker, turn, up, ui, opens, asks, reset>>

Crash ==
  /\ up /\ opens < MaxOpens
  /\ up' = FALSE
  /\ work' = None /\ stage' = "done" /\ attention' = FALSE
  /\ pc' = "loop" /\ cur' = None /\ seen' = NoGoal
  /\ opens' = opens + 1
  /\ UNCHANGED <<rows, goals, maker, turn, asks, reset>>

Restart ==
  /\ ~up
  /\ up' = TRUE
  /\ OpenStore
  /\ UNCHANGED <<seq, goalOf, from, goals, maker, turn, attention, ui, opens, asks>>

ForeignOpen ==
  /\ up /\ opens < MaxOpens
  /\ OpenStore
  /\ opens' = opens + 1
  /\ UNCHANGED <<seq, goalOf, from, goals, maker, turn, attention, up, ui, asks>>

Pump ==
  \/ Join \/ SyncList \/ SyncItem \/ bind_prompt_goal \/ SyncFinish \/ SyncGuard
  \/ claim_next_prompt \/ StartPrompt \/ BlockPrompt \/ InboxEmpty

Next ==
  \/ Join \/ SyncList \/ SyncItem \/ bind_prompt_goal \/ SyncFinish \/ SyncGuard
  \/ claim_next_prompt \/ StartPrompt \/ BlockPrompt \/ InboxEmpty \/ StartCommand
  \/ SaveTurn \/ MakeGoal \/ WorkEnds
  \/ WebSubmit \/ WebTurn \/ GoalCompletes \/ Dismiss
  \/ reorder_pending_prompts \/ cancel_goal_and_session
  \/ Crash \/ Restart \/ ForeignOpen
  \/ \E p \in Prompts : enqueue_prompt(p)

Spec == Init /\ [][Next]_vars

(* The loop and the work thread are never suspended for ever, the process  *)
(* is started again, and the user settles what waits for the user.         *)
FairSpec ==
  /\ Spec
  /\ WF_vars(Pump) /\ WF_vars(WorkEnds) /\ WF_vars(Restart)
  /\ WF_vars(GoalCompletes) /\ WF_vars(Dismiss) /\ WF_vars(WebTurn)

-----------------------------------------------------------------------------
TypeOK ==
  /\ status \in [Prompts -> RowStatus]
  /\ seq \in [Prompts -> Nat]
  /\ goalOf \in [Prompts -> GoalNo] /\ from \in [Prompts -> GoalNo]
  /\ goals \in Seq({"active", "completed", "cancelled"}) /\ Len(goals) \in GoalNo
  /\ maker \in Seq(Prompts \union {User}) /\ Len(maker) = Len(goals)
  /\ turn \in Prompts \union {User, None}
  /\ work \in Prompts \union {User, None}
  /\ attention \in BOOLEAN /\ up \in BOOLEAN
  /\ stage \in {"routing", "made", "done"}
  /\ pc \in {"loop", "list", "item", "bind", "finish", "guard", "claim", "mode", "inbox"}
  /\ cur \in Prompts \union {None}
  /\ seen \in [g : GoalNo, st : {"none", "active", "completed", "cancelled"}]
  /\ opens \in 0 .. MaxOpens /\ asks \in 0 .. MaxAsks /\ reset \subseteq Prompts

(* The unique index on (session_id, sequence) is never hit: neither the    *)
(* number enqueue_prompt computes nor a reorder repeats a number, although *)
(* rows finish, are put back and are permuted in between.                  *)
SequencesUnique ==
  \A p, q \in Queued : seq[p] = seq[q] => p = q

(* At most one prompt is in service, and it is the front of the queue:     *)
(* claim_next_prompt looks at one row only, so this is what makes its test *)
(* sufficient after reorders, put-backs and blocked rows.                  *)
RunningIsFront ==
  \A p \in Prompts : status[p] = "running" => Front(p)

(* The pump never credits one goal to two prompts, although it binds by    *)
(* comparing creation times and a claim may be undone and repeated.        *)
GoalBoundOnce ==
  \A p, q \in Prompts : goalOf[p] # 0 /\ goalOf[p] = goalOf[q] => p = q

(* A prompt is recorded as completed or cancelled only when a goal created *)
(* after its claim ended that way, and no other goal is bound to it, even  *)
(* when the store was opened between the pump's read and its write.        *)
SettledHonestly ==
  \A p \in Prompts : status[p] \in {"completed", "cancelled"} =>
    \E g \in 1 .. Len(goals) :
      goals[g] = status[p] /\ g > from[p] /\ goalOf[p] \in {0, g}

(* A prompt is carried out once: its text becomes at most one goal, unless *)
(* an opening of the store undid its claim before the goal was bound.      *)
OneGoalEach ==
  \A p \in Prompts \ reset :
    \A g, h \in 1 .. Len(maker) : maker[g] = p /\ maker[h] = p => g = h

(* The rows are a line of prompts served from the front: the place of p    *)
(* among S by the numbers in f, and S listed by its places.                *)
Rank(S, f, p) == Cardinality({q \in S : f[q] <= f[p]})

Listed(S, f) == [i \in 1 .. Cardinality(S) |-> CHOOSE p \in S : Rank(S, f, p) = i]

Running == {p \in Prompts : status[p] = "running"}

InService == IF Running = {} THEN None ELSE CHOOSE p \in Running : TRUE

Stuck == {p \in Prompts : status[p] = "blocked"}

Begun == reset \union {p \in Prompts : status[p] \notin {"new", "pending"}}

Line == INSTANCE PromptLine WITH
  line <- Listed(Live, seq), serving <- InService, stuck <- Stuck, begun <- Begun

(* Every step of the pump, the web, a crash or a foreign opening is a step *)
(* of the line: nothing overtakes except by a reorder of waiting prompts,  *)
(* no accepted prompt is lost, and the line never exceeds its bound.       *)
ImplementsLine == Line!LineSpec

(* The head of the queue can go no further by itself: blocked by its mode, *)
(* or its work ended without a goal the pump could wait for.               *)
Jammed ==
  \E p \in Prompts : Front(p) /\
    \/ status[p] = "blocked"
    \/ /\ status[p] = "running" /\ goalOf[p] = 0 /\ Newest <= from[p]
       /\ up /\ work = None /\ pc # "mode"

(* Every waiting prompt is eventually taken, across crashes, reorders and  *)
(* other work, unless the queue jams at its head.                          *)
QueueMoves ==
  \A p \in Prompts : (status[p] = "pending") ~> (status[p] # "pending" \/ Jammed)
=============================================================================
