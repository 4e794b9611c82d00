-------------------------- MODULE PromptQueueProofs --------------------------
(***************************************************************************)
(* For every set of prompts and every bound: the rows stay a queue whose   *)
(* running prompt is its front, goals are credited once and honestly, and  *)
(* a prompt whose claim was never undone becomes at most one goal.         *)
(***************************************************************************)
EXTENDS PromptQueue, TLAPS

(* Rows refer to goals that exist.                                         *)
Bounded == \A p \in Prompts : from[p] <= Len(goals) /\ goalOf[p] <= Len(goals)

(* What a goal_id says: the goal is younger than the claim, a waiting row  *)
(* has none, and while a prompt runs every other row's goal is older.      *)
Binding ==
  \A p \in Prompts :
    /\ status[p] \in {"new", "pending"} => goalOf[p] = 0
    /\ goalOf[p] # 0 => goalOf[p] > from[p]
    /\ status[p] = "running" => \A q \in Prompts \ {p} : goalOf[q] <= from[p]

(* The item the pump holds is the only one that may be running.            *)
Holding ==
  pc \in {"item", "bind", "finish", "mode"} =>
    /\ cur \in Prompts /\ status[cur] # "new"
    /\ \A q \in Prompts \ {cur} : status[q] # "running"

(* What the pump read of a goal is still true if the goal had ended.       *)
Reading ==
  /\ pc \in {"bind", "finish"} =>
       /\ seen.g \in 1 .. Len(goals) /\ seen.g > from[cur]
       /\ seen.st \in {"completed", "cancelled"} => goals[seen.g] = seen.st
  /\ pc = "bind" => goalOf[cur] = 0
  /\ pc = "finish" => seen.st \in {"completed", "cancelled"} /\ goalOf[cur] \in {0, seen.g}

Made(p) == \E g \in 1 .. Len(maker) : maker[g] = p

(* Where the text of a prompt whose claim was never undone can still be    *)
(* turned into a goal, it has not been yet.                                *)
Fresh ==
  \A p \in Prompts \ reset :
    /\ status[p] \in {"new", "pending"} => ~Made(p) /\ turn # p /\ work # p
    /\ work = p /\ stage = "routing" => ~Made(p)
    /\ turn = p => ~Made(p)
    /\ pc = "mode" /\ cur = p => ~Made(p) /\ turn # p /\ status[p] \notin {"new", "pending"}

(* The pump runs only between two pieces of work.                          *)
Working ==
  /\ stage # "done" => work # None
  /\ pc \notin {"loop", "inbox"} => work = None

Orderly == TypeOK /\ Working /\ Holding /\ SequencesUnique /\ RunningIsFront

Credited == Bounded /\ Binding /\ GoalBoundOnce /\ Reading

QInv == Orderly /\ Credited /\ SettledHonestly /\ Fresh /\ OneGoalEach

USE QueueConstants

(* Every step keeps the types. *)
LEMMA TypeStep ==
  ASSUME QInv, [Next]_vars
  PROVE  TypeOK'
<1>1. CASE Join
  BY <1>1 DEF Join, QInv, Orderly, TypeOK, RowStatus, GoalNo, rows, ui, Working, Holding
<1>2. CASE SyncList
  BY <1>2 DEF SyncList, QInv, Orderly, TypeOK, RowStatus, GoalNo, rows, ui, Working, Holding
<1>3. CASE SyncItem
  BY <1>3 DEF SyncItem, Return, NoGoal, Finished, CreatedSince, Newest, QInv, Orderly, TypeOK, RowStatus, GoalNo, rows, ui, Working, Holding
<1>4. CASE bind_prompt_goal
  BY <1>4 DEF bind_prompt_goal, Return, NoGoal, Finished, QInv, Orderly, TypeOK, RowStatus, GoalNo, rows, ui, Working, Holding
<1>5. CASE SyncFinish
  <2>1. seen.st \in RowStatus
    BY <1>5 DEF SyncFinish, QInv, Credited, Reading, RowStatus
  <2>2. status' \in [Prompts -> RowStatus]
    BY <2>1, <1>5 DEF SyncFinish, QInv, Orderly, TypeOK, RowStatus, GoalNo, rows, ui
  <2> QED BY <2>2, <1>5 DEF SyncFinish, NoGoal, QInv, Orderly, TypeOK, RowStatus, GoalNo, rows, ui
<1>6. CASE SyncGuard
  BY <1>6 DEF SyncGuard, Return, NoGoal, QInv, Orderly, TypeOK, RowStatus, GoalNo, rows, ui, Working, Holding
<1>7. CASE claim_next_prompt
  <2>1. Newest \in GoalNo
    BY DEF Newest, QInv, Orderly, TypeOK
  <2>2. CASE UNCHANGED <<status, from>> /\ Return
    BY <2>2, <1>7 DEF claim_next_prompt, Return, NoGoal, QInv, Orderly, TypeOK, RowStatus, GoalNo, rows, ui
  <2>3. ASSUME NEW p \in Prompts,
               status' = [status EXCEPT ![p] = "running"],
               from' = [from EXCEPT ![p] = Newest],
               cur' = p, pc' = "mode", seen' = NoGoal
        PROVE  TypeOK'
    <3>1. status' \in [Prompts -> RowStatus] /\ from' \in [Prompts -> GoalNo]
      BY <2>1, <2>3 DEF QInv, Orderly, TypeOK, RowStatus, GoalNo, rows, ui
    <3> HIDE DEF Newest
    <3> QED BY <3>1, <2>3, <1>7 DEF claim_next_prompt, NoGoal, QInv, Orderly, TypeOK, RowStatus, GoalNo, rows, ui
  <2> QED BY <2>2, <2>3, <1>7 DEF claim_next_prompt
<1>8. CASE StartPrompt
  BY <1>8 DEF StartPrompt, QInv, Orderly, TypeOK, RowStatus, GoalNo, rows, ui, Working, Holding
<1>9. CASE BlockPrompt
  BY <1>9 DEF BlockPrompt, Return, NoGoal, QInv, Orderly, TypeOK, RowStatus, GoalNo, rows, ui, Working, Holding
<1>10. CASE InboxEmpty
  BY <1>10 DEF InboxEmpty, QInv, Orderly, TypeOK, RowStatus, GoalNo, rows, ui, Working, Holding
<1>11. CASE StartCommand
  BY <1>11 DEF StartCommand, QInv, Orderly, TypeOK, RowStatus, GoalNo, rows, ui, Working, Holding
<1>12. CASE SaveTurn
  BY <1>12 DEF SaveTurn, QInv, Orderly, TypeOK, RowStatus, GoalNo, rows, ui, Working, Holding
<1>13. CASE MakeGoal
  BY <1>13 DEF MakeGoal, create_goal, QInv, Orderly, TypeOK, RowStatus, GoalNo, rows, ui, Working, Holding
<1>14. CASE WorkEnds
  BY <1>14 DEF WorkEnds, QInv, Orderly, TypeOK, RowStatus, GoalNo, rows, ui, Working, Holding
<1>15. CASE WebSubmit
  <2>1. ASSUME NEW who \in Prompts \union {User}, create_goal(who) PROVE
          /\ goals' \in Seq({"active", "completed", "cancelled"}) /\ Len(goals') \in GoalNo
          /\ maker' \in Seq(Prompts \union {User}) /\ Len(maker') = Len(goals')
          /\ turn' = None
    BY <2>1 DEF create_goal, QInv, Orderly, TypeOK, GoalNo
  <2>2. asks' \in 0 .. MaxAsks
    BY <1>15 DEF WebSubmit, QInv, Orderly, TypeOK, RowStatus, GoalNo, rows, ui
  <2>3. CASE UNCHANGED <<goals, maker>>
    BY <2>2, <2>3, <1>15 DEF WebSubmit, create_goal, QInv, Orderly, TypeOK, RowStatus, GoalNo, rows, ui
  <2>4. CASE \E who \in Prompts \union {User} : create_goal(who)
    BY <2>1, <2>2, <2>4, <1>15 DEF WebSubmit, QInv, Orderly, TypeOK, RowStatus, GoalNo, rows, ui
  <2> QED BY <2>3, <2>4, <1>15 DEF WebSubmit, QInv, Orderly, TypeOK
<1>16. CASE WebTurn
  <2>1. ASSUME NEW who \in Prompts \union {User}, create_goal(who) PROVE
          /\ goals' \in Seq({"active", "completed", "cancelled"}) /\ Len(goals') \in GoalNo
          /\ maker' \in Seq(Prompts \union {User}) /\ Len(maker') = Len(goals')
          /\ turn' = None
    BY <2>1 DEF create_goal, QInv, Orderly, TypeOK, GoalNo
  <2>2. asks' \in 0 .. MaxAsks
    BY <1>16 DEF WebTurn, QInv, Orderly, TypeOK, RowStatus, GoalNo, rows, ui
  <2>3. CASE UNCHANGED <<goals, maker>>
    BY <2>2, <2>3, <1>16 DEF WebTurn, create_goal, QInv, Orderly, TypeOK, RowStatus, GoalNo, rows, ui
  <2>4. CASE \E who \in Prompts \union {User} : create_goal(who)
    BY <2>1, <2>2, <2>4, <1>16 DEF WebTurn, QInv, Orderly, TypeOK, RowStatus, GoalNo, rows, ui
  <2> QED BY <2>3, <2>4, <1>16 DEF WebTurn, QInv, Orderly, TypeOK
<1>17. CASE GoalCompletes
  BY <1>17 DEF GoalCompletes, ActiveGoal, QInv, Orderly, TypeOK, RowStatus, GoalNo, rows, ui, Working, Holding
<1>18. CASE Dismiss
  BY <1>18 DEF Dismiss, QInv, Orderly, TypeOK, RowStatus, GoalNo, rows, ui, Working, Holding
<1>19. CASE reorder_pending_prompts
  <2>1. PICK order \in [Movable -> {seq[p] : p \in Movable}] :
          seq' = [p \in Prompts |-> IF p \in Movable THEN order[p] ELSE seq[p]]
    BY <1>19 DEF reorder_pending_prompts
  <2>2. \A p \in Movable : order[p] \in Nat
    BY DEF Movable, Live, QInv, Orderly, TypeOK
  <2>3. seq' \in [Prompts -> Nat]
    BY <2>1, <2>2 DEF QInv, Orderly, TypeOK
  <2>4. UNCHANGED <<status, goalOf, from, goals, maker, turn, attention, up, ui, opens, asks, reset>>
    BY <1>19 DEF reorder_pending_prompts
  <2>5. /\ goals' \in Seq({"active", "completed", "cancelled"}) /\ Len(goals') \in GoalNo
        /\ maker' \in Seq(Prompts \union {User}) /\ Len(maker') = Len(goals')
    BY <2>4 DEF QInv, Orderly, TypeOK
  <2>6. seen' \in [g : GoalNo, st : {"none", "active", "completed", "cancelled"}]
    BY <2>4 DEF QInv, Orderly, TypeOK, ui
  <2>7. attention' \in BOOLEAN /\ up' \in BOOLEAN
    BY <2>4 DEF QInv, Orderly, TypeOK
  <2> QED BY <2>3, <2>4, <2>5, <2>6, <2>7 DEF QInv, Orderly, TypeOK, ui
<1>20. CASE cancel_goal_and_session
  BY <1>20 DEF cancel_goal_and_session, ActiveGoal, QInv, Orderly, TypeOK, RowStatus, GoalNo, rows, ui, Working, Holding
<1>21. CASE Crash
  <2>1. opens' \in 0 .. MaxOpens
    BY <1>21 DEF Crash, QInv, Orderly, TypeOK
  <2>2. seen' \in [g : GoalNo, st : {"none", "active", "completed", "cancelled"}]
    BY <1>21 DEF Crash, NoGoal, GoalNo
  <2> QED BY <2>1, <2>2, <1>21 DEF Crash, QInv, Orderly, TypeOK, RowStatus, GoalNo, rows, ui
<1>22. CASE Restart
  BY <1>22 DEF Restart, OpenStore, Unbound, OpenedUnder, QInv, Orderly, TypeOK, RowStatus, GoalNo, rows, ui, Working, Holding
<1>23. CASE ForeignOpen
  BY <1>23 DEF ForeignOpen, OpenStore, Unbound, OpenedUnder, QInv, Orderly, TypeOK, RowStatus, GoalNo, rows, ui, Working, Holding
<1>24. ASSUME NEW p \in Prompts, enqueue_prompt(p) PROVE TypeOK'
  BY <1>24 DEF enqueue_prompt, NextSequence, Queued, QInv, Orderly, TypeOK, RowStatus, GoalNo, rows, ui, Working, Holding
<1>25. CASE UNCHANGED vars
  BY <1>25 DEF vars, rows, ui, QInv, Orderly, TypeOK, RowStatus, GoalNo, rows, ui, Working, Holding
<1> QED BY <1>1, <1>2, <1>3, <1>4, <1>5, <1>6, <1>7, <1>8, <1>9, <1>10, <1>11, <1>12, <1>13, <1>14, <1>15, <1>16, <1>17, <1>18, <1>19, <1>20, <1>21, <1>22, <1>23, <1>24, <1>25 DEF Next

(* A thread that has not finished belongs to somebody. *)
LEMMA WorkingStep ==
  ASSUME QInv, [Next]_vars
  PROVE  Working'
<1>1. CASE Join
  BY <1>1 DEF Join, QInv, Orderly, TypeOK, Working, Holding, rows, ui
<1>2. CASE SyncList
  BY <1>2 DEF SyncList, QInv, Orderly, TypeOK, Working, Holding, rows, ui
<1>3. CASE SyncItem
  BY <1>3 DEF SyncItem, Return, NoGoal, Finished, CreatedSince, Newest, QInv, Orderly, TypeOK, Working, Holding, rows, ui
<1>4. CASE bind_prompt_goal
  BY <1>4 DEF bind_prompt_goal, Return, NoGoal, Finished, QInv, Orderly, TypeOK, Working, Holding, rows, ui
<1>5. CASE SyncFinish
  BY <1>5 DEF SyncFinish, NoGoal, QInv, Orderly, TypeOK, Working, Holding, rows, ui
<1>6. CASE SyncGuard
  BY <1>6 DEF SyncGuard, Return, NoGoal, QInv, Orderly, TypeOK, Working, Holding, rows, ui
<1>7. CASE claim_next_prompt
  BY <1>7 DEF claim_next_prompt, Claimable, Front, Live, Newest, Return, NoGoal, QInv, Orderly, TypeOK, Working, Holding, rows, ui
<1>8. CASE StartPrompt
  BY <1>8 DEF StartPrompt, QInv, Orderly, TypeOK, Working, Holding, rows, ui
<1>9. CASE BlockPrompt
  BY <1>9 DEF BlockPrompt, Return, NoGoal, QInv, Orderly, TypeOK, Working, Holding, rows, ui
<1>10. CASE InboxEmpty
  BY <1>10 DEF InboxEmpty, QInv, Orderly, TypeOK, Working, Holding, rows, ui
<1>11. CASE StartCommand
  BY <1>11 DEF StartCommand, QInv, Orderly, TypeOK, Working, Holding, rows, ui
<1>12. CASE SaveTurn
  BY <1>12 DEF SaveTurn, QInv, Orderly, TypeOK, Working, Holding, rows, ui
<1>13. CASE MakeGoal
  BY <1>13 DEF MakeGoal, create_goal, QInv, Orderly, TypeOK, Working, Holding, rows, ui
<1>14. CASE WorkEnds
  BY <1>14 DEF WorkEnds, QInv, Orderly, TypeOK, Working, Holding, rows, ui
<1>15. CASE WebSubmit
  BY <1>15 DEF WebSubmit, create_goal, QInv, Orderly, TypeOK, Working, Holding, rows, ui
<1>16. CASE WebTurn
  BY <1>16 DEF WebTurn, create_goal, QInv, Orderly, TypeOK, Working, Holding, rows, ui
<1>17. CASE GoalCompletes
  BY <1>17 DEF GoalCompletes, ActiveGoal, QInv, Orderly, TypeOK, Working, Holding, rows, ui
<1>18. CASE Dismiss
  BY <1>18 DEF Dismiss, QInv, Orderly, TypeOK, Working, Holding, rows, ui
<1>19. CASE reorder_pending_prompts
  BY <1>19 DEF reorder_pending_prompts, Movable, Live, QInv, Orderly, TypeOK, Working, Holding, rows, ui
<1>20. CASE cancel_goal_and_session
  BY <1>20 DEF cancel_goal_and_session, ActiveGoal, QInv, Orderly, TypeOK, Working, Holding, rows, ui
<1>21. CASE Crash
  BY <1>21 DEF Crash, NoGoal, QInv, Orderly, TypeOK, Working, Holding, rows, ui
<1>22. CASE Restart
  BY <1>22 DEF Restart, OpenStore, Unbound, OpenedUnder, QInv, Orderly, TypeOK, Working, Holding, rows, ui
<1>23. CASE ForeignOpen
  BY <1>23 DEF ForeignOpen, OpenStore, Unbound, OpenedUnder, QInv, Orderly, TypeOK, Working, Holding, rows, ui
<1>24. ASSUME NEW p \in Prompts, enqueue_prompt(p) PROVE Working'
  BY <1>24 DEF enqueue_prompt, NextSequence, Queued, QInv, Orderly, TypeOK, Working, Holding, rows, ui
<1>25. CASE UNCHANGED vars
  BY <1>25 DEF vars, rows, ui, QInv, Orderly, TypeOK, Working, Holding, rows, ui
<1> QED BY <1>1, <1>2, <1>3, <1>4, <1>5, <1>6, <1>7, <1>8, <1>9, <1>10, <1>11, <1>12, <1>13, <1>14, <1>15, <1>16, <1>17, <1>18, <1>19, <1>20, <1>21, <1>22, <1>23, <1>24, <1>25 DEF Next

(* The pump holds the only prompt that may run. *)
LEMMA HoldingStep ==
  ASSUME QInv, [Next]_vars
  PROVE  Holding'
<1>1. CASE Join
  BY <1>1 DEF Join, QInv, Orderly, TypeOK, RowStatus, Holding, SequencesUnique, RunningIsFront, Queued, Live, Front, rows, ui
<1>2. CASE SyncList
  BY <1>2 DEF SyncList, QInv, Orderly, TypeOK, RowStatus, Holding, SequencesUnique, RunningIsFront, Queued, Live, Front, rows, ui
<1>3. CASE SyncItem
  BY <1>3 DEF SyncItem, Return, NoGoal, Finished, CreatedSince, Newest, QInv, Orderly, TypeOK, RowStatus, Holding, SequencesUnique, RunningIsFront, Queued, Live, Front, rows, ui
<1>4. CASE bind_prompt_goal
  BY <1>4 DEF bind_prompt_goal, Return, NoGoal, Finished, QInv, Orderly, TypeOK, RowStatus, Holding, SequencesUnique, RunningIsFront, Queued, Live, Front, rows, ui
<1>5. CASE SyncFinish
  BY <1>5 DEF SyncFinish, NoGoal, QInv, Orderly, TypeOK, RowStatus, Holding, SequencesUnique, RunningIsFront, Queued, Live, Front, rows, ui
<1>6. CASE SyncGuard
  BY <1>6 DEF SyncGuard, Return, NoGoal, QInv, Orderly, TypeOK, RowStatus, Holding, SequencesUnique, RunningIsFront, Queued, Live, Front, rows, ui
<1>7. CASE claim_next_prompt
  BY <1>7 DEF claim_next_prompt, Claimable, Front, Live, Newest, Return, NoGoal, QInv, Orderly, TypeOK, RowStatus, Holding, SequencesUnique, RunningIsFront, Queued, Live, Front, rows, ui
<1>8. CASE StartPrompt
  BY <1>8 DEF StartPrompt, QInv, Orderly, TypeOK, RowStatus, Holding, SequencesUnique, RunningIsFront, Queued, Live, Front, rows, ui
<1>9. CASE BlockPrompt
  BY <1>9 DEF BlockPrompt, Return, NoGoal, QInv, Orderly, TypeOK, RowStatus, Holding, SequencesUnique, RunningIsFront, Queued, Live, Front, rows, ui
<1>10. CASE InboxEmpty
  BY <1>10 DEF InboxEmpty, QInv, Orderly, TypeOK, RowStatus, Holding, SequencesUnique, RunningIsFront, Queued, Live, Front, rows, ui
<1>11. CASE StartCommand
  BY <1>11 DEF StartCommand, QInv, Orderly, TypeOK, RowStatus, Holding, SequencesUnique, RunningIsFront, Queued, Live, Front, rows, ui
<1>12. CASE cancel_goal_and_session
  BY <1>12 DEF cancel_goal_and_session, ActiveGoal, QInv, Orderly, TypeOK, RowStatus, Holding, SequencesUnique, RunningIsFront, Queued, Live, Front, rows, ui
<1>13. CASE Crash
  BY <1>13 DEF Crash, NoGoal, QInv, Orderly, TypeOK, RowStatus, Holding, SequencesUnique, RunningIsFront, Queued, Live, Front, rows, ui
<1>14. CASE Restart
  BY <1>14 DEF Restart, OpenStore, Unbound, OpenedUnder, QInv, Orderly, TypeOK, RowStatus, Holding, SequencesUnique, RunningIsFront, Queued, Live, Front, rows, ui
<1>15. CASE ForeignOpen
  BY <1>15 DEF ForeignOpen, OpenStore, Unbound, OpenedUnder, QInv, Orderly, TypeOK, RowStatus, Holding, SequencesUnique, RunningIsFront, Queued, Live, Front, rows, ui
<1>16. ASSUME NEW p \in Prompts, enqueue_prompt(p) PROVE Holding'
  BY <1>16 DEF enqueue_prompt, NextSequence, Queued, QInv, Orderly, TypeOK, RowStatus, Holding, SequencesUnique, RunningIsFront, Queued, Live, Front, rows, ui
<1>17. CASE UNCHANGED <<status, pc, cur>>
  BY <1>17 DEF QInv, Orderly, TypeOK, RowStatus, Holding, SequencesUnique, RunningIsFront, Queued, Live, Front, rows, ui
<1> QED BY <1>1, <1>2, <1>3, <1>4, <1>5, <1>6, <1>7, <1>8, <1>9, <1>10, <1>11, <1>12, <1>13, <1>14, <1>15, <1>16, <1>17 DEF Next, vars, rows, ui, SaveTurn, MakeGoal, WorkEnds, WebSubmit, WebTurn, GoalCompletes, Dismiss, reorder_pending_prompts

(* No step repeats a sequence number. *)
LEMMA UniqueStep ==
  ASSUME QInv, [Next]_vars
  PROVE  SequencesUnique'
<1>1. CASE SyncFinish
  BY <1>1 DEF SyncFinish, NoGoal, QInv, Orderly, TypeOK, RowStatus, Holding, SequencesUnique, Queued, Live, Credited, Reading, rows
<1>2. CASE claim_next_prompt
  <2>1. seq' = seq /\ Queued' = Queued
    BY <1>2 DEF claim_next_prompt, Claimable, Front, Live, Queued, QInv, Orderly, TypeOK, RowStatus
  <2> QED BY <2>1 DEF SequencesUnique, QInv, Orderly
<1>3. CASE BlockPrompt
  BY <1>3 DEF BlockPrompt, Return, NoGoal, QInv, Orderly, TypeOK, RowStatus, Holding, SequencesUnique, Queued, Live, Credited, Reading, rows
<1>4. CASE reorder_pending_prompts
  <2>1. PICK order \in [Movable -> {seq[p] : p \in Movable}] :
          /\ \A p, q \in Movable : order[p] = order[q] => p = q
          /\ seq' = [p \in Prompts |-> IF p \in Movable THEN order[p] ELSE seq[p]]
    BY <1>4 DEF reorder_pending_prompts
  <2>2. Queued' = Queued /\ Movable \subseteq Queued
    BY <1>4 DEF reorder_pending_prompts, Queued, Movable, Live
  <2>3. ASSUME NEW p \in Queued, NEW q \in Queued, seq'[p] = seq'[q] PROVE p = q
    <3>1. CASE p \in Movable /\ q \in Movable
      BY <3>1, <2>1, <2>2, <2>3 DEF Queued
    <3>2. CASE p \notin Movable /\ q \notin Movable
      BY <3>2, <2>1, <2>3 DEF Queued, SequencesUnique, QInv, Orderly
    <3>3. ASSUME NEW a \in Movable, NEW b \in Queued, b \notin Movable PROVE seq'[a] # seq'[b]
      <4>1. PICK c \in Movable : order[a] = seq[c]
        BY <2>1
      <4> QED BY <4>1, <3>3, <2>1, <2>2 DEF Queued, SequencesUnique, QInv, Orderly
    <3> QED BY <3>1, <3>2, <3>3, <2>3
  <2> QED BY <2>2, <2>3 DEF SequencesUnique
<1>5. CASE cancel_goal_and_session
  BY <1>5 DEF cancel_goal_and_session, ActiveGoal, QInv, Orderly, TypeOK, RowStatus, Holding, SequencesUnique, Queued, Live, Credited, Reading, rows
<1>6. CASE Restart
  BY <1>6 DEF Restart, OpenStore, Unbound, OpenedUnder, QInv, Orderly, TypeOK, RowStatus, Holding, SequencesUnique, Queued, Live, Credited, Reading, rows
<1>7. CASE ForeignOpen
  BY <1>7 DEF ForeignOpen, OpenStore, Unbound, OpenedUnder, QInv, Orderly, TypeOK, RowStatus, Holding, SequencesUnique, Queued, Live, Credited, Reading, rows
<1>8. ASSUME NEW p \in Prompts, enqueue_prompt(p) PROVE SequencesUnique'
  BY <1>8 DEF enqueue_prompt, NextSequence, Queued, QInv, Orderly, TypeOK, RowStatus, Holding, SequencesUnique, Queued, Live, Credited, Reading, rows
<1>9. CASE UNCHANGED <<status, seq>>
  BY <1>9 DEF QInv, Orderly, TypeOK, RowStatus, Holding, SequencesUnique, Queued, Live, Credited, Reading, rows
<1> QED BY <1>1, <1>2, <1>3, <1>4, <1>5, <1>6, <1>7, <1>8, <1>9 DEF Next, vars, rows, ui, Join, SyncList, SyncItem, bind_prompt_goal, SyncGuard, StartPrompt, InboxEmpty, StartCommand, SaveTurn, MakeGoal, WorkEnds, WebSubmit, WebTurn, GoalCompletes, Dismiss, Crash

(* The running prompt stays the front. *)
LEMMA FrontStep ==
  ASSUME QInv, [Next]_vars
  PROVE  RunningIsFront'
<1>1. CASE SyncFinish
  BY <1>1 DEF SyncFinish, NoGoal, QInv, Orderly, TypeOK, RowStatus, Holding, SequencesUnique, RunningIsFront, Queued, Live, Front, Credited, Reading, rows
<1>2. CASE claim_next_prompt
  BY <1>2 DEF claim_next_prompt, Claimable, Front, Live, Newest, Return, NoGoal, QInv, Orderly, TypeOK, RowStatus, Holding, SequencesUnique, RunningIsFront, Queued, Live, Front, Credited, Reading, rows
<1>3. CASE BlockPrompt
  BY <1>3 DEF BlockPrompt, Return, NoGoal, QInv, Orderly, TypeOK, RowStatus, Holding, SequencesUnique, RunningIsFront, Queued, Live, Front, Credited, Reading, rows
<1>4. CASE reorder_pending_prompts
  BY <1>4 DEF reorder_pending_prompts, Movable, Live, QInv, Orderly, TypeOK, RowStatus, Holding, SequencesUnique, RunningIsFront, Queued, Live, Front, Credited, Reading, rows
<1>5. CASE cancel_goal_and_session
  BY <1>5 DEF cancel_goal_and_session, ActiveGoal, QInv, Orderly, TypeOK, RowStatus, Holding, SequencesUnique, RunningIsFront, Queued, Live, Front, Credited, Reading, rows
<1>6. CASE Restart
  BY <1>6 DEF Restart, OpenStore, Unbound, OpenedUnder, QInv, Orderly, TypeOK, RowStatus, Holding, SequencesUnique, RunningIsFront, Queued, Live, Front, Credited, Reading, rows
<1>7. CASE ForeignOpen
  BY <1>7 DEF ForeignOpen, OpenStore, Unbound, OpenedUnder, QInv, Orderly, TypeOK, RowStatus, Holding, SequencesUnique, RunningIsFront, Queued, Live, Front, Credited, Reading, rows
<1>8. ASSUME NEW p \in Prompts, enqueue_prompt(p) PROVE RunningIsFront'
  BY <1>8 DEF enqueue_prompt, NextSequence, Queued, QInv, Orderly, TypeOK, RowStatus, Holding, SequencesUnique, RunningIsFront, Queued, Live, Front, Credited, Reading, rows
<1>9. CASE UNCHANGED <<status, seq>>
  BY <1>9 DEF QInv, Orderly, TypeOK, RowStatus, Holding, SequencesUnique, RunningIsFront, Queued, Live, Front, Credited, Reading, rows
<1> QED BY <1>1, <1>2, <1>3, <1>4, <1>5, <1>6, <1>7, <1>8, <1>9 DEF Next, vars, rows, ui, Join, SyncList, SyncItem, bind_prompt_goal, SyncGuard, StartPrompt, InboxEmpty, StartCommand, SaveTurn, MakeGoal, WorkEnds, WebSubmit, WebTurn, GoalCompletes, Dismiss, Crash

(* A row that claim_next_prompt takes is alone: nothing else is running. *)
LEMMA ClaimAlone ==
  ASSUME Orderly, NEW p \in Prompts, Claimable(p), NEW q \in Prompts
  PROVE  status[q] # "running"
<1> SUFFICES ASSUME status[q] = "running" PROVE FALSE
  OBVIOUS
<1>1. status[p] = "pending" /\ Front(p)
  BY DEF Claimable
<1>2. Front(q) /\ q \in Live /\ p \in Live
  BY <1>1 DEF Orderly, RunningIsFront, Front
<1>3. seq[p] \in Nat /\ seq[q] \in Nat
  BY DEF Orderly, TypeOK
<1>4. seq[p] = seq[q]
  BY <1>1, <1>2, <1>3 DEF Front
<1> QED BY <1>1, <1>2, <1>4 DEF Orderly, SequencesUnique, Queued, Live

(* create_goal adds one goal and changes no other. *)
LEMMA Creation ==
  ASSUME QInv, NEW who, create_goal(who)
  PROVE  /\ Len(goals') = Len(goals) + 1 /\ Len(maker') = Len(goals) + 1
         /\ \A g \in 1 .. Len(goals) : goals'[g] = goals[g] /\ maker'[g] = maker[g]
         /\ maker'[Len(goals) + 1] = who
         /\ Len(goals) \in Nat /\ Len(maker) = Len(goals)
         /\ turn' = None
BY DEF create_goal, QInv, Orderly, TypeOK

(* Rows keep referring to goals that exist. *)
LEMMA BoundedStep ==
  ASSUME QInv, [Next]_vars
  PROVE  Bounded'
<1>1. CASE bind_prompt_goal
  BY <1>1 DEF bind_prompt_goal, Return, NoGoal, Finished, QInv, Orderly, TypeOK, RowStatus, GoalNo, Holding, Credited, Bounded, Binding, Reading, rows, ui
<1>2. CASE claim_next_prompt
  <2>1. CASE UNCHANGED <<status, from>>
    BY <2>1, <1>2 DEF claim_next_prompt, QInv, Orderly, Credited, Bounded, TypeOK, GoalNo
  <2>2. ASSUME NEW p \in Prompts, Claimable(p),
               status' = [status EXCEPT ![p] = "running"],
               from' = [from EXCEPT ![p] = Newest]
        PROVE  Bounded'
    <3>1. goals' = goals /\ goalOf' = goalOf /\ Newest = Len(goals) /\ Len(goals) \in Nat
      BY <1>2 DEF claim_next_prompt, Newest, QInv, Orderly, TypeOK
    <3>2. status[p] = "pending" /\ TRUE
      BY <2>2, ClaimAlone DEF Claimable, QInv
    <3> QED BY <2>2, <3>1, <3>2 DEF QInv, Orderly, Credited, Bounded, TypeOK, GoalNo
  <2> QED BY <2>1, <2>2, <1>2 DEF claim_next_prompt
<1>3. CASE MakeGoal
  BY <1>3 DEF MakeGoal, create_goal, QInv, Orderly, TypeOK, RowStatus, GoalNo, Holding, Credited, Bounded, Binding, Reading, rows, ui
<1>4. CASE WebSubmit
  BY <1>4 DEF WebSubmit, create_goal, QInv, Orderly, TypeOK, RowStatus, GoalNo, Holding, Credited, Bounded, Binding, Reading, rows, ui
<1>5. CASE WebTurn
  BY <1>5 DEF WebTurn, create_goal, QInv, Orderly, TypeOK, RowStatus, GoalNo, Holding, Credited, Bounded, Binding, Reading, rows, ui
<1>6. CASE GoalCompletes
  BY <1>6 DEF GoalCompletes, ActiveGoal, QInv, Orderly, TypeOK, RowStatus, GoalNo, Holding, Credited, Bounded, Binding, Reading, rows, ui
<1>7. CASE cancel_goal_and_session
  BY <1>7 DEF cancel_goal_and_session, ActiveGoal, QInv, Orderly, TypeOK, RowStatus, GoalNo, Holding, Credited, Bounded, Binding, Reading, rows, ui
<1>8. CASE UNCHANGED <<from, goalOf, goals>>
  BY <1>8 DEF QInv, Orderly, TypeOK, RowStatus, GoalNo, Holding, Credited, Bounded, Binding, Reading, rows, ui
<1> QED BY <1>1, <1>2, <1>3, <1>4, <1>5, <1>6, <1>7, <1>8 DEF Next, vars, rows, ui, Join, SyncList, SyncItem, SyncFinish, SyncGuard, StartPrompt, BlockPrompt, InboxEmpty, StartCommand, SaveTurn, WorkEnds, Dismiss, reorder_pending_prompts, Crash, Restart, ForeignOpen, enqueue_prompt

(* The pump binds only goals younger than the claim. *)
LEMMA BindingStep ==
  ASSUME QInv, [Next]_vars
  PROVE  Binding'
<1>1. CASE bind_prompt_goal
  BY <1>1 DEF bind_prompt_goal, Return, NoGoal, Finished, QInv, Orderly, TypeOK, RowStatus, GoalNo, Holding, Credited, Bounded, Binding, Reading, rows, ui, SequencesUnique, RunningIsFront, Queued, Live, Front
<1>2. CASE SyncFinish
  BY <1>2 DEF SyncFinish, NoGoal, QInv, Orderly, TypeOK, RowStatus, GoalNo, Holding, Credited, Bounded, Binding, Reading, rows, ui, SequencesUnique, RunningIsFront, Queued, Live, Front
<1>3. CASE claim_next_prompt
  <2>1. CASE UNCHANGED <<status, from>>
    BY <2>1, <1>3 DEF claim_next_prompt, QInv, Orderly, Credited, Bounded, Binding, TypeOK, GoalNo
  <2>2. ASSUME NEW p \in Prompts, Claimable(p),
               status' = [status EXCEPT ![p] = "running"],
               from' = [from EXCEPT ![p] = Newest]
        PROVE  Binding'
    <3>1. goals' = goals /\ goalOf' = goalOf /\ Newest = Len(goals) /\ Len(goals) \in Nat
      BY <1>3 DEF claim_next_prompt, Newest, QInv, Orderly, TypeOK
    <3>2. status[p] = "pending" /\ \A q \in Prompts : status[q] # "running"
      BY <2>2, ClaimAlone DEF Claimable, QInv
    <3> QED BY <2>2, <3>1, <3>2 DEF QInv, Orderly, Credited, Bounded, Binding, TypeOK, GoalNo
  <2> QED BY <2>1, <2>2, <1>3 DEF claim_next_prompt
<1>4. CASE BlockPrompt
  BY <1>4 DEF BlockPrompt, Return, NoGoal, QInv, Orderly, TypeOK, RowStatus, GoalNo, Holding, Credited, Bounded, Binding, Reading, rows, ui, SequencesUnique, RunningIsFront, Queued, Live, Front
<1>5. CASE cancel_goal_and_session
  BY <1>5 DEF cancel_goal_and_session, ActiveGoal, QInv, Orderly, TypeOK, RowStatus, GoalNo, Holding, Credited, Bounded, Binding, Reading, rows, ui, SequencesUnique, RunningIsFront, Queued, Live, Front
<1>6. CASE Restart
  BY <1>6 DEF Restart, OpenStore, Unbound, OpenedUnder, QInv, Orderly, TypeOK, RowStatus, GoalNo, Holding, Credited, Bounded, Binding, Reading, rows, ui, SequencesUnique, RunningIsFront, Queued, Live, Front
<1>7. CASE ForeignOpen
  BY <1>7 DEF ForeignOpen, OpenStore, Unbound, OpenedUnder, QInv, Orderly, TypeOK, RowStatus, GoalNo, Holding, Credited, Bounded, Binding, Reading, rows, ui, SequencesUnique, RunningIsFront, Queued, Live, Front
<1>8. ASSUME NEW p \in Prompts, enqueue_prompt(p) PROVE Binding'
  BY <1>8 DEF enqueue_prompt, NextSequence, Queued, QInv, Orderly, TypeOK, RowStatus, GoalNo, Holding, Credited, Bounded, Binding, Reading, rows, ui, SequencesUnique, RunningIsFront, Queued, Live, Front
<1>9. CASE UNCHANGED <<status, from, goalOf>>
  BY <1>9 DEF QInv, Orderly, TypeOK, RowStatus, GoalNo, Holding, Credited, Bounded, Binding, Reading, rows, ui, SequencesUnique, RunningIsFront, Queued, Live, Front
<1> QED BY <1>1, <1>2, <1>3, <1>4, <1>5, <1>6, <1>7, <1>8, <1>9 DEF Next, vars, rows, ui, Join, SyncList, SyncItem, SyncGuard, StartPrompt, InboxEmpty, StartCommand, SaveTurn, MakeGoal, WorkEnds, WebSubmit, WebTurn, GoalCompletes, Dismiss, reorder_pending_prompts, Crash

(* ... and so credits no goal twice. *)
LEMMA BoundOnceStep ==
  ASSUME QInv, [Next]_vars
  PROVE  GoalBoundOnce'
<1>1. CASE bind_prompt_goal
  BY <1>1 DEF bind_prompt_goal, Return, NoGoal, Finished, QInv, Orderly, TypeOK, GoalNo, Holding, Credited, Binding, Reading, GoalBoundOnce
<1>2. CASE UNCHANGED <<goalOf>>
  BY <1>2 DEF QInv, Orderly, TypeOK, GoalNo, Holding, Credited, Binding, Reading, GoalBoundOnce
<1> QED BY <1>1, <1>2 DEF Next, vars, rows, ui, Join, SyncList, SyncItem, SyncFinish, SyncGuard, claim_next_prompt, StartPrompt, BlockPrompt, InboxEmpty, StartCommand, SaveTurn, MakeGoal, WorkEnds, WebSubmit, WebTurn, GoalCompletes, Dismiss, reorder_pending_prompts, cancel_goal_and_session, Crash, Restart, ForeignOpen, enqueue_prompt

(* What the pump read of an ended goal stays true. *)
LEMMA ReadingStep ==
  ASSUME QInv, [Next]_vars
  PROVE  Reading'
<1>1. CASE Join
  BY <1>1 DEF Join, QInv, Orderly, TypeOK, RowStatus, GoalNo, Holding, Credited, Bounded, Binding, Reading, rows, ui
<1>2. CASE SyncList
  BY <1>2 DEF SyncList, QInv, Orderly, TypeOK, RowStatus, GoalNo, Holding, Credited, Bounded, Binding, Reading, rows, ui
<1>3. CASE SyncItem
  BY <1>3 DEF SyncItem, Return, NoGoal, Finished, CreatedSince, Newest, QInv, Orderly, TypeOK, RowStatus, GoalNo, Holding, Credited, Bounded, Binding, Reading, rows, ui
<1>4. CASE bind_prompt_goal
  BY <1>4 DEF bind_prompt_goal, Return, NoGoal, Finished, QInv, Orderly, TypeOK, RowStatus, GoalNo, Holding, Credited, Bounded, Binding, Reading, rows, ui
<1>5. CASE SyncFinish
  BY <1>5 DEF SyncFinish, NoGoal, QInv, Orderly, TypeOK, RowStatus, GoalNo, Holding, Credited, Bounded, Binding, Reading, rows, ui
<1>6. CASE SyncGuard
  BY <1>6 DEF SyncGuard, Return, NoGoal, QInv, Orderly, TypeOK, RowStatus, GoalNo, Holding, Credited, Bounded, Binding, Reading, rows, ui
<1>7. CASE claim_next_prompt
  BY <1>7 DEF claim_next_prompt, Claimable, Front, Live, Newest, Return, NoGoal, QInv, Orderly, TypeOK, RowStatus, GoalNo, Holding, Credited, Bounded, Binding, Reading, rows, ui
<1>8. CASE StartPrompt
  BY <1>8 DEF StartPrompt, QInv, Orderly, TypeOK, RowStatus, GoalNo, Holding, Credited, Bounded, Binding, Reading, rows, ui
<1>9. CASE BlockPrompt
  BY <1>9 DEF BlockPrompt, Return, NoGoal, QInv, Orderly, TypeOK, RowStatus, GoalNo, Holding, Credited, Bounded, Binding, Reading, rows, ui
<1>10. CASE InboxEmpty
  BY <1>10 DEF InboxEmpty, QInv, Orderly, TypeOK, RowStatus, GoalNo, Holding, Credited, Bounded, Binding, Reading, rows, ui
<1>11. CASE StartCommand
  BY <1>11 DEF StartCommand, QInv, Orderly, TypeOK, RowStatus, GoalNo, Holding, Credited, Bounded, Binding, Reading, rows, ui
<1>12. CASE MakeGoal
  BY <1>12 DEF MakeGoal, create_goal, QInv, Orderly, TypeOK, RowStatus, GoalNo, Holding, Credited, Bounded, Binding, Reading, rows, ui
<1>13. CASE WebSubmit
  BY <1>13 DEF WebSubmit, create_goal, QInv, Orderly, TypeOK, RowStatus, GoalNo, Holding, Credited, Bounded, Binding, Reading, rows, ui
<1>14. CASE WebTurn
  BY <1>14 DEF WebTurn, create_goal, QInv, Orderly, TypeOK, RowStatus, GoalNo, Holding, Credited, Bounded, Binding, Reading, rows, ui
<1>15. CASE GoalCompletes
  BY <1>15 DEF GoalCompletes, ActiveGoal, QInv, Orderly, TypeOK, RowStatus, GoalNo, Holding, Credited, Bounded, Binding, Reading, rows, ui
<1>16. CASE cancel_goal_and_session
  BY <1>16 DEF cancel_goal_and_session, ActiveGoal, QInv, Orderly, TypeOK, RowStatus, GoalNo, Holding, Credited, Bounded, Binding, Reading, rows, ui
<1>17. CASE Crash
  BY <1>17 DEF Crash, NoGoal, QInv, Orderly, TypeOK, RowStatus, GoalNo, Holding, Credited, Bounded, Binding, Reading, rows, ui
<1>18. CASE UNCHANGED <<pc, cur, seen, goals, from, goalOf>>
  BY <1>18 DEF QInv, Orderly, TypeOK, RowStatus, GoalNo, Holding, Credited, Bounded, Binding, Reading, rows, ui
<1> QED BY <1>1, <1>2, <1>3, <1>4, <1>5, <1>6, <1>7, <1>8, <1>9, <1>10, <1>11, <1>12, <1>13, <1>14, <1>15, <1>16, <1>17, <1>18 DEF Next, vars, rows, ui, SaveTurn, WorkEnds, Dismiss, reorder_pending_prompts, Restart, ForeignOpen, enqueue_prompt

(* A prompt is settled as its goal was. *)
LEMMA SettledStep ==
  ASSUME QInv, [Next]_vars
  PROVE  SettledHonestly'
<1>1. CASE bind_prompt_goal
  BY <1>1 DEF bind_prompt_goal, Return, NoGoal, Finished, QInv, Orderly, TypeOK, RowStatus, GoalNo, Holding, Credited, Bounded, Binding, Reading, SettledHonestly, rows, ui
<1>2. CASE SyncFinish
  BY <1>2 DEF SyncFinish, NoGoal, QInv, Orderly, TypeOK, RowStatus, GoalNo, Holding, Credited, Bounded, Binding, Reading, SettledHonestly, rows, ui
<1>3. CASE claim_next_prompt
  <2>1. CASE UNCHANGED <<status, from>>
    BY <2>1, <1>3 DEF claim_next_prompt, SettledHonestly, QInv, Orderly, TypeOK
  <2>2. ASSUME NEW p \in Prompts, Claimable(p),
               status' = [status EXCEPT ![p] = "running"],
               from' = [from EXCEPT ![p] = Newest]
        PROVE  SettledHonestly'
    <3>1. goals' = goals /\ goalOf' = goalOf /\ Newest = Len(goals) /\ Len(goals) \in Nat
      BY <1>3 DEF claim_next_prompt, Newest, QInv, Orderly, TypeOK
    <3>2. status[p] = "pending" /\ TRUE
      BY <2>2, ClaimAlone DEF Claimable, QInv
    <3> QED BY <2>2, <3>1, <3>2 DEF SettledHonestly, QInv, Orderly, TypeOK
  <2> QED BY <2>1, <2>2, <1>3 DEF claim_next_prompt
<1>4. CASE BlockPrompt
  BY <1>4 DEF BlockPrompt, Return, NoGoal, QInv, Orderly, TypeOK, RowStatus, GoalNo, Holding, Credited, Bounded, Binding, Reading, SettledHonestly, rows, ui
<1>5. CASE MakeGoal
  BY <1>5 DEF MakeGoal, create_goal, QInv, Orderly, TypeOK, RowStatus, GoalNo, Holding, Credited, Bounded, Binding, Reading, SettledHonestly, rows, ui
<1>6. CASE WebSubmit
  <2>1. ASSUME NEW who, create_goal(who), TRUE
        PROVE  SettledHonestly'
    <3>1. UNCHANGED <<status, from, goalOf>>
      BY <1>6 DEF WebSubmit, rows, ui
    <3>2. /\ Len(goals') = Len(goals) + 1 /\ Len(maker') = Len(goals) + 1
          /\ \A g \in 1 .. Len(goals) : goals'[g] = goals[g] /\ maker'[g] = maker[g]
          /\ maker'[Len(goals) + 1] = who
          /\ Len(goals) \in Nat /\ Len(maker) = Len(goals)
          /\ turn' = None
      BY <2>1, Creation
    <3>3. \A p \in Prompts : Made(p)' => Made(p) \/ p = who
      BY <3>2 DEF Made
    <3> QED BY <2>1, <3>1, <3>2, <3>3, <1>6 DEF WebSubmit, QInv, Orderly, TypeOK, SettledHonestly
  <2>2. CASE UNCHANGED <<goals, maker>>
    BY <2>2, <1>6 DEF WebSubmit, create_goal, rows, ui, Made, QInv, Orderly, TypeOK, SettledHonestly
  <2> QED BY <2>1, <2>2, <1>6 DEF WebSubmit, QInv, Orderly, Working
<1>7. CASE WebTurn
  <2>1. ASSUME NEW who, create_goal(who), TRUE
        PROVE  SettledHonestly'
    <3>1. UNCHANGED <<status, from, goalOf>>
      BY <1>7 DEF WebTurn, rows, ui
    <3>2. /\ Len(goals') = Len(goals) + 1 /\ Len(maker') = Len(goals) + 1
          /\ \A g \in 1 .. Len(goals) : goals'[g] = goals[g] /\ maker'[g] = maker[g]
          /\ maker'[Len(goals) + 1] = who
          /\ Len(goals) \in Nat /\ Len(maker) = Len(goals)
          /\ turn' = None
      BY <2>1, Creation
    <3>3. \A p \in Prompts : Made(p)' => Made(p) \/ p = who
      BY <3>2 DEF Made
    <3> QED BY <2>1, <3>1, <3>2, <3>3, <1>7 DEF WebTurn, QInv, Orderly, TypeOK, SettledHonestly
  <2>2. CASE UNCHANGED <<goals, maker>>
    BY <2>2, <1>7 DEF WebTurn, create_goal, rows, ui, Made, QInv, Orderly, TypeOK, SettledHonestly
  <2> QED BY <2>1, <2>2, <1>7 DEF WebTurn, QInv, Orderly, Working
<1>8. CASE GoalCompletes
  BY <1>8 DEF GoalCompletes, ActiveGoal, QInv, Orderly, TypeOK, RowStatus, GoalNo, Holding, Credited, Bounded, Binding, Reading, SettledHonestly, rows, ui
<1>9. CASE cancel_goal_and_session
  BY <1>9 DEF cancel_goal_and_session, ActiveGoal, QInv, Orderly, TypeOK, RowStatus, GoalNo, Holding, Credited, Bounded, Binding, Reading, SettledHonestly, rows, ui
<1>10. CASE Restart
  BY <1>10 DEF Restart, OpenStore, Unbound, OpenedUnder, QInv, Orderly, TypeOK, RowStatus, GoalNo, Holding, Credited, Bounded, Binding, Reading, SettledHonestly, rows, ui
<1>11. CASE ForeignOpen
  BY <1>11 DEF ForeignOpen, OpenStore, Unbound, OpenedUnder, QInv, Orderly, TypeOK, RowStatus, GoalNo, Holding, Credited, Bounded, Binding, Reading, SettledHonestly, rows, ui
<1>12. ASSUME NEW p \in Prompts, enqueue_prompt(p) PROVE SettledHonestly'
  BY <1>12 DEF enqueue_prompt, NextSequence, Queued, QInv, Orderly, TypeOK, RowStatus, GoalNo, Holding, Credited, Bounded, Binding, Reading, SettledHonestly, rows, ui
<1>13. CASE UNCHANGED <<status, from, goalOf, goals>>
  BY <1>13 DEF QInv, Orderly, TypeOK, RowStatus, GoalNo, Holding, Credited, Bounded, Binding, Reading, SettledHonestly, rows, ui
<1> QED BY <1>1, <1>2, <1>3, <1>4, <1>5, <1>6, <1>7, <1>8, <1>9, <1>10, <1>11, <1>12, <1>13 DEF Next, vars, rows, ui, Join, SyncList, SyncItem, SyncGuard, StartPrompt, InboxEmpty, StartCommand, SaveTurn, WorkEnds, Dismiss, reorder_pending_prompts, Crash

(* No prompt that may still become a goal has become one. *)
LEMMA FreshStep ==
  ASSUME QInv, [Next]_vars
  PROVE  Fresh'
<1>1. CASE Join
  BY <1>1 DEF Join, QInv, Orderly, TypeOK, Working, Holding, Fresh, Made, rows, ui
<1>2. CASE SyncList
  BY <1>2 DEF SyncList, QInv, Orderly, TypeOK, Working, Holding, Fresh, Made, rows, ui
<1>3. CASE SyncItem
  BY <1>3 DEF SyncItem, Return, NoGoal, Finished, CreatedSince, Newest, QInv, Orderly, TypeOK, Working, Holding, Fresh, Made, rows, ui
<1>4. CASE bind_prompt_goal
  BY <1>4 DEF bind_prompt_goal, Return, NoGoal, Finished, QInv, Orderly, TypeOK, Working, Holding, Fresh, Made, rows, ui
<1>5. CASE SyncFinish
  BY <1>5 DEF SyncFinish, NoGoal, QInv, Orderly, TypeOK, Working, Holding, Fresh, Made, rows, ui
<1>6. CASE SyncGuard
  BY <1>6 DEF SyncGuard, Return, NoGoal, QInv, Orderly, TypeOK, Working, Holding, Fresh, Made, rows, ui
<1>7. CASE claim_next_prompt
  BY <1>7 DEF claim_next_prompt, Claimable, Front, Live, Newest, Return, NoGoal, QInv, Orderly, TypeOK, Working, Holding, Fresh, Made, rows, ui
<1>8. CASE StartPrompt
  BY <1>8 DEF StartPrompt, QInv, Orderly, TypeOK, Working, Holding, Fresh, Made, rows, ui
<1>9. CASE BlockPrompt
  BY <1>9 DEF BlockPrompt, Return, NoGoal, QInv, Orderly, TypeOK, Working, Holding, Fresh, Made, rows, ui
<1>10. CASE InboxEmpty
  BY <1>10 DEF InboxEmpty, QInv, Orderly, TypeOK, Working, Holding, Fresh, Made, rows, ui
<1>11. CASE StartCommand
  BY <1>11 DEF StartCommand, QInv, Orderly, TypeOK, Working, Holding, Fresh, Made, rows, ui
<1>12. CASE SaveTurn
  BY <1>12 DEF SaveTurn, QInv, Orderly, TypeOK, Working, Holding, Fresh, Made, rows, ui
<1>13. CASE MakeGoal
  <2>1. ASSUME NEW who, create_goal(who), who # None /\ (who = work \/ who = turn)
        PROVE  Fresh'
    <3>1. UNCHANGED <<status, work, pc, cur, reset>>
      BY <1>13 DEF MakeGoal, rows, ui
    <3>2. /\ Len(goals') = Len(goals) + 1 /\ Len(maker') = Len(goals) + 1
          /\ \A g \in 1 .. Len(goals) : goals'[g] = goals[g] /\ maker'[g] = maker[g]
          /\ maker'[Len(goals) + 1] = who
          /\ Len(goals) \in Nat /\ Len(maker) = Len(goals)
          /\ turn' = None
      BY <2>1, Creation
    <3>3. \A p \in Prompts : Made(p)' => Made(p) \/ p = who
      BY <3>2 DEF Made
    <3> QED BY <2>1, <3>1, <3>2, <3>3, <1>13 DEF MakeGoal, QInv, Orderly, Working, Fresh, TypeOK
  <2>2. CASE UNCHANGED <<goals, maker>>
    BY <2>2, <1>13 DEF MakeGoal, create_goal, rows, ui, Made, QInv, Orderly, Working, Fresh, TypeOK
  <2> QED BY <2>1, <2>2, <1>13 DEF MakeGoal, QInv, Orderly, Working
<1>14. CASE WorkEnds
  BY <1>14 DEF WorkEnds, QInv, Orderly, TypeOK, Working, Holding, Fresh, Made, rows, ui
<1>15. CASE WebSubmit
  <2>1. ASSUME NEW who, create_goal(who), who = User
        PROVE  Fresh'
    <3>1. UNCHANGED <<status, work, stage, pc, cur, reset>>
      BY <1>15 DEF WebSubmit, rows, ui
    <3>2. /\ Len(goals') = Len(goals) + 1 /\ Len(maker') = Len(goals) + 1
          /\ \A g \in 1 .. Len(goals) : goals'[g] = goals[g] /\ maker'[g] = maker[g]
          /\ maker'[Len(goals) + 1] = who
          /\ Len(goals) \in Nat /\ Len(maker) = Len(goals)
          /\ turn' = None
      BY <2>1, Creation
    <3>3. \A p \in Prompts : Made(p)' => Made(p) \/ p = who
      BY <3>2 DEF Made
    <3> QED BY <2>1, <3>1, <3>2, <3>3, <1>15 DEF WebSubmit, QInv, Orderly, Working, Fresh, TypeOK
  <2>2. CASE UNCHANGED <<goals, maker>>
    BY <2>2, <1>15 DEF WebSubmit, create_goal, rows, ui, Made, QInv, Orderly, Working, Fresh, TypeOK
  <2> QED BY <2>1, <2>2, <1>15 DEF WebSubmit, QInv, Orderly, Working
<1>16. CASE WebTurn
  <2>1. ASSUME NEW who, create_goal(who), who = turn
        PROVE  Fresh'
    <3>1. UNCHANGED <<status, work, stage, pc, cur, reset>>
      BY <1>16 DEF WebTurn, rows, ui
    <3>2. /\ Len(goals') = Len(goals) + 1 /\ Len(maker') = Len(goals) + 1
          /\ \A g \in 1 .. Len(goals) : goals'[g] = goals[g] /\ maker'[g] = maker[g]
          /\ maker'[Len(goals) + 1] = who
          /\ Len(goals) \in Nat /\ Len(maker) = Len(goals)
          /\ turn' = None
      BY <2>1, Creation
    <3>3. \A p \in Prompts : Made(p)' => Made(p) \/ p = who
      BY <3>2 DEF Made
    <3> QED BY <2>1, <3>1, <3>2, <3>3, <1>16 DEF WebTurn, QInv, Orderly, Working, Fresh, TypeOK
  <2>2. CASE UNCHANGED <<goals, maker>>
    BY <2>2, <1>16 DEF WebTurn, create_goal, rows, ui, Made, QInv, Orderly, Working, Fresh, TypeOK
  <2> QED BY <2>1, <2>2, <1>16 DEF WebTurn, QInv, Orderly, Working
<1>17. CASE cancel_goal_and_session
  BY <1>17 DEF cancel_goal_and_session, ActiveGoal, QInv, Orderly, TypeOK, Working, Holding, Fresh, Made, rows, ui
<1>18. CASE Crash
  BY <1>18 DEF Crash, NoGoal, QInv, Orderly, TypeOK, Working, Holding, Fresh, Made, rows, ui
<1>19. CASE Restart
  BY <1>19 DEF Restart, OpenStore, Unbound, OpenedUnder, QInv, Orderly, TypeOK, Working, Holding, Fresh, Made, rows, ui
<1>20. CASE ForeignOpen
  BY <1>20 DEF ForeignOpen, OpenStore, Unbound, OpenedUnder, QInv, Orderly, TypeOK, Working, Holding, Fresh, Made, rows, ui
<1>21. ASSUME NEW p \in Prompts, enqueue_prompt(p) PROVE Fresh'
  BY <1>21 DEF enqueue_prompt, NextSequence, Queued, QInv, Orderly, TypeOK, Working, Holding, Fresh, Made, rows, ui
<1>22. CASE UNCHANGED <<status, maker, turn, work, stage, pc, cur, reset>>
  BY <1>22 DEF QInv, Orderly, TypeOK, Working, Holding, Fresh, Made, rows, ui
<1> QED BY <1>1, <1>2, <1>3, <1>4, <1>5, <1>6, <1>7, <1>8, <1>9, <1>10, <1>11, <1>12, <1>13, <1>14, <1>15, <1>16, <1>17, <1>18, <1>19, <1>20, <1>21, <1>22 DEF Next, vars, rows, ui, GoalCompletes, Dismiss, reorder_pending_prompts

(* ... so none becomes two. *)
LEMMA OneGoalStep ==
  ASSUME QInv, [Next]_vars
  PROVE  OneGoalEach'
<1>1. CASE MakeGoal
  <2> SUFFICES ASSUME ~UNCHANGED maker PROVE OneGoalEach'
    BY <1>1 DEF MakeGoal, QInv, OneGoalEach
  <2>1. PICK who \in {work, turn} : who # None /\ create_goal(who)
    BY <1>1 DEF MakeGoal, QInv, Orderly, Working
  <2>2. /\ Len(maker') = Len(goals) + 1 /\ Len(maker) = Len(goals) /\ Len(goals) \in Nat
        /\ \A g \in 1 .. Len(goals) : maker'[g] = maker[g]
        /\ maker'[Len(goals) + 1] = who
    BY <2>1, Creation
  <2>3. \A p \in Prompts \ reset : p = who => ~Made(p)
    BY <2>1, <1>1 DEF MakeGoal, QInv, Fresh
  <2>4. reset' = reset
    BY <1>1 DEF MakeGoal
  <2> QED BY <2>2, <2>3, <2>4 DEF QInv, OneGoalEach, Made
<1>2. CASE WebSubmit
  <2> SUFFICES ASSUME ~UNCHANGED maker PROVE OneGoalEach'
    BY <1>2 DEF WebSubmit, QInv, OneGoalEach
  <2>1. PICK who \in {User} : who # None /\ create_goal(who)
    BY <1>2 DEF WebSubmit, QInv, Orderly, Working
  <2>2. /\ Len(maker') = Len(goals) + 1 /\ Len(maker) = Len(goals) /\ Len(goals) \in Nat
        /\ \A g \in 1 .. Len(goals) : maker'[g] = maker[g]
        /\ maker'[Len(goals) + 1] = who
    BY <2>1, Creation
  <2>3. \A p \in Prompts \ reset : p = who => ~Made(p)
    BY <2>1, <1>2 DEF WebSubmit, QInv, Fresh
  <2>4. reset' = reset
    BY <1>2 DEF WebSubmit
  <2> QED BY <2>2, <2>3, <2>4 DEF QInv, OneGoalEach, Made
<1>3. CASE WebTurn
  <2> SUFFICES ASSUME ~UNCHANGED maker PROVE OneGoalEach'
    BY <1>3 DEF WebTurn, QInv, OneGoalEach
  <2>1. PICK who \in {turn} : who # None /\ create_goal(who)
    BY <1>3 DEF WebTurn, QInv, Orderly, Working
  <2>2. /\ Len(maker') = Len(goals) + 1 /\ Len(maker) = Len(goals) /\ Len(goals) \in Nat
        /\ \A g \in 1 .. Len(goals) : maker'[g] = maker[g]
        /\ maker'[Len(goals) + 1] = who
    BY <2>1, Creation
  <2>3. \A p \in Prompts \ reset : p = who => ~Made(p)
    BY <2>1, <1>3 DEF WebTurn, QInv, Fresh
  <2>4. reset' = reset
    BY <1>3 DEF WebTurn
  <2> QED BY <2>2, <2>3, <2>4 DEF QInv, OneGoalEach, Made
<1>4. CASE Restart
  BY <1>4 DEF Restart, OpenStore, Unbound, OpenedUnder, QInv, Orderly, TypeOK, Working, Holding, Fresh, Made, rows, ui, OneGoalEach
<1>5. CASE ForeignOpen
  BY <1>5 DEF ForeignOpen, OpenStore, Unbound, OpenedUnder, QInv, Orderly, TypeOK, Working, Holding, Fresh, Made, rows, ui, OneGoalEach
<1>6. CASE UNCHANGED <<maker, reset>>
  BY <1>6 DEF QInv, Orderly, TypeOK, Working, Holding, Fresh, Made, rows, ui, OneGoalEach
<1> QED BY <1>1, <1>2, <1>3, <1>4, <1>5, <1>6 DEF Next, vars, rows, ui, Join, SyncList, SyncItem, bind_prompt_goal, SyncFinish, SyncGuard, claim_next_prompt, StartPrompt, BlockPrompt, InboxEmpty, StartCommand, SaveTurn, WorkEnds, GoalCompletes, Dismiss, reorder_pending_prompts, cancel_goal_and_session, Crash, enqueue_prompt

-----------------------------------------------------------------------------
(* The invariant holds in every behaviour. *)
LEMMA QInitial == Init => QInv
<1> SUFFICES ASSUME Init PROVE QInv
  OBVIOUS
<1>1. TypeOK
  <2>1. seen \in [g : GoalNo, st : {"none", "active", "completed", "cancelled"}]
    BY DEF Init, NoGoal, GoalNo
  <2>2. /\ goals \in Seq({"active", "completed", "cancelled"}) /\ Len(goals) \in GoalNo
        /\ maker \in Seq(Prompts \union {User}) /\ Len(maker) = Len(goals)
    BY DEF Init, GoalNo
  <2>3. attention \in BOOLEAN /\ up \in BOOLEAN
    BY DEF Init
  <2>4. opens \in 0 .. MaxOpens /\ asks \in 0 .. MaxAsks /\ reset \subseteq Prompts
    BY DEF Init
  <2> QED BY <2>1, <2>2, <2>3, <2>4 DEF Init, TypeOK, RowStatus, GoalNo
<1>2. Working /\ Holding /\ SequencesUnique /\ RunningIsFront
  BY DEF Init, Working, Holding, SequencesUnique, RunningIsFront, Queued
<1>3. Bounded /\ Binding /\ Reading /\ GoalBoundOnce
  BY DEF Init, Bounded, Binding, Reading, GoalBoundOnce
<1>4. SettledHonestly /\ OneGoalEach
  BY DEF Init, SettledHonestly, OneGoalEach
<1>5. Fresh
  BY DEF Init, Fresh, Made
<1> QED BY <1>1, <1>2, <1>3, <1>4, <1>5 DEF QInv, Orderly, Credited

LEMMA QStep == QInv /\ [Next]_vars => QInv'
BY TypeStep, WorkingStep, HoldingStep, UniqueStep, FrontStep, BoundedStep, BindingStep,
   BoundOnceStep, ReadingStep, SettledStep, FreshStep, OneGoalStep
   DEF QInv, Orderly, Credited

LEMMA QAlways == Spec => []QInv
BY QInitial, QStep, PTL DEF Spec

(* The rows, the pump's locals and the session state keep their types.     *)
THEOREM QueueTyped == Spec => []TypeOK
BY QAlways, PTL DEF QInv, Orderly

(* enqueue_prompt and reorder_pending_prompts never hit the unique index.  *)
THEOREM SequencesStayUnique == Spec => []SequencesUnique
BY QAlways, PTL DEF QInv, Orderly

(* The running prompt is always the front of the queue.                    *)
THEOREM RunningAtFront == Spec => []RunningIsFront
BY QAlways, PTL DEF QInv, Orderly

(* bind_prompt_goal never credits one goal to two prompts.                 *)
THEOREM GoalsBoundOnce == Spec => []GoalBoundOnce
BY QAlways, PTL DEF QInv, Credited

(* finish_queued_prompt and cancel_goal_and_session settle honestly.       *)
THEOREM PromptsSettledHonestly == Spec => []SettledHonestly
BY QAlways, PTL DEF QInv

(* A prompt whose claim was never undone becomes at most one goal.         *)
THEOREM PromptsRunOnce == Spec => []OneGoalEach
BY QAlways, PTL DEF QInv
=============================================================================
