---------------------------- MODULE UltraRunProofs ----------------------------
(***************************************************************************)
(* For every set of nodes, every dependency relation and any number of     *)
(* commands, crashes and lost artifacts: a tool that a crash cut off waits *)
(* for its resolution, dependencies hold in the rows, accepted work is not *)
(* replayed, a completed goal is what the global gate reviewed, and no     *)
(* goal is left running by a thread that ended.                            *)
(***************************************************************************)
EXTENDS UltraRun, TLAPS

(* Where a run, its workers and a command in progress can be.  Only an     *)
(* approved run of a live session has a thread, and a command that starts  *)
(* one found none.                                                         *)
Placed ==
  /\ \A n \in Node : work[n] # "idle" => thread = "wave"
  /\ Alive => proc = "up" /\ approved /\ sess = "live"
  /\ op # "idle" => proc = "up"
  /\ op \in {"restore", "ensure", "bind"} => ~Alive
  /\ approved => plan = "ACCEPTED"
  /\ op = "bind" => plan = "ACCEPTED" /\ ~approved /\ sess = "live"

(* A cut-off tool has its row, and a run is started only without one: the  *)
(* row turns uncertain before the process is up, and restore refuses it.   *)
CutOff ==
  /\ \A n \in cut : act[n] # "none"
  /\ \A n \in Node : work[n] = "tool" => act[n] = "running"
  /\ proc \notin {"down", "actions"} => \A n \in Node : act[n] = "running" => work[n] = "tool"
  /\ Alive \/ ~approved => cut = {}

(* A worker's node is unfinished and stands on finished ones.              *)
WavePlaced ==
  /\ \A n \in Node : work[n] # "idle" =>
       est[n] = "todo" /\ outc[n] = "none" /\ \A d \in Deps[n] : est[d] = "completed"
  /\ \A n \in Node : outc[n] = "completed" => est[n] = "completed"

(* Before the approval no node has been touched.                           *)
Untouched ==
  ~approved => \A n \in Node : dst[n] = "PENDING" /\ res[n] = "none" /\ est[n] = "todo"

(* An uncertain row of a live run is its own, written by Collect.          *)
Certain == Alive => \A n \in Node : dst[n] = "UNCERTAIN" => outc[n] = "uncertain"

(* What a result package and a node's artifact say of each other.          *)
Packaged ==
  /\ \A n \in Node : dst[n] = "COMPLETED" => res[n] = "success"
  /\ \A n \in Node : work[n] = "accepted" => res[n] = "success" /\ art[n] = "accepted"

(* What the engine may still run has not been accepted, or failed the      *)
(* checks of the restore that started the run.                             *)
Unaccepted ==
  Alive => \A n \in Node :
    est[n] # "completed" /\ outc[n] = "none" /\ work[n] # "accepted" /\ n \notin doubted =>
      ~(res[n] = "success" /\ art[n] = "accepted")

(* What the engine counts as completed is there, until a rejected run is   *)
(* rolled back.                                                            *)
Sound ==
  Alive /\ thread \notin {"fin_block", "fail"} => \A n \in Node :
    est[n] = "completed" =>
      /\ res[n] = "success"
      /\ art[n] = "accepted" \/ (n \in vouched /\ art[n] # "absent")

NoneLeft == \A n \in Node : est[n] # "todo"

(* The result of a completed run is about the present workspace.           *)
Judged ==
  /\ before # "COMPLETED"
  /\ thread \in {"gate", "call", "answer", "judge"} => NoneLeft
  /\ thread \in {"complete", "fin_verify", "fin_review", "fin_accept", "fin_accepted"}
        => NoneLeft /\ reviewed = art
  /\ thread = "return" /\ phase = "COMPLETED" => NoneLeft /\ reviewed = art
  /\ thread = "fin_read" /\ final = "COMPLETED" => NoneLeft /\ reviewed = art

(* A goal that became RUNNING behind the finishing thread did so by a      *)
(* resume that saw it.                                                     *)
Owned ==
  /\ thread \in {"fin_stop", "fin_verify"} /\ seen # "RUNNING" /\ goal = "RUNNING" => late
  /\ thread \in {"fin_review", "fin_accept"} /\ goal = "RUNNING" => late
  /\ thread = "done" /\ goal = "RUNNING" => late \/ op = "restore"

RunInv ==
  /\ TypeOK /\ Placed /\ CutOff /\ WavePlaced /\ Untouched /\ Certain /\ Packaged
  /\ Unaccepted /\ Sound /\ Judged /\ Owned /\ DependenciesHold

(* The type invariant in two halves.                                       *)
Flags ==
  waiting \in BOOLEAN /\ approved \in BOOLEAN /\ agents \in BOOLEAN /\ halt \in BOOLEAN
  /\ quit \in BOOLEAN /\ late \in BOOLEAN

Columns ==
  /\ goal \in GoalStatus /\ resume \in {"RUNNING", "REVISING", "AWAITING", "replan"}
  /\ rstat \in RunStatus /\ plan \in {"PENDING", "ACCEPTED"}
  /\ dst \in [Node -> NodeStatus] /\ res \in [Node -> {"none", "success", "failed", "revision"}]
  /\ act \in [Node -> {"none", "running", "uncertain"}] /\ art \in [Node -> Content]
  /\ proc \in {"down", "up"} \cup Boot /\ sess \in {"none", "empty", "live"}
  /\ phase \in Phase /\ before \in Phase \cup {"none"}
  /\ est \in [Node -> {"todo", "completed", "cancelled"}] /\ thread \in ThreadAt /\ gate \in 1 .. 3
  /\ work \in [Node -> WorkAt]
  /\ outc \in [Node -> {"none", "completed", "failed", "blocked", "cancelled", "uncertain",
                        "boundary"}]
  /\ seen \in GoalStatus /\ final \in Phase
  /\ op \in {"idle", "pause_check", "pause_save", "pause_goal", "resume_engine", "resume_phase",
             "restore", "ensure", "cancel_goal", "bind"}
  /\ ask \in GoalStatus /\ cut \in SUBSET Node /\ vouched \in SUBSET Node
  /\ doubted \in SUBSET Node
  /\ reviewed \in [Node -> Content]
  /\ crashes \in 0 .. MaxCrashes /\ ops \in 0 .. MaxOps /\ lost \in 0 .. MaxLost

(* A step that completes the goal is the last one of _finalize_result.     *)
ClosedByGate == goal' = "COMPLETED" /\ goal # "COMPLETED" => FinAccepted

USE DepsAssumption, CreatedAssumption, BoundsAssumption

LEMMA TypeHalves == TypeOK <=> Flags /\ Columns
BY DEF TypeOK, Flags, Columns

LEMMA StatusType == ASSUME NEW p PROVE StatusOf(p) \in RunStatus
BY DEF StatusOf, RunStatus

LEMMA RunInitially == Init => RunInv
<1> SUFFICES ASSUME Init PROVE RunInv
  OBVIOUS
<1>1. Columns
  BY DEF Init, Columns, RunStatus, NodeStatus, Phase, ThreadAt, Ended, WorkAt, Content, GoalStatus
<1>2. Flags
  BY DEF Init, Flags
<1>3. Placed /\ CutOff /\ WavePlaced /\ Untouched /\ Certain /\ Packaged
  BY DEF Init, Placed, CutOff, WavePlaced, Untouched, Certain, Packaged, Alive, Ended
<1>4. Unaccepted /\ Sound /\ Judged /\ Owned /\ DependenciesHold
  BY DEF Init, Unaccepted, Sound, Judged, Owned, DependenciesHold, Alive, Ended
<1> QED BY <1>1, <1>2, <1>3, <1>4, TypeHalves DEF RunInv

(* Every step keeps the flags Boolean.                                     *)
LEMMA FlagStep ==
  ASSUME RunInv, [Next]_vars
  PROVE  Flags'
<1> USE DEF RunInv, Flags, goalRow, runRow, rows, engine, sched, fin, user, ghosts, bounds,
   EngineFrame, NodeFrame, FinFrame, UserFrame, BootFrame
<1>1. CASE RunStart
  BY TypeHalves, <1>1 DEF RunStart, Enter, SavePhase
<1>2. CASE Expand
  BY TypeHalves, <1>2 DEF Expand, Held
<1>3. CASE ExpandRevises
  BY TypeHalves, <1>3 DEF ExpandRevises, Held, Enter, SavePhase
<1>4. CASE RunCancelled
  BY TypeHalves, <1>4 DEF RunCancelled, Enter, SavePhase
<1>5. CASE RunFails
  BY TypeHalves, <1>5 DEF RunFails
<1>6. CASE GateCall
  BY TypeHalves, <1>6 DEF GateCall, Held
<1>7. CASE GateAnswer
  BY TypeHalves, <1>7 DEF GateAnswer
<1>8. CASE FinStop
  BY TypeHalves, <1>8 DEF FinStop, MoveGoal
<1>9. ASSUME NEW n \in Node, ToolDenied(n) PROVE Flags'
  BY TypeHalves, <1>9 DEF ToolDenied, Held, End
<1>10. CASE BindMaster
  BY TypeHalves, <1>10 DEF BindMaster
<1>11. CASE PauseSave
  BY TypeHalves, <1>11 DEF PauseSave, SavePhase
<1>12. CASE ResumeEngine
  BY TypeHalves, <1>12 DEF ResumeEngine
<1>13. CASE ResumePhase
  BY TypeHalves, <1>13 DEF ResumePhase, SavePhase
<1>14. CASE Restore
  BY TypeHalves, <1>14 DEF Restore, Restored, Proven, Missing, Reopened, Refused
<1>15. CASE RecoverPauses
  BY TypeHalves, <1>15 DEF RecoverPauses
<1>16. CASE RecoverNodes
  BY TypeHalves, <1>16 DEF RecoverNodes
<1>17. CASE RecoverRun
  BY TypeHalves, <1>17 DEF RecoverRun
<1>18. CASE Reconcile
  BY TypeHalves, <1>18 DEF Reconcile, ReadOnly
<1>19. CASE ReconcileTerminal
  BY TypeHalves, <1>19 DEF ReconcileTerminal
<1>20. CASE PauseTransient
  BY TypeHalves, <1>20 DEF PauseTransient
<1>21. CASE PauseAsk
  BY TypeHalves, <1>21 DEF PauseAsk, Running, Alive, Ended, Command
<1>22. CASE Resume
  BY TypeHalves, <1>22 DEF Resume, Unresolved, Resumable, Running, Alive, Ended, Command
<1>23. CASE CancelAsk
  BY TypeHalves, <1>23 DEF CancelAsk, Running, Alive, Ended, Command, SavePhase
<1>24. CASE ConvergeBoundary
  BY TypeHalves, <1>24 DEF ConvergeBoundary
<1>25. CASE Crash
  BY TypeHalves, <1>25 DEF Crash
<1>26. CASE UNCHANGED <<waiting, approved, agents, halt, quit, late>>
  BY TypeHalves, <1>26
<1> QED
  <2>1. CASE EngineStep
    BY <2>1, <1>1, <1>2, <1>3, <1>4, <1>5, <1>6, <1>7, <1>8, <1>26 DEF EngineStep, EnterWaves,
       SavePhase, StartWave, WaveBoundary, Enter, EndWaves, Collect, GateEnter, JudgePasses,
       JudgeRejects, Complete, Return, FinRead, FinVerify, MoveGoal, FinReview, FinAccept,
       FinAccepted, FinUndo, FinBlock, EngineFails
  <2>2. CASE OpStep
    BY <2>2, <1>10, <1>11, <1>12, <1>13, <1>14, <1>26 DEF OpStep, PauseCheck, PauseGoal,
       RestoreFails, CancelGoal
  <2>3. CASE BootStep
    BY <2>3, <1>15, <1>16, <1>17, <1>18, <1>19, <1>20, <1>26 DEF BootStep, Restart,
       RecoverActions
  <2>4. CASE UserStep
    BY <2>4, <1>21, <1>22, <1>23, <1>24, <1>26 DEF UserStep, ApproveUltra, Command,
       EnsureSession, ResolveNode, ResolveAction
  <2>5. ASSUME NEW n \in Node, NodeStep(n) PROVE Flags'
    BY <2>5, <1>9, <1>26 DEF NodeStep, Begin, End, NodeCancelled, ToolBegin, ToolEnd, Accept,
       Reject, NodeError, NodeDone
  <2>6. CASE Crash
    BY <2>6, <1>25
  <2>7. ASSUME NEW n \in Node, LoseArtifact(n) PROVE Flags'
    BY <2>7, <1>26 DEF LoseArtifact
  <2>8. CASE UNCHANGED vars
    BY <2>8, <1>26 DEF vars
  <2> QED BY <2>1, <2>2, <2>3, <2>4, <2>5, <2>6, <2>7, <2>8 DEF Next

(* Every step keeps the other types.                                       *)
LEMMA ColumnStep ==
  ASSUME RunInv, [Next]_vars
  PROVE  Columns'
<1> USE DEF RunInv, Columns, RunStatus, NodeStatus, Phase, ThreadAt, Ended, WorkAt, Boot,
   Content, GoalStatus, goalRow, runRow, rows, engine, sched, fin, user, ghosts, bounds,
   EngineFrame, NodeFrame, FinFrame, UserFrame, BootFrame
<1>1. CASE RunStart
  BY TypeHalves, StatusType, <1>1 DEF RunStart, Enter, SavePhase
<1>2. CASE Expand
  BY TypeHalves, StatusType, <1>2 DEF Expand, Held
<1>3. CASE ExpandRevises
  BY TypeHalves, StatusType, <1>3 DEF ExpandRevises, Held, Enter, SavePhase
<1>4. CASE RunCancelled
  BY TypeHalves, StatusType, <1>4 DEF RunCancelled, Enter, SavePhase
<1>5. CASE RunFails
  BY TypeHalves, StatusType, <1>5 DEF RunFails
<1>6. CASE EnterWaves
  BY TypeHalves, StatusType, <1>6 DEF EnterWaves, Todo, SavePhase
<1>7. CASE StartWave
  BY TypeHalves, StatusType, <1>7 DEF StartWave, Working, Finished, Doomed, Pending, Todo, Held,
     DropPending
<1>8. CASE WaveBoundary
  BY TypeHalves, StatusType, <1>8 DEF WaveBoundary, Working, Enter, SavePhase
<1>9. CASE EndWaves
  BY TypeHalves, StatusType, <1>9 DEF EndWaves, Working, Pending, Todo
<1>10. CASE Collect
  BY TypeHalves, StatusType, <1>10 DEF Collect, Enter, SavePhase
<1>11. CASE GateEnter
  <2>1. gate \in 1 .. 3
    BY TypeHalves
  <2>2. GatePhase[gate] \in Phase
    BY <2>1 DEF GatePhase
  <2> QED BY <2>2, TypeHalves, StatusType, <1>11 DEF GateEnter, Enter, SavePhase
<1>12. CASE GateCall
  BY TypeHalves, StatusType, <1>12 DEF GateCall, Held
<1>13. CASE GateAnswer
  BY TypeHalves, StatusType, <1>13 DEF GateAnswer
<1>14. CASE JudgePasses
  BY TypeHalves, StatusType, <1>14 DEF JudgePasses
<1>15. CASE JudgeRejects
  BY TypeHalves, StatusType, <1>15 DEF JudgeRejects, Enter, SavePhase
<1>16. CASE Complete
  BY TypeHalves, StatusType, <1>16 DEF Complete, SavePhase
<1>17. CASE Return
  BY TypeHalves, StatusType, <1>17 DEF Return
<1>18. CASE FinRead
  BY TypeHalves, StatusType, <1>18 DEF FinRead
<1>19. CASE FinStop
  BY TypeHalves, StatusType, <1>19 DEF FinStop, MoveGoal
<1>20. CASE FinVerify
  BY TypeHalves, StatusType, <1>20 DEF FinVerify, MoveGoal
<1>21. CASE FinReview
  BY TypeHalves, StatusType, <1>21 DEF FinReview
<1>22. CASE FinAccept
  BY TypeHalves, StatusType, <1>22 DEF FinAccept
<1>23. CASE FinAccepted
  BY TypeHalves, StatusType, <1>23 DEF FinAccepted, MoveGoal
<1>24. CASE FinUndo
  BY TypeHalves, StatusType, <1>24 DEF FinUndo
<1>25. CASE FinBlock
  BY TypeHalves, StatusType, <1>25 DEF FinBlock, MoveGoal
<1>26. CASE EngineFails
  BY TypeHalves, StatusType, <1>26 DEF EngineFails
<1>27. ASSUME NEW n \in Node, Begin(n) PROVE Columns'
  BY TypeHalves, StatusType, <1>27 DEF Begin, DepsDurable, Held, End
<1>28. ASSUME NEW n \in Node, NodeCancelled(n) PROVE Columns'
  BY TypeHalves, StatusType, <1>28 DEF NodeCancelled, End
<1>29. ASSUME NEW n \in Node, ToolBegin(n) PROVE Columns'
  BY TypeHalves, StatusType, <1>29 DEF ToolBegin, Held
<1>30. ASSUME NEW n \in Node, ToolEnd(n) PROVE Columns'
  BY TypeHalves, StatusType, <1>30 DEF ToolEnd
<1>31. ASSUME NEW n \in Node, ToolDenied(n) PROVE Columns'
  BY TypeHalves, StatusType, <1>31 DEF ToolDenied, Held, End
<1>32. ASSUME NEW n \in Node, Accept(n) PROVE Columns'
  BY TypeHalves, StatusType, <1>32 DEF Accept, Held
<1>33. ASSUME NEW n \in Node, Reject(n) PROVE Columns'
  BY TypeHalves, StatusType, <1>33 DEF Reject, Held, End
<1>34. ASSUME NEW n \in Node, NodeError(n) PROVE Columns'
  BY TypeHalves, StatusType, <1>34 DEF NodeError, End
<1>35. ASSUME NEW n \in Node, NodeDone(n) PROVE Columns'
  BY TypeHalves, StatusType, <1>35 DEF NodeDone, End
<1>36. CASE BindMaster
  BY TypeHalves, StatusType, <1>36 DEF BindMaster
<1>37. CASE PauseCheck
  BY TypeHalves, StatusType, <1>37 DEF PauseCheck
<1>38. CASE PauseSave
  BY TypeHalves, StatusType, <1>38 DEF PauseSave, SavePhase
<1>39. CASE PauseGoal
  BY TypeHalves, StatusType, <1>39 DEF PauseGoal
<1>40. CASE ResumeEngine
  BY TypeHalves, StatusType, <1>40 DEF ResumeEngine
<1>41. CASE ResumePhase
  <2>1. ~PhaseMay(phase, "none")
    BY TypeHalves DEF PhaseMay, PhaseGraph, TerminalPhase
  <2>2. phase' \in Phase /\ rstat' \in RunStatus
    BY <2>1, TypeHalves, StatusType, <1>41 DEF ResumePhase, SavePhase
  <2> QED BY <2>2, TypeHalves, <1>41 DEF ResumePhase
<1>42. CASE Restore
  BY TypeHalves, StatusType, <1>42 DEF Restore, Restored, Proven, Missing, Reopened, Refused
<1>43. CASE RestoreFails
  BY TypeHalves, StatusType, <1>43 DEF RestoreFails, Refused, Reopened, Missing
<1>44. CASE CancelGoal
  BY TypeHalves, StatusType, <1>44 DEF CancelGoal
<1>45. CASE Restart
  BY TypeHalves, StatusType, <1>45 DEF Restart
<1>46. CASE RecoverActions
  BY TypeHalves, StatusType, <1>46 DEF RecoverActions, Interrupted
<1>47. CASE RecoverPauses
  BY TypeHalves, StatusType, <1>47 DEF RecoverPauses
<1>48. CASE RecoverNodes
  BY TypeHalves, StatusType, <1>48 DEF RecoverNodes
<1>49. CASE RecoverRun
  BY TypeHalves, StatusType, <1>49 DEF RecoverRun
<1>50. CASE Reconcile
  BY TypeHalves, StatusType, <1>50 DEF Reconcile, ReadOnly
<1>51. CASE ReconcileTerminal
  BY TypeHalves, StatusType, <1>51 DEF ReconcileTerminal
<1>52. CASE PauseTransient
  BY TypeHalves, StatusType, <1>52 DEF PauseTransient
<1>53. CASE ApproveUltra
  BY TypeHalves, StatusType, <1>53 DEF ApproveUltra, Command
<1>54. CASE PauseAsk
  BY TypeHalves, StatusType, <1>54 DEF PauseAsk, Running, Alive, Command
<1>55. CASE Resume
  BY TypeHalves, StatusType, <1>55 DEF Resume, Unresolved, Resumable, Running, Alive, Command
<1>56. CASE EnsureSession
  BY TypeHalves, StatusType, <1>56 DEF EnsureSession, Command
<1>57. CASE CancelAsk
  BY TypeHalves, StatusType, <1>57 DEF CancelAsk, Running, Alive, Command, SavePhase
<1>58. CASE ConvergeBoundary
  BY TypeHalves, StatusType, <1>58 DEF ConvergeBoundary
<1>59. ASSUME NEW n \in Node, ResolveNode(n) PROVE Columns'
  BY TypeHalves, StatusType, <1>59 DEF ResolveNode
<1>60. ASSUME NEW n \in Node, ResolveAction(n) PROVE Columns'
  BY TypeHalves, StatusType, <1>60 DEF ResolveAction
<1>61. CASE Crash
  <2>1. crashes' \in 0 .. MaxCrashes
    BY TypeHalves, <1>61 DEF Crash
  <2>2. art' \in [Node -> Content] /\ cut' \in SUBSET Node
    BY TypeHalves, <1>61 DEF Crash
  <2>3. /\ est' \in [Node -> {"todo", "completed", "cancelled"}]
        /\ work' \in [Node -> WorkAt]
        /\ outc' \in [Node -> {"none", "completed", "failed", "blocked", "cancelled", "uncertain",
                               "boundary"}]
    BY <1>61 DEF Crash
  <2>4. gate' \in 1 .. 3
    BY <1>61 DEF Crash
  <2> QED BY <2>1, <2>2, <2>3, <2>4, TypeHalves, <1>61 DEF Crash
<1>62. ASSUME NEW n \in Node, LoseArtifact(n) PROVE Columns'
  BY TypeHalves, StatusType, <1>62 DEF LoseArtifact, Alive
<1>63. CASE UNCHANGED <<goal, resume, rstat, plan, dst, res, act, art, proc, sess, phase,
   before, est, thread, gate, work, outc, seen, final, op, ask, cut, vouched, doubted, reviewed,
   crashes, ops, lost>>
  BY TypeHalves, StatusType, <1>63
<1> QED
  <2>1. CASE EngineStep
    BY <2>1, <1>1, <1>2, <1>3, <1>4, <1>5, <1>6, <1>7, <1>8, <1>9, <1>10, <1>11, <1>12, <1>13,
       <1>14, <1>15, <1>16, <1>17, <1>18, <1>19, <1>20, <1>21, <1>22, <1>23, <1>24, <1>25, <1>26
       DEF EngineStep
  <2>2. CASE OpStep
    BY <2>2, <1>36, <1>37, <1>38, <1>39, <1>40, <1>41, <1>42, <1>43, <1>44 DEF OpStep
  <2>3. CASE BootStep
    BY <2>3, <1>45, <1>46, <1>47, <1>48, <1>49, <1>50, <1>51, <1>52 DEF BootStep
  <2>4. CASE UserStep
    BY <2>4, <1>53, <1>54, <1>55, <1>56, <1>57, <1>58, <1>59, <1>60 DEF UserStep
  <2>5. ASSUME NEW n \in Node, NodeStep(n) PROVE Columns'
    BY <2>5, <1>27, <1>28, <1>29, <1>30, <1>31, <1>32, <1>33, <1>34, <1>35 DEF NodeStep
  <2>6. CASE Crash
    BY <2>6, <1>61
  <2>7. ASSUME NEW n \in Node, LoseArtifact(n) PROVE Columns'
    BY <2>7, <1>62
  <2>8. CASE UNCHANGED vars
    BY <2>8, <1>63 DEF vars
  <2> QED BY <2>1, <2>2, <2>3, <2>4, <2>5, <2>6, <2>7, <2>8 DEF Next

(* Threads, workers and commands stay where they can be.                   *)
LEMMA PlacedStep ==
  ASSUME RunInv, [Next]_vars
  PROVE  Placed'
<1> USE DEF RunInv, TypeOK, Placed, Alive, Ended, goalRow, runRow, rows, engine, sched, fin,
   user, ghosts, bounds, EngineFrame, NodeFrame, FinFrame, UserFrame, BootFrame
<1>1. CASE RunStart
  BY <1>1 DEF RunStart, Enter, SavePhase
<1>2. CASE Expand
  BY <1>2 DEF Expand, Held
<1>3. CASE ExpandRevises
  BY <1>3 DEF ExpandRevises, Held, Enter, SavePhase
<1>4. CASE RunCancelled
  BY <1>4 DEF RunCancelled, Enter, SavePhase
<1>5. CASE RunFails
  BY <1>5 DEF RunFails
<1>6. CASE EnterWaves
  BY <1>6 DEF EnterWaves, Todo, SavePhase
<1>7. CASE StartWave
  BY <1>7 DEF StartWave, Working, Finished, Doomed, Pending, Todo, Held, DropPending
<1>8. CASE WaveBoundary
  BY <1>8 DEF WaveBoundary, Working, Enter, SavePhase
<1>9. CASE EndWaves
  BY <1>9 DEF EndWaves, Working, Pending, Todo
<1>10. CASE Collect
  BY <1>10 DEF Collect, Enter, SavePhase
<1>11. CASE GateEnter
  BY <1>11 DEF GateEnter, Enter, SavePhase
<1>12. CASE GateCall
  BY <1>12 DEF GateCall, Held
<1>13. CASE GateAnswer
  BY <1>13 DEF GateAnswer
<1>14. CASE JudgePasses
  BY <1>14 DEF JudgePasses
<1>15. CASE JudgeRejects
  BY <1>15 DEF JudgeRejects, Enter, SavePhase
<1>16. CASE Complete
  BY <1>16 DEF Complete, SavePhase
<1>17. CASE Return
  BY <1>17 DEF Return
<1>18. CASE FinRead
  BY <1>18 DEF FinRead
<1>19. CASE FinStop
  BY <1>19 DEF FinStop, MoveGoal
<1>20. CASE FinVerify
  BY <1>20 DEF FinVerify, MoveGoal
<1>21. CASE FinReview
  BY <1>21 DEF FinReview
<1>22. CASE FinAccept
  BY <1>22 DEF FinAccept
<1>23. CASE FinAccepted
  BY <1>23 DEF FinAccepted, MoveGoal
<1>24. CASE FinUndo
  BY <1>24 DEF FinUndo
<1>25. CASE FinBlock
  BY <1>25 DEF FinBlock, MoveGoal
<1>26. CASE EngineFails
  BY <1>26 DEF EngineFails
<1>27. ASSUME NEW n \in Node, Begin(n) PROVE Placed'
  BY <1>27 DEF Begin, DepsDurable, Held, End
<1>28. ASSUME NEW n \in Node, NodeCancelled(n) PROVE Placed'
  BY <1>28 DEF NodeCancelled, End
<1>29. ASSUME NEW n \in Node, ToolBegin(n) PROVE Placed'
  BY <1>29 DEF ToolBegin, Held
<1>30. ASSUME NEW n \in Node, ToolEnd(n) PROVE Placed'
  BY <1>30 DEF ToolEnd
<1>31. ASSUME NEW n \in Node, ToolDenied(n) PROVE Placed'
  BY <1>31 DEF ToolDenied, Held, End
<1>32. ASSUME NEW n \in Node, Accept(n) PROVE Placed'
  BY <1>32 DEF Accept, Held
<1>33. ASSUME NEW n \in Node, Reject(n) PROVE Placed'
  BY <1>33 DEF Reject, Held, End
<1>34. ASSUME NEW n \in Node, NodeError(n) PROVE Placed'
  BY <1>34 DEF NodeError, End
<1>35. ASSUME NEW n \in Node, NodeDone(n) PROVE Placed'
  BY <1>35 DEF NodeDone, End
<1>36. CASE BindMaster
  BY <1>36 DEF BindMaster
<1>37. CASE PauseCheck
  BY <1>37 DEF PauseCheck
<1>38. CASE PauseSave
  BY <1>38 DEF PauseSave, SavePhase
<1>39. CASE PauseGoal
  BY <1>39 DEF PauseGoal
<1>40. CASE ResumeEngine
  BY <1>40 DEF ResumeEngine
<1>41. CASE ResumePhase
  BY <1>41 DEF ResumePhase, SavePhase
<1>42. CASE Restore
  BY <1>42 DEF Restore, Restored, Proven, Missing, Reopened, Refused
<1>43. CASE RestoreFails
  BY <1>43 DEF RestoreFails, Refused, Reopened, Missing
<1>44. CASE CancelGoal
  BY <1>44 DEF CancelGoal
<1>45. CASE Restart
  BY <1>45 DEF Restart
<1>46. CASE RecoverActions
  BY <1>46 DEF RecoverActions, Interrupted
<1>47. CASE RecoverPauses
  BY <1>47 DEF RecoverPauses
<1>48. CASE RecoverNodes
  BY <1>48 DEF RecoverNodes
<1>49. CASE RecoverRun
  BY <1>49 DEF RecoverRun
<1>50. CASE Reconcile
  BY <1>50 DEF Reconcile, ReadOnly
<1>51. CASE ReconcileTerminal
  BY <1>51 DEF ReconcileTerminal
<1>52. CASE PauseTransient
  BY <1>52 DEF PauseTransient
<1>53. CASE ApproveUltra
  BY <1>53 DEF ApproveUltra, Command
<1>54. CASE PauseAsk
  BY <1>54 DEF PauseAsk, Running, Command
<1>55. CASE Resume
  BY <1>55 DEF Resume, Unresolved, Resumable, Running, Command
<1>56. CASE EnsureSession
  BY <1>56 DEF EnsureSession, Command
<1>57. CASE CancelAsk
  BY <1>57 DEF CancelAsk, Running, Command, SavePhase
<1>58. CASE Crash
  BY <1>58 DEF Crash
<1>59. CASE UNCHANGED <<work, thread, proc, approved, sess, op, plan>>
  BY <1>59
<1> QED
  <2>1. CASE EngineStep
    BY <2>1, <1>1, <1>2, <1>3, <1>4, <1>5, <1>6, <1>7, <1>8, <1>9, <1>10, <1>11, <1>12, <1>13,
       <1>14, <1>15, <1>16, <1>17, <1>18, <1>19, <1>20, <1>21, <1>22, <1>23, <1>24, <1>25, <1>26
       DEF EngineStep
  <2>2. CASE OpStep
    BY <2>2, <1>36, <1>37, <1>38, <1>39, <1>40, <1>41, <1>42, <1>43, <1>44 DEF OpStep
  <2>3. CASE BootStep
    BY <2>3, <1>45, <1>46, <1>47, <1>48, <1>49, <1>50, <1>51, <1>52 DEF BootStep
  <2>4. CASE UserStep
    BY <2>4, <1>53, <1>54, <1>55, <1>56, <1>57, <1>59 DEF UserStep, ConvergeBoundary,
       ResolveNode, ResolveAction
  <2>5. ASSUME NEW n \in Node, NodeStep(n) PROVE Placed'
    BY <2>5, <1>27, <1>28, <1>29, <1>30, <1>31, <1>32, <1>33, <1>34, <1>35 DEF NodeStep
  <2>6. CASE Crash
    BY <2>6, <1>58
  <2>7. ASSUME NEW n \in Node, LoseArtifact(n) PROVE Placed'
    BY <2>7, <1>59 DEF LoseArtifact
  <2>8. CASE UNCHANGED vars
    BY <2>8, <1>59 DEF vars
  <2> QED BY <2>1, <2>2, <2>3, <2>4, <2>5, <2>6, <2>7, <2>8 DEF Next

(* A cut-off tool keeps its row until it is resolved, and meanwhile no     *)
(* command, restart or recovery starts a run.                              *)
LEMMA CutOffStep ==
  ASSUME RunInv, [Next]_vars
  PROVE  CutOff'
<1> USE DEF RunInv, TypeOK, Placed, CutOff, Alive, Ended, goalRow, runRow, rows, engine, sched,
   fin, user, ghosts, bounds, EngineFrame, NodeFrame, FinFrame, UserFrame, BootFrame
<1>1. CASE RunStart
  BY <1>1 DEF RunStart, Enter, SavePhase
<1>2. CASE Expand
  BY <1>2 DEF Expand, Held
<1>3. CASE ExpandRevises
  BY <1>3 DEF ExpandRevises, Held, Enter, SavePhase
<1>4. CASE RunCancelled
  BY <1>4 DEF RunCancelled, Enter, SavePhase
<1>5. CASE RunFails
  BY <1>5 DEF RunFails
<1>6. CASE EnterWaves
  BY <1>6 DEF EnterWaves, Todo, SavePhase
<1>7. CASE StartWave
  BY <1>7 DEF StartWave, Working, Finished, Doomed, Pending, Todo, Held, DropPending
<1>8. CASE WaveBoundary
  BY <1>8 DEF WaveBoundary, Working, Enter, SavePhase
<1>9. CASE EndWaves
  BY <1>9 DEF EndWaves, Working, Pending, Todo
<1>10. CASE Collect
  BY <1>10 DEF Collect, Enter, SavePhase
<1>11. CASE GateEnter
  BY <1>11 DEF GateEnter, Enter, SavePhase
<1>12. CASE GateCall
  BY <1>12 DEF GateCall, Held
<1>13. CASE GateAnswer
  BY <1>13 DEF GateAnswer
<1>14. CASE JudgePasses
  BY <1>14 DEF JudgePasses
<1>15. CASE JudgeRejects
  BY <1>15 DEF JudgeRejects, Enter, SavePhase
<1>16. CASE Complete
  BY <1>16 DEF Complete, SavePhase
<1>17. CASE Return
  BY <1>17 DEF Return
<1>18. CASE FinRead
  BY <1>18 DEF FinRead
<1>19. CASE FinStop
  BY <1>19 DEF FinStop, MoveGoal
<1>20. CASE FinVerify
  BY <1>20 DEF FinVerify, MoveGoal
<1>21. CASE FinReview
  BY <1>21 DEF FinReview
<1>22. CASE FinAccept
  BY <1>22 DEF FinAccept
<1>23. CASE FinAccepted
  BY <1>23 DEF FinAccepted, MoveGoal
<1>24. CASE FinUndo
  BY <1>24 DEF FinUndo
<1>25. CASE FinBlock
  BY <1>25 DEF FinBlock, MoveGoal
<1>26. CASE EngineFails
  BY <1>26 DEF EngineFails
<1>27. ASSUME NEW n \in Node, Begin(n) PROVE CutOff'
  BY <1>27 DEF Begin, DepsDurable, Held, End
<1>28. ASSUME NEW n \in Node, NodeCancelled(n) PROVE CutOff'
  BY <1>28 DEF NodeCancelled, End
<1>29. ASSUME NEW n \in Node, ToolBegin(n) PROVE CutOff'
  BY <1>29 DEF ToolBegin, Held
<1>30. ASSUME NEW n \in Node, ToolEnd(n) PROVE CutOff'
  BY <1>30 DEF ToolEnd
<1>31. ASSUME NEW n \in Node, ToolDenied(n) PROVE CutOff'
  BY <1>31 DEF ToolDenied, Held, End
<1>32. ASSUME NEW n \in Node, Accept(n) PROVE CutOff'
  BY <1>32 DEF Accept, Held
<1>33. ASSUME NEW n \in Node, Reject(n) PROVE CutOff'
  BY <1>33 DEF Reject, Held, End
<1>34. ASSUME NEW n \in Node, NodeError(n) PROVE CutOff'
  BY <1>34 DEF NodeError, End
<1>35. ASSUME NEW n \in Node, NodeDone(n) PROVE CutOff'
  BY <1>35 DEF NodeDone, End
<1>36. CASE BindMaster
  BY <1>36 DEF BindMaster
<1>37. CASE Restore
  BY <1>37 DEF Restore, Restored, Proven, Missing, Reopened, Refused
<1>38. CASE RestoreFails
  BY <1>38 DEF RestoreFails, Refused, Reopened, Missing
<1>39. CASE Restart
  BY <1>39 DEF Restart
<1>40. CASE RecoverActions
  BY <1>40 DEF RecoverActions, Interrupted
<1>41. CASE RecoverPauses
  BY <1>41 DEF RecoverPauses
<1>42. CASE RecoverNodes
  BY <1>42 DEF RecoverNodes
<1>43. CASE RecoverRun
  BY <1>43 DEF RecoverRun
<1>44. CASE Reconcile
  BY <1>44 DEF Reconcile, ReadOnly
<1>45. CASE ReconcileTerminal
  BY <1>45 DEF ReconcileTerminal
<1>46. CASE PauseTransient
  BY <1>46 DEF PauseTransient
<1>47. ASSUME NEW n \in Node, ResolveAction(n) PROVE CutOff'
  BY <1>47 DEF ResolveAction
<1>48. CASE Crash
  <2>1. /\ cut' = cut \cup {n \in Node : work[n] = "tool"} /\ act' = act /\ approved' = approved
        /\ proc' = "down" /\ thread' = "none" /\ work' = [n \in Node |-> "idle"]
    BY <1>48 DEF Crash
  <2>2. ASSUME NEW n \in cut' PROVE act'[n] # "none"
    <3>1. CASE n \in cut
      BY <3>1, <2>1
    <3>2. CASE n \in Node /\ work[n] = "tool"
      BY <3>2, <2>1
    <3> QED BY <2>1, <2>2, <3>1, <3>2
  <2>3. ~approved => cut' = {}
    BY <2>1
  <2> QED BY <2>1, <2>2, <2>3
<1>49. CASE UNCHANGED <<cut, act, proc, work, thread, approved>>
  BY <1>49
<1> QED
  <2>1. CASE EngineStep
    BY <2>1, <1>1, <1>2, <1>3, <1>4, <1>5, <1>6, <1>7, <1>8, <1>9, <1>10, <1>11, <1>12, <1>13,
       <1>14, <1>15, <1>16, <1>17, <1>18, <1>19, <1>20, <1>21, <1>22, <1>23, <1>24, <1>25, <1>26
       DEF EngineStep
  <2>2. CASE OpStep
    BY <2>2, <1>36, <1>37, <1>38, <1>49 DEF OpStep, PauseCheck, PauseSave, SavePhase, PauseGoal,
       ResumeEngine, ResumePhase, CancelGoal
  <2>3. CASE BootStep
    BY <2>3, <1>39, <1>40, <1>41, <1>42, <1>43, <1>44, <1>45, <1>46 DEF BootStep
  <2>4. CASE UserStep
    BY <2>4, <1>47, <1>49 DEF UserStep, ApproveUltra, Command, PauseAsk, Resume, EnsureSession,
       CancelAsk, SavePhase, ConvergeBoundary, ResolveNode
  <2>5. ASSUME NEW n \in Node, NodeStep(n) PROVE CutOff'
    BY <2>5, <1>27, <1>28, <1>29, <1>30, <1>31, <1>32, <1>33, <1>34, <1>35 DEF NodeStep
  <2>6. CASE Crash
    BY <2>6, <1>48
  <2>7. ASSUME NEW n \in Node, LoseArtifact(n) PROVE CutOff'
    BY <2>7, <1>49 DEF LoseArtifact
  <2>8. CASE UNCHANGED vars
    BY <2>8, <1>49 DEF vars
  <2> QED BY <2>1, <2>2, <2>3, <2>4, <2>5, <2>6, <2>7, <2>8 DEF Next

(* A wave stays on finished ground.                                        *)
LEMMA WaveStep ==
  ASSUME RunInv, [Next]_vars
  PROVE  WavePlaced'
<1> USE DEF RunInv, TypeOK, Placed, WavePlaced, Alive, Ended, goalRow, runRow, rows, engine,
   sched, fin, user, ghosts, bounds, EngineFrame, NodeFrame, FinFrame, UserFrame, BootFrame
<1>1. CASE Expand
  BY <1>1 DEF Expand, Held
<1>2. CASE StartWave
  BY <1>2 DEF StartWave, Working, Finished, Doomed, Pending, Todo, Held, DropPending
<1>3. ASSUME NEW n \in Node, Begin(n) PROVE WavePlaced'
  BY <1>3 DEF Begin, DepsDurable, Held, End
<1>4. ASSUME NEW n \in Node, NodeCancelled(n) PROVE WavePlaced'
  BY <1>4 DEF NodeCancelled, End
<1>5. ASSUME NEW n \in Node, ToolBegin(n) PROVE WavePlaced'
  BY <1>5 DEF ToolBegin, Held
<1>6. ASSUME NEW n \in Node, ToolEnd(n) PROVE WavePlaced'
  BY <1>6 DEF ToolEnd
<1>7. ASSUME NEW n \in Node, ToolDenied(n) PROVE WavePlaced'
  BY <1>7 DEF ToolDenied, Held, End
<1>8. ASSUME NEW n \in Node, Accept(n) PROVE WavePlaced'
  BY <1>8 DEF Accept, Held
<1>9. ASSUME NEW n \in Node, Reject(n) PROVE WavePlaced'
  BY <1>9 DEF Reject, Held, End
<1>10. ASSUME NEW n \in Node, NodeError(n) PROVE WavePlaced'
  BY <1>10 DEF NodeError, End
<1>11. ASSUME NEW n \in Node, NodeDone(n) PROVE WavePlaced'
  BY <1>11 DEF NodeDone, End
<1>12. CASE Restore
  BY <1>12 DEF Restore, Restored, Proven, Missing, Reopened, Refused
<1>13. CASE Crash
  BY <1>13 DEF Crash
<1>14. CASE UNCHANGED <<work, est, outc>>
  BY <1>14
<1> QED
  <2>1. CASE EngineStep
    BY <2>1, <1>1, <1>2, <1>14 DEF EngineStep, RunStart, Enter, SavePhase, ExpandRevises,
       RunCancelled, RunFails, EnterWaves, WaveBoundary, EndWaves, Collect, GateEnter, GateCall,
       GateAnswer, JudgePasses, JudgeRejects, Complete, Return, FinRead, FinStop, MoveGoal,
       FinVerify, FinReview, FinAccept, FinAccepted, FinUndo, FinBlock, EngineFails
  <2>2. CASE OpStep
    BY <2>2, <1>12, <1>14 DEF OpStep, BindMaster, PauseCheck, PauseSave, SavePhase, PauseGoal,
       ResumeEngine, ResumePhase, RestoreFails, CancelGoal
  <2>3. CASE BootStep
    BY <2>3, <1>14 DEF BootStep, Restart, RecoverActions, RecoverPauses, RecoverNodes,
       RecoverRun, Reconcile, ReconcileTerminal, PauseTransient
  <2>4. CASE UserStep
    BY <2>4, <1>14 DEF UserStep, ApproveUltra, Command, PauseAsk, Resume, EnsureSession,
       CancelAsk, SavePhase, ConvergeBoundary, ResolveNode, ResolveAction
  <2>5. ASSUME NEW n \in Node, NodeStep(n) PROVE WavePlaced'
    BY <2>5, <1>3, <1>4, <1>5, <1>6, <1>7, <1>8, <1>9, <1>10, <1>11 DEF NodeStep
  <2>6. CASE Crash
    BY <2>6, <1>13
  <2>7. ASSUME NEW n \in Node, LoseArtifact(n) PROVE WavePlaced'
    BY <2>7, <1>14 DEF LoseArtifact
  <2>8. CASE UNCHANGED vars
    BY <2>8, <1>14 DEF vars
  <2> QED BY <2>1, <2>2, <2>3, <2>4, <2>5, <2>6, <2>7, <2>8 DEF Next

(* Nothing touches a node before the approval.                             *)
LEMMA UntouchedStep ==
  ASSUME RunInv, [Next]_vars
  PROVE  Untouched'
<1> USE DEF RunInv, TypeOK, Placed, Untouched, Alive, Ended, goalRow, runRow, rows, engine,
   sched, fin, user, ghosts, bounds, EngineFrame, NodeFrame, FinFrame, UserFrame, BootFrame
<1>1. CASE Expand
  BY <1>1 DEF Expand, Held
<1>2. CASE Collect
  BY <1>2 DEF Collect, Enter, SavePhase
<1>3. ASSUME NEW n \in Node, Begin(n) PROVE Untouched'
  BY <1>3 DEF Begin, DepsDurable, Held, End
<1>4. ASSUME NEW n \in Node, Accept(n) PROVE Untouched'
  BY <1>4 DEF Accept, Held
<1>5. ASSUME NEW n \in Node, Reject(n) PROVE Untouched'
  BY <1>5 DEF Reject, Held, End
<1>6. ASSUME NEW n \in Node, NodeDone(n) PROVE Untouched'
  BY <1>6 DEF NodeDone, End
<1>7. CASE BindMaster
  BY <1>7 DEF BindMaster
<1>8. CASE Restore
  BY <1>8 DEF Restore, Restored, Proven, Missing, Reopened, Refused
<1>9. CASE RestoreFails
  BY <1>9 DEF RestoreFails, Refused, Reopened, Missing
<1>10. CASE RecoverNodes
  BY <1>10 DEF RecoverNodes
<1>11. CASE Reconcile
  BY <1>11 DEF Reconcile, ReadOnly
<1>12. ASSUME NEW n \in Node, ResolveNode(n) PROVE Untouched'
  BY <1>12 DEF ResolveNode
<1>13. CASE Crash
  BY <1>13 DEF Crash
<1>14. CASE UNCHANGED <<approved, dst, res, est>>
  BY <1>14
<1> QED
  <2>1. CASE EngineStep
    BY <2>1, <1>1, <1>2, <1>14 DEF EngineStep, RunStart, Enter, SavePhase, ExpandRevises,
       RunCancelled, RunFails, EnterWaves, StartWave, WaveBoundary, EndWaves, GateEnter,
       GateCall, GateAnswer, JudgePasses, JudgeRejects, Complete, Return, FinRead, FinStop,
       MoveGoal, FinVerify, FinReview, FinAccept, FinAccepted, FinUndo, FinBlock, EngineFails
  <2>2. CASE OpStep
    BY <2>2, <1>7, <1>8, <1>9, <1>14 DEF OpStep, PauseCheck, PauseSave, SavePhase, PauseGoal,
       ResumeEngine, ResumePhase, CancelGoal
  <2>3. CASE BootStep
    BY <2>3, <1>10, <1>11, <1>14 DEF BootStep, Restart, RecoverActions, RecoverPauses,
       RecoverRun, ReconcileTerminal, PauseTransient
  <2>4. CASE UserStep
    BY <2>4, <1>12, <1>14 DEF UserStep, ApproveUltra, Command, PauseAsk, Resume, EnsureSession,
       CancelAsk, SavePhase, ConvergeBoundary, ResolveAction
  <2>5. ASSUME NEW n \in Node, NodeStep(n) PROVE Untouched'
    BY <2>5, <1>3, <1>4, <1>5, <1>6, <1>14 DEF NodeStep, NodeCancelled, End, ToolBegin, ToolEnd,
       ToolDenied, NodeError
  <2>6. CASE Crash
    BY <2>6, <1>13
  <2>7. ASSUME NEW n \in Node, LoseArtifact(n) PROVE Untouched'
    BY <2>7, <1>14 DEF LoseArtifact
  <2>8. CASE UNCHANGED vars
    BY <2>8, <1>14 DEF vars
  <2> QED BY <2>1, <2>2, <2>3, <2>4, <2>5, <2>6, <2>7, <2>8 DEF Next

(* restore refuses uncertain rows, and a live run gets only its own.       *)
LEMMA CertainStep ==
  ASSUME RunInv, [Next]_vars
  PROVE  Certain'
<1> USE DEF RunInv, TypeOK, Placed, WavePlaced, Untouched, Certain, Alive, Ended, goalRow,
   runRow, rows, engine, sched, fin, user, ghosts, bounds, EngineFrame, NodeFrame, FinFrame,
   UserFrame, BootFrame
<1>1. CASE RunStart
  BY <1>1 DEF RunStart, Enter, SavePhase
<1>2. CASE Expand
  BY <1>2 DEF Expand, Held
<1>3. CASE ExpandRevises
  BY <1>3 DEF ExpandRevises, Held, Enter, SavePhase
<1>4. CASE RunCancelled
  BY <1>4 DEF RunCancelled, Enter, SavePhase
<1>5. CASE RunFails
  BY <1>5 DEF RunFails
<1>6. CASE EnterWaves
  BY <1>6 DEF EnterWaves, Todo, SavePhase
<1>7. CASE StartWave
  BY <1>7 DEF StartWave, Working, Finished, Doomed, Pending, Todo, Held, DropPending
<1>8. CASE WaveBoundary
  BY <1>8 DEF WaveBoundary, Working, Enter, SavePhase
<1>9. CASE EndWaves
  BY <1>9 DEF EndWaves, Working, Pending, Todo
<1>10. CASE Collect
  BY <1>10 DEF Collect, Enter, SavePhase
<1>11. CASE GateEnter
  BY <1>11 DEF GateEnter, Enter, SavePhase
<1>12. CASE GateCall
  BY <1>12 DEF GateCall, Held
<1>13. CASE GateAnswer
  BY <1>13 DEF GateAnswer
<1>14. CASE JudgePasses
  BY <1>14 DEF JudgePasses
<1>15. CASE JudgeRejects
  BY <1>15 DEF JudgeRejects, Enter, SavePhase
<1>16. CASE Complete
  BY <1>16 DEF Complete, SavePhase
<1>17. CASE Return
  BY <1>17 DEF Return
<1>18. CASE FinRead
  BY <1>18 DEF FinRead
<1>19. CASE FinStop
  BY <1>19 DEF FinStop, MoveGoal
<1>20. CASE FinVerify
  BY <1>20 DEF FinVerify, MoveGoal
<1>21. CASE FinReview
  BY <1>21 DEF FinReview
<1>22. CASE FinAccept
  BY <1>22 DEF FinAccept
<1>23. CASE FinAccepted
  BY <1>23 DEF FinAccepted, MoveGoal
<1>24. CASE FinUndo
  BY <1>24 DEF FinUndo
<1>25. CASE FinBlock
  BY <1>25 DEF FinBlock, MoveGoal
<1>26. CASE EngineFails
  BY <1>26 DEF EngineFails
<1>27. ASSUME NEW n \in Node, Begin(n) PROVE Certain'
  BY <1>27 DEF Begin, DepsDurable, Held, End
<1>28. ASSUME NEW n \in Node, NodeCancelled(n) PROVE Certain'
  BY <1>28 DEF NodeCancelled, End
<1>29. ASSUME NEW n \in Node, ToolDenied(n) PROVE Certain'
  BY <1>29 DEF ToolDenied, Held, End
<1>30. ASSUME NEW n \in Node, Accept(n) PROVE Certain'
  BY <1>30 DEF Accept, Held
<1>31. ASSUME NEW n \in Node, Reject(n) PROVE Certain'
  BY <1>31 DEF Reject, Held, End
<1>32. ASSUME NEW n \in Node, NodeError(n) PROVE Certain'
  BY <1>32 DEF NodeError, End
<1>33. ASSUME NEW n \in Node, NodeDone(n) PROVE Certain'
  BY <1>33 DEF NodeDone, End
<1>34. CASE BindMaster
  BY <1>34 DEF BindMaster
<1>35. CASE Restore
  BY <1>35 DEF Restore, Restored, Proven, Missing, Reopened, Refused
<1>36. CASE RestoreFails
  BY <1>36 DEF RestoreFails, Refused, Reopened, Missing
<1>37. CASE RecoverNodes
  BY <1>37 DEF RecoverNodes
<1>38. CASE Reconcile
  BY <1>38 DEF Reconcile, ReadOnly
<1>39. ASSUME NEW n \in Node, ResolveNode(n) PROVE Certain'
  BY <1>39 DEF ResolveNode
<1>40. CASE Crash
  BY <1>40 DEF Crash
<1>41. CASE UNCHANGED <<thread, dst, outc>>
  BY <1>41
<1> QED
  <2>1. CASE EngineStep
    BY <2>1, <1>1, <1>2, <1>3, <1>4, <1>5, <1>6, <1>7, <1>8, <1>9, <1>10, <1>11, <1>12, <1>13,
       <1>14, <1>15, <1>16, <1>17, <1>18, <1>19, <1>20, <1>21, <1>22, <1>23, <1>24, <1>25, <1>26
       DEF EngineStep
  <2>2. CASE OpStep
    BY <2>2, <1>34, <1>35, <1>36, <1>41 DEF OpStep, PauseCheck, PauseSave, SavePhase, PauseGoal,
       ResumeEngine, ResumePhase, CancelGoal
  <2>3. CASE BootStep
    BY <2>3, <1>37, <1>38, <1>41 DEF BootStep, Restart, RecoverActions, RecoverPauses,
       RecoverRun, ReconcileTerminal, PauseTransient
  <2>4. CASE UserStep
    BY <2>4, <1>39, <1>41 DEF UserStep, ApproveUltra, Command, PauseAsk, Resume, EnsureSession,
       CancelAsk, SavePhase, ConvergeBoundary, ResolveAction
  <2>5. ASSUME NEW n \in Node, NodeStep(n) PROVE Certain'
    BY <2>5, <1>27, <1>28, <1>29, <1>30, <1>31, <1>32, <1>33, <1>41 DEF NodeStep, ToolBegin,
       ToolEnd
  <2>6. CASE Crash
    BY <2>6, <1>40
  <2>7. ASSUME NEW n \in Node, LoseArtifact(n) PROVE Certain'
    BY <2>7, <1>41 DEF LoseArtifact
  <2>8. CASE UNCHANGED vars
    BY <2>8, <1>41 DEF vars
  <2> QED BY <2>1, <2>2, <2>3, <2>4, <2>5, <2>6, <2>7, <2>8 DEF Next

(* Packages, rows and artifacts keep agreeing.                             *)
LEMMA PackagedStep ==
  ASSUME RunInv, [Next]_vars
  PROVE  Packaged'
<1> USE DEF RunInv, TypeOK, Placed, Packaged, Alive, Ended, goalRow, runRow, rows, engine,
   sched, fin, user, ghosts, bounds, EngineFrame, NodeFrame, FinFrame, UserFrame, BootFrame
<1>1. CASE Expand
  BY <1>1 DEF Expand, Held
<1>2. CASE StartWave
  BY <1>2 DEF StartWave, Working, Finished, Doomed, Pending, Todo, Held, DropPending
<1>3. CASE Collect
  BY <1>3 DEF Collect, Enter, SavePhase
<1>4. CASE FinUndo
  BY <1>4 DEF FinUndo
<1>5. ASSUME NEW n \in Node, Begin(n) PROVE Packaged'
  BY <1>5 DEF Begin, DepsDurable, Held, End
<1>6. ASSUME NEW n \in Node, NodeCancelled(n) PROVE Packaged'
  BY <1>6 DEF NodeCancelled, End
<1>7. ASSUME NEW n \in Node, ToolBegin(n) PROVE Packaged'
  BY <1>7 DEF ToolBegin, Held
<1>8. ASSUME NEW n \in Node, ToolEnd(n) PROVE Packaged'
  BY <1>8 DEF ToolEnd
<1>9. ASSUME NEW n \in Node, ToolDenied(n) PROVE Packaged'
  BY <1>9 DEF ToolDenied, Held, End
<1>10. ASSUME NEW n \in Node, Accept(n) PROVE Packaged'
  BY <1>10 DEF Accept, Held
<1>11. ASSUME NEW n \in Node, Reject(n) PROVE Packaged'
  BY <1>11 DEF Reject, Held, End
<1>12. ASSUME NEW n \in Node, NodeError(n) PROVE Packaged'
  BY <1>12 DEF NodeError, End
<1>13. ASSUME NEW n \in Node, NodeDone(n) PROVE Packaged'
  BY <1>13 DEF NodeDone, End
<1>14. CASE Restore
  BY <1>14 DEF Restore, Restored, Proven, Missing, Reopened, Refused
<1>15. CASE RestoreFails
  BY <1>15 DEF RestoreFails, Refused, Reopened, Missing
<1>16. CASE RecoverNodes
  BY <1>16 DEF RecoverNodes
<1>17. CASE Reconcile
  BY <1>17 DEF Reconcile, ReadOnly
<1>18. ASSUME NEW n \in Node, ResolveNode(n) PROVE Packaged'
  BY <1>18 DEF ResolveNode
<1>19. CASE Crash
  BY <1>19 DEF Crash
<1>20. ASSUME NEW n \in Node, LoseArtifact(n) PROVE Packaged'
  BY <1>20 DEF LoseArtifact
<1>21. CASE UNCHANGED <<dst, res, work, art>>
  BY <1>21
<1> QED
  <2>1. CASE EngineStep
    BY <2>1, <1>1, <1>2, <1>3, <1>4, <1>21 DEF EngineStep, RunStart, Enter, SavePhase,
       ExpandRevises, RunCancelled, RunFails, EnterWaves, WaveBoundary, EndWaves, GateEnter,
       GateCall, GateAnswer, JudgePasses, JudgeRejects, Complete, Return, FinRead, FinStop,
       MoveGoal, FinVerify, FinReview, FinAccept, FinAccepted, FinBlock, EngineFails
  <2>2. CASE OpStep
    BY <2>2, <1>14, <1>15, <1>21 DEF OpStep, BindMaster, PauseCheck, PauseSave, SavePhase,
       PauseGoal, ResumeEngine, ResumePhase, CancelGoal
  <2>3. CASE BootStep
    BY <2>3, <1>16, <1>17, <1>21 DEF BootStep, Restart, RecoverActions, RecoverPauses,
       RecoverRun, ReconcileTerminal, PauseTransient
  <2>4. CASE UserStep
    BY <2>4, <1>18, <1>21 DEF UserStep, ApproveUltra, Command, PauseAsk, Resume, EnsureSession,
       CancelAsk, SavePhase, ConvergeBoundary, ResolveAction
  <2>5. ASSUME NEW n \in Node, NodeStep(n) PROVE Packaged'
    BY <2>5, <1>5, <1>6, <1>7, <1>8, <1>9, <1>10, <1>11, <1>12, <1>13 DEF NodeStep
  <2>6. CASE Crash
    BY <2>6, <1>19
  <2>7. ASSUME NEW n \in Node, LoseArtifact(n) PROVE Packaged'
    BY <2>7, <1>20
  <2>8. CASE UNCHANGED vars
    BY <2>8, <1>21 DEF vars
  <2> QED BY <2>1, <2>2, <2>3, <2>4, <2>5, <2>6, <2>7, <2>8 DEF Next

(* Whatever fails after a package was saved, the node is not left to run.  *)
LEMMA UnacceptedStep ==
  ASSUME RunInv, [Next]_vars
  PROVE  Unaccepted'
<1> USE DEF RunInv, TypeOK, Placed, WavePlaced, Untouched, Certain, Unaccepted, Alive, Ended,
   goalRow, runRow, rows, engine, sched, fin, user, ghosts, bounds, EngineFrame, NodeFrame,
   FinFrame, UserFrame, BootFrame
<1>1. CASE RunStart
  BY <1>1 DEF RunStart, Enter, SavePhase
<1>2. CASE Expand
  BY <1>2 DEF Expand, Held
<1>3. CASE ExpandRevises
  BY <1>3 DEF ExpandRevises, Held, Enter, SavePhase
<1>4. CASE RunCancelled
  BY <1>4 DEF RunCancelled, Enter, SavePhase
<1>5. CASE RunFails
  BY <1>5 DEF RunFails
<1>6. CASE EnterWaves
  BY <1>6 DEF EnterWaves, Todo, SavePhase
<1>7. CASE StartWave
  BY <1>7 DEF StartWave, Working, Finished, Doomed, Pending, Todo, Held, DropPending
<1>8. CASE WaveBoundary
  BY <1>8 DEF WaveBoundary, Working, Enter, SavePhase
<1>9. CASE EndWaves
  BY <1>9 DEF EndWaves, Working, Pending, Todo
<1>10. CASE Collect
  BY <1>10 DEF Collect, Enter, SavePhase
<1>11. CASE GateEnter
  BY <1>11 DEF GateEnter, Enter, SavePhase
<1>12. CASE GateCall
  BY <1>12 DEF GateCall, Held
<1>13. CASE GateAnswer
  BY <1>13 DEF GateAnswer
<1>14. CASE JudgePasses
  BY <1>14 DEF JudgePasses
<1>15. CASE JudgeRejects
  BY <1>15 DEF JudgeRejects, Enter, SavePhase
<1>16. CASE Complete
  BY <1>16 DEF Complete, SavePhase
<1>17. CASE Return
  BY <1>17 DEF Return
<1>18. CASE FinRead
  BY <1>18 DEF FinRead
<1>19. CASE FinStop
  BY <1>19 DEF FinStop, MoveGoal
<1>20. CASE FinVerify
  BY <1>20 DEF FinVerify, MoveGoal
<1>21. CASE FinReview
  BY <1>21 DEF FinReview
<1>22. CASE FinAccept
  BY <1>22 DEF FinAccept
<1>23. CASE FinAccepted
  BY <1>23 DEF FinAccepted, MoveGoal
<1>24. CASE FinUndo
  BY <1>24 DEF FinUndo
<1>25. CASE FinBlock
  BY <1>25 DEF FinBlock, MoveGoal
<1>26. CASE EngineFails
  BY <1>26 DEF EngineFails
<1>27. ASSUME NEW n \in Node, Begin(n) PROVE Unaccepted'
  BY <1>27 DEF Begin, DepsDurable, Held, End
<1>28. ASSUME NEW n \in Node, NodeCancelled(n) PROVE Unaccepted'
  BY <1>28 DEF NodeCancelled, End
<1>29. ASSUME NEW n \in Node, ToolBegin(n) PROVE Unaccepted'
  BY <1>29 DEF ToolBegin, Held
<1>30. ASSUME NEW n \in Node, ToolEnd(n) PROVE Unaccepted'
  BY <1>30 DEF ToolEnd
<1>31. ASSUME NEW n \in Node, ToolDenied(n) PROVE Unaccepted'
  BY <1>31 DEF ToolDenied, Held, End
<1>32. ASSUME NEW n \in Node, Accept(n) PROVE Unaccepted'
  BY <1>32 DEF Accept, Held
<1>33. ASSUME NEW n \in Node, Reject(n) PROVE Unaccepted'
  BY <1>33 DEF Reject, Held, End
<1>34. ASSUME NEW n \in Node, NodeError(n) PROVE Unaccepted'
  BY <1>34 DEF NodeError, End
<1>35. ASSUME NEW n \in Node, NodeDone(n) PROVE Unaccepted'
  BY <1>35 DEF NodeDone, End
<1>36. CASE BindMaster
  BY <1>36 DEF BindMaster
<1>37. CASE Restore
  BY <1>37 DEF Restore, Restored, Proven, Missing, Reopened, Refused
<1>38. CASE RestoreFails
  BY <1>38 DEF RestoreFails, Refused, Reopened, Missing
<1>39. ASSUME NEW n \in Node, ResolveNode(n) PROVE Unaccepted'
  BY <1>39 DEF ResolveNode
<1>40. CASE Crash
  BY <1>40 DEF Crash
<1>41. ASSUME NEW n \in Node, LoseArtifact(n) PROVE Unaccepted'
  BY <1>41 DEF LoseArtifact
<1>42. CASE UNCHANGED <<thread, est, outc, work, res, art, doubted>>
  BY <1>42
<1> QED
  <2>1. CASE EngineStep
    BY <2>1, <1>1, <1>2, <1>3, <1>4, <1>5, <1>6, <1>7, <1>8, <1>9, <1>10, <1>11, <1>12, <1>13,
       <1>14, <1>15, <1>16, <1>17, <1>18, <1>19, <1>20, <1>21, <1>22, <1>23, <1>24, <1>25, <1>26
       DEF EngineStep
  <2>2. CASE OpStep
    BY <2>2, <1>36, <1>37, <1>38, <1>42 DEF OpStep, PauseCheck, PauseSave, SavePhase, PauseGoal,
       ResumeEngine, ResumePhase, CancelGoal
  <2>3. CASE BootStep
    BY <2>3, <1>42 DEF BootStep, Restart, RecoverActions, RecoverPauses, RecoverNodes,
       RecoverRun, Reconcile, ReconcileTerminal, PauseTransient
  <2>4. CASE UserStep
    BY <2>4, <1>39, <1>42 DEF UserStep, ApproveUltra, Command, PauseAsk, Resume, EnsureSession,
       CancelAsk, SavePhase, ConvergeBoundary, ResolveAction
  <2>5. ASSUME NEW n \in Node, NodeStep(n) PROVE Unaccepted'
    BY <2>5, <1>27, <1>28, <1>29, <1>30, <1>31, <1>32, <1>33, <1>34, <1>35 DEF NodeStep
  <2>6. CASE Crash
    BY <2>6, <1>40
  <2>7. ASSUME NEW n \in Node, LoseArtifact(n) PROVE Unaccepted'
    BY <2>7, <1>41
  <2>8. CASE UNCHANGED vars
    BY <2>8, <1>42 DEF vars
  <2> QED BY <2>1, <2>2, <2>3, <2>4, <2>5, <2>6, <2>7, <2>8 DEF Next

(* Completed nodes keep their evidence while the run lasts.                *)
LEMMA SoundStep ==
  ASSUME RunInv, [Next]_vars
  PROVE  Sound'
<1> USE DEF RunInv, TypeOK, Placed, WavePlaced, Untouched, Packaged, Sound, Alive, Ended,
   goalRow, runRow, rows, engine, sched, fin, user, ghosts, bounds, EngineFrame, NodeFrame,
   FinFrame, UserFrame, BootFrame
<1>1. CASE RunStart
  BY <1>1 DEF RunStart, Enter, SavePhase
<1>2. CASE Expand
  BY <1>2 DEF Expand, Held
<1>3. CASE ExpandRevises
  BY <1>3 DEF ExpandRevises, Held, Enter, SavePhase
<1>4. CASE RunCancelled
  BY <1>4 DEF RunCancelled, Enter, SavePhase
<1>5. CASE RunFails
  BY <1>5 DEF RunFails
<1>6. CASE EnterWaves
  BY <1>6 DEF EnterWaves, Todo, SavePhase
<1>7. CASE WaveBoundary
  BY <1>7 DEF WaveBoundary, Working, Enter, SavePhase
<1>8. CASE EndWaves
  BY <1>8 DEF EndWaves, Working, Pending, Todo
<1>9. CASE Collect
  BY <1>9 DEF Collect, Enter, SavePhase
<1>10. CASE GateEnter
  BY <1>10 DEF GateEnter, Enter, SavePhase
<1>11. CASE GateCall
  BY <1>11 DEF GateCall, Held
<1>12. CASE GateAnswer
  BY <1>12 DEF GateAnswer
<1>13. CASE JudgePasses
  BY <1>13 DEF JudgePasses
<1>14. CASE JudgeRejects
  BY <1>14 DEF JudgeRejects, Enter, SavePhase
<1>15. CASE Complete
  BY <1>15 DEF Complete, SavePhase
<1>16. CASE Return
  BY <1>16 DEF Return
<1>17. CASE FinRead
  BY <1>17 DEF FinRead
<1>18. CASE FinStop
  BY <1>18 DEF FinStop, MoveGoal
<1>19. CASE FinVerify
  BY <1>19 DEF FinVerify, MoveGoal
<1>20. CASE FinReview
  BY <1>20 DEF FinReview
<1>21. CASE FinAccept
  BY <1>21 DEF FinAccept
<1>22. CASE FinAccepted
  BY <1>22 DEF FinAccepted, MoveGoal
<1>23. CASE FinUndo
  BY <1>23 DEF FinUndo
<1>24. CASE FinBlock
  BY <1>24 DEF FinBlock, MoveGoal
<1>25. CASE EngineFails
  BY <1>25 DEF EngineFails
<1>26. ASSUME NEW n \in Node, ToolEnd(n) PROVE Sound'
  BY <1>26 DEF ToolEnd
<1>27. ASSUME NEW n \in Node, Accept(n) PROVE Sound'
  BY <1>27 DEF Accept, Held
<1>28. ASSUME NEW n \in Node, Reject(n) PROVE Sound'
  BY <1>28 DEF Reject, Held, End
<1>29. ASSUME NEW n \in Node, NodeDone(n) PROVE Sound'
  BY <1>29 DEF NodeDone, End
<1>30. CASE BindMaster
  BY <1>30 DEF BindMaster
<1>31. CASE Restore
  BY <1>31 DEF Restore, Restored, Proven, Missing, Reopened, Refused
<1>32. CASE RestoreFails
  BY <1>32 DEF RestoreFails, Refused, Reopened, Missing
<1>33. ASSUME NEW n \in Node, ResolveNode(n) PROVE Sound'
  BY <1>33 DEF ResolveNode
<1>34. CASE Crash
  BY <1>34 DEF Crash
<1>35. ASSUME NEW n \in Node, LoseArtifact(n) PROVE Sound'
  BY <1>35 DEF LoseArtifact
<1>36. CASE UNCHANGED <<thread, est, res, art, vouched>>
  BY <1>36
<1> QED
  <2>1. CASE EngineStep
    BY <2>1, <1>1, <1>2, <1>3, <1>4, <1>5, <1>6, <1>7, <1>8, <1>9, <1>10, <1>11, <1>12, <1>13,
       <1>14, <1>15, <1>16, <1>17, <1>18, <1>19, <1>20, <1>21, <1>22, <1>23, <1>24, <1>25, <1>36
       DEF EngineStep, StartWave
  <2>2. CASE OpStep
    BY <2>2, <1>30, <1>31, <1>32, <1>36 DEF OpStep, PauseCheck, PauseSave, SavePhase, PauseGoal,
       ResumeEngine, ResumePhase, CancelGoal
  <2>3. CASE BootStep
    BY <2>3, <1>36 DEF BootStep, Restart, RecoverActions, RecoverPauses, RecoverNodes,
       RecoverRun, Reconcile, ReconcileTerminal, PauseTransient
  <2>4. CASE UserStep
    BY <2>4, <1>33, <1>36 DEF UserStep, ApproveUltra, Command, PauseAsk, Resume, EnsureSession,
       CancelAsk, SavePhase, ConvergeBoundary, ResolveAction
  <2>5. ASSUME NEW n \in Node, NodeStep(n) PROVE Sound'
    BY <2>5, <1>26, <1>27, <1>28, <1>29, <1>36 DEF NodeStep, Begin, End, NodeCancelled,
       ToolBegin, ToolDenied, NodeError
  <2>6. CASE Crash
    BY <2>6, <1>34
  <2>7. ASSUME NEW n \in Node, LoseArtifact(n) PROVE Sound'
    BY <2>7, <1>35
  <2>8. CASE UNCHANGED vars
    BY <2>8, <1>36 DEF vars
  <2> QED BY <2>1, <2>2, <2>3, <2>4, <2>5, <2>6, <2>7, <2>8 DEF Next

(* From the global gate to the end nothing writes an artifact.             *)
LEMMA JudgedStep ==
  ASSUME RunInv, [Next]_vars
  PROVE  Judged'
<1> USE DEF RunInv, TypeOK, Placed, WavePlaced, Judged, NoneLeft, Alive, Ended, goalRow, runRow,
   rows, engine, sched, fin, user, ghosts, bounds, EngineFrame, NodeFrame, FinFrame, UserFrame,
   BootFrame
<1>1. CASE RunStart
  BY <1>1 DEF RunStart, Enter, SavePhase
<1>2. CASE Expand
  BY <1>2 DEF Expand, Held
<1>3. CASE ExpandRevises
  BY <1>3 DEF ExpandRevises, Held, Enter, SavePhase
<1>4. CASE RunCancelled
  BY <1>4 DEF RunCancelled, Enter, SavePhase
<1>5. CASE RunFails
  BY <1>5 DEF RunFails
<1>6. CASE EnterWaves
  BY <1>6 DEF EnterWaves, Todo, SavePhase
<1>7. CASE WaveBoundary
  BY <1>7 DEF WaveBoundary, Working, Enter, SavePhase
<1>8. CASE EndWaves
  BY <1>8 DEF EndWaves, Working, Pending, Todo
<1>9. CASE Collect
  BY <1>9 DEF Collect, Enter, SavePhase
<1>10. CASE GateEnter
  BY <1>10 DEF GateEnter, Enter, SavePhase
<1>11. CASE GateCall
  BY <1>11 DEF GateCall, Held
<1>12. CASE GateAnswer
  BY <1>12 DEF GateAnswer
<1>13. CASE JudgePasses
  BY <1>13 DEF JudgePasses
<1>14. CASE JudgeRejects
  BY <1>14 DEF JudgeRejects, Enter, SavePhase
<1>15. CASE Complete
  BY <1>15 DEF Complete, SavePhase
<1>16. CASE Return
  BY <1>16 DEF Return
<1>17. CASE FinRead
  BY <1>17 DEF FinRead
<1>18. CASE FinStop
  BY <1>18 DEF FinStop, MoveGoal
<1>19. CASE FinVerify
  BY <1>19 DEF FinVerify, MoveGoal
<1>20. CASE FinReview
  BY <1>20 DEF FinReview
<1>21. CASE FinAccept
  BY <1>21 DEF FinAccept
<1>22. CASE FinAccepted
  BY <1>22 DEF FinAccepted, MoveGoal
<1>23. CASE FinUndo
  BY <1>23 DEF FinUndo
<1>24. CASE FinBlock
  BY <1>24 DEF FinBlock, MoveGoal
<1>25. CASE EngineFails
  BY <1>25 DEF EngineFails
<1>26. ASSUME NEW n \in Node, ToolEnd(n) PROVE Judged'
  BY <1>26 DEF ToolEnd
<1>27. ASSUME NEW n \in Node, Accept(n) PROVE Judged'
  BY <1>27 DEF Accept, Held
<1>28. ASSUME NEW n \in Node, NodeDone(n) PROVE Judged'
  BY <1>28 DEF NodeDone, End
<1>29. CASE BindMaster
  BY <1>29 DEF BindMaster
<1>30. CASE PauseSave
  BY <1>30 DEF PauseSave, SavePhase
<1>31. CASE ResumePhase
  BY <1>31 DEF ResumePhase, SavePhase
<1>32. CASE Restore
  BY <1>32 DEF Restore, Restored, Proven, Missing, Reopened, Refused
<1>33. CASE RestoreFails
  BY <1>33 DEF RestoreFails, Refused, Reopened, Missing
<1>34. CASE PauseAsk
  BY <1>34 DEF PauseAsk, Running, Command
<1>35. CASE CancelAsk
  BY <1>35 DEF CancelAsk, Running, Command, SavePhase
<1>36. CASE Crash
  BY <1>36 DEF Crash
<1>37. ASSUME NEW n \in Node, LoseArtifact(n) PROVE Judged'
  BY <1>37 DEF LoseArtifact
<1>38. CASE UNCHANGED <<before, thread, est, reviewed, art, phase, final>>
  BY <1>38
<1> QED
  <2>1. CASE EngineStep
    BY <2>1, <1>1, <1>2, <1>3, <1>4, <1>5, <1>6, <1>7, <1>8, <1>9, <1>10, <1>11, <1>12, <1>13,
       <1>14, <1>15, <1>16, <1>17, <1>18, <1>19, <1>20, <1>21, <1>22, <1>23, <1>24, <1>25, <1>38
       DEF EngineStep, StartWave
  <2>2. CASE OpStep
    BY <2>2, <1>29, <1>30, <1>31, <1>32, <1>33, <1>38 DEF OpStep, PauseCheck, PauseGoal,
       ResumeEngine, CancelGoal
  <2>3. CASE BootStep
    BY <2>3, <1>38 DEF BootStep, Restart, RecoverActions, RecoverPauses, RecoverNodes,
       RecoverRun, Reconcile, ReconcileTerminal, PauseTransient
  <2>4. CASE UserStep
    BY <2>4, <1>34, <1>35, <1>38 DEF UserStep, ApproveUltra, Command, Resume, EnsureSession,
       ConvergeBoundary, ResolveNode, ResolveAction
  <2>5. ASSUME NEW n \in Node, NodeStep(n) PROVE Judged'
    BY <2>5, <1>26, <1>27, <1>28, <1>38 DEF NodeStep, Begin, End, NodeCancelled, ToolBegin,
       ToolDenied, Reject, NodeError
  <2>6. CASE Crash
    BY <2>6, <1>36
  <2>7. ASSUME NEW n \in Node, LoseArtifact(n) PROVE Judged'
    BY <2>7, <1>37
  <2>8. CASE UNCHANGED vars
    BY <2>8, <1>38 DEF vars
  <2> QED BY <2>1, <2>2, <2>3, <2>4, <2>5, <2>6, <2>7, <2>8 DEF Next

(* The finishing thread takes a running goal along, or a resume saw it.    *)
LEMMA OwnedStep ==
  ASSUME RunInv, [Next]_vars
  PROVE  Owned'
<1> USE DEF RunInv, TypeOK, Placed, Owned, Alive, Ended, goalRow, runRow, rows, engine, sched,
   fin, user, ghosts, bounds, EngineFrame, NodeFrame, FinFrame, UserFrame, BootFrame
<1>1. CASE RunStart
  BY <1>1 DEF RunStart, Enter, SavePhase
<1>2. CASE Expand
  BY <1>2 DEF Expand, Held
<1>3. CASE ExpandRevises
  BY <1>3 DEF ExpandRevises, Held, Enter, SavePhase
<1>4. CASE RunCancelled
  BY <1>4 DEF RunCancelled, Enter, SavePhase
<1>5. CASE RunFails
  BY <1>5 DEF RunFails
<1>6. CASE EnterWaves
  BY <1>6 DEF EnterWaves, Todo, SavePhase
<1>7. CASE WaveBoundary
  BY <1>7 DEF WaveBoundary, Working, Enter, SavePhase
<1>8. CASE EndWaves
  BY <1>8 DEF EndWaves, Working, Pending, Todo
<1>9. CASE Collect
  BY <1>9 DEF Collect, Enter, SavePhase
<1>10. CASE GateEnter
  BY <1>10 DEF GateEnter, Enter, SavePhase
<1>11. CASE GateCall
  BY <1>11 DEF GateCall, Held
<1>12. CASE GateAnswer
  BY <1>12 DEF GateAnswer
<1>13. CASE JudgePasses
  BY <1>13 DEF JudgePasses
<1>14. CASE JudgeRejects
  BY <1>14 DEF JudgeRejects, Enter, SavePhase
<1>15. CASE Complete
  BY <1>15 DEF Complete, SavePhase
<1>16. CASE Return
  BY <1>16 DEF Return
<1>17. CASE FinRead
  BY <1>17 DEF FinRead
<1>18. CASE FinStop
  BY <1>18 DEF FinStop, MoveGoal
<1>19. CASE FinVerify
  BY <1>19 DEF FinVerify, MoveGoal
<1>20. CASE FinReview
  BY <1>20 DEF FinReview
<1>21. CASE FinAccept
  BY <1>21 DEF FinAccept
<1>22. CASE FinAccepted
  BY <1>22 DEF FinAccepted, MoveGoal
<1>23. CASE FinUndo
  BY <1>23 DEF FinUndo
<1>24. CASE FinBlock
  BY <1>24 DEF FinBlock, MoveGoal
<1>25. CASE EngineFails
  BY <1>25 DEF GoalMay, GoalGraph, EngineFails
<1>26. ASSUME NEW n \in Node, ToolDenied(n) PROVE Owned'
  BY <1>26 DEF ToolDenied, Held, End
<1>27. CASE BindMaster
  BY <1>27 DEF BindMaster
<1>28. CASE PauseCheck
  BY <1>28 DEF PauseCheck
<1>29. CASE PauseSave
  BY <1>29 DEF PauseSave, SavePhase
<1>30. CASE PauseGoal
  BY <1>30 DEF PauseGoal
<1>31. CASE ResumeEngine
  BY <1>31 DEF ResumeEngine
<1>32. CASE ResumePhase
  BY <1>32 DEF ResumePhase, SavePhase
<1>33. CASE Restore
  BY <1>33 DEF Restore, Restored, Proven, Missing, Reopened, Refused
<1>34. CASE RestoreFails
  BY <1>34 DEF RestoreFails, Refused, Reopened, Missing
<1>35. CASE CancelGoal
  BY <1>35 DEF CancelGoal
<1>36. CASE RecoverActions
  BY <1>36 DEF RecoverActions, Interrupted
<1>37. CASE RecoverPauses
  BY <1>37 DEF RecoverPauses
<1>38. CASE RecoverRun
  BY <1>38 DEF RecoverRun
<1>39. CASE ReconcileTerminal
  BY <1>39 DEF ReconcileTerminal
<1>40. CASE PauseTransient
  BY <1>40 DEF PauseTransient
<1>41. CASE ApproveUltra
  BY <1>41 DEF ApproveUltra, Command
<1>42. CASE PauseAsk
  BY <1>42 DEF PauseAsk, Running, Command
<1>43. CASE Resume
  BY <1>43 DEF Resume, Unresolved, Resumable, Running, Command
<1>44. CASE EnsureSession
  BY <1>44 DEF EnsureSession, Command
<1>45. CASE CancelAsk
  BY <1>45 DEF CancelAsk, Running, Command, SavePhase
<1>46. CASE ConvergeBoundary
  BY <1>46 DEF ConvergeBoundary
<1>47. CASE Crash
  BY <1>47 DEF Crash
<1>48. CASE UNCHANGED <<thread, seen, goal, late, op>>
  BY <1>48
<1> QED
  <2>1. CASE EngineStep
    BY <2>1, <1>1, <1>2, <1>3, <1>4, <1>5, <1>6, <1>7, <1>8, <1>9, <1>10, <1>11, <1>12, <1>13,
       <1>14, <1>15, <1>16, <1>17, <1>18, <1>19, <1>20, <1>21, <1>22, <1>23, <1>24, <1>25, <1>48
       DEF EngineStep, StartWave
  <2>2. CASE OpStep
    BY <2>2, <1>27, <1>28, <1>29, <1>30, <1>31, <1>32, <1>33, <1>34, <1>35 DEF OpStep
  <2>3. CASE BootStep
    BY <2>3, <1>36, <1>37, <1>38, <1>39, <1>40, <1>48 DEF BootStep, Restart, RecoverNodes,
       Reconcile
  <2>4. CASE UserStep
    BY <2>4, <1>41, <1>42, <1>43, <1>44, <1>45, <1>46, <1>48 DEF UserStep, ResolveNode,
       ResolveAction
  <2>5. ASSUME NEW n \in Node, NodeStep(n) PROVE Owned'
    BY <2>5, <1>26, <1>48 DEF NodeStep, Begin, End, NodeCancelled, ToolBegin, ToolEnd, Accept,
       Reject, NodeError, NodeDone
  <2>6. CASE Crash
    BY <2>6, <1>47
  <2>7. ASSUME NEW n \in Node, LoseArtifact(n) PROVE Owned'
    BY <2>7, <1>48 DEF LoseArtifact
  <2>8. CASE UNCHANGED vars
    BY <2>8, <1>48 DEF vars
  <2> QED BY <2>1, <2>2, <2>3, <2>4, <2>5, <2>6, <2>7, <2>8 DEF Next

(* No step takes a dependency of a working node back.                      *)
LEMMA DependencyStep ==
  ASSUME RunInv, [Next]_vars
  PROVE  DependenciesHold'
<1> USE DEF RunInv, TypeOK, Placed, WavePlaced, DependenciesHold, Alive, Ended, goalRow, runRow,
   rows, engine, sched, fin, user, ghosts, bounds, EngineFrame, NodeFrame, FinFrame, UserFrame,
   BootFrame
<1>1. CASE Expand
  BY <1>1 DEF Expand, Held
<1>2. CASE StartWave
  BY <1>2 DEF StartWave, Working, Finished, Doomed, Pending, Todo, Held, DropPending
<1>3. CASE Collect
  BY <1>3 DEF Collect, Enter, SavePhase
<1>4. ASSUME NEW n \in Node, Begin(n) PROVE DependenciesHold'
  BY <1>4 DEF Begin, DepsDurable, Held, End
<1>5. ASSUME NEW n \in Node, NodeCancelled(n) PROVE DependenciesHold'
  BY <1>5 DEF NodeCancelled, End
<1>6. ASSUME NEW n \in Node, ToolBegin(n) PROVE DependenciesHold'
  BY <1>6 DEF ToolBegin, Held
<1>7. ASSUME NEW n \in Node, ToolEnd(n) PROVE DependenciesHold'
  BY <1>7 DEF ToolEnd
<1>8. ASSUME NEW n \in Node, ToolDenied(n) PROVE DependenciesHold'
  BY <1>8 DEF ToolDenied, Held, End
<1>9. ASSUME NEW n \in Node, Accept(n) PROVE DependenciesHold'
  BY <1>9 DEF Accept, Held
<1>10. ASSUME NEW n \in Node, Reject(n) PROVE DependenciesHold'
  BY <1>10 DEF Reject, Held, End
<1>11. ASSUME NEW n \in Node, NodeError(n) PROVE DependenciesHold'
  BY <1>11 DEF NodeError, End
<1>12. ASSUME NEW n \in Node, NodeDone(n) PROVE DependenciesHold'
  BY <1>12 DEF NodeDone, End
<1>13. CASE Restore
  BY <1>13 DEF Restore, Restored, Proven, Missing, Reopened, Refused
<1>14. CASE RestoreFails
  BY <1>14 DEF RestoreFails, Refused, Reopened, Missing
<1>15. CASE RecoverNodes
  BY <1>15 DEF RecoverNodes
<1>16. CASE Reconcile
  BY <1>16 DEF Reconcile, ReadOnly
<1>17. ASSUME NEW n \in Node, ResolveNode(n) PROVE DependenciesHold'
  BY <1>17 DEF ResolveNode
<1>18. CASE Crash
  BY <1>18 DEF Crash
<1>19. CASE UNCHANGED <<work, dst>>
  BY <1>19
<1> QED
  <2>1. CASE EngineStep
    BY <2>1, <1>1, <1>2, <1>3, <1>19 DEF EngineStep, RunStart, Enter, SavePhase, ExpandRevises,
       RunCancelled, RunFails, EnterWaves, WaveBoundary, EndWaves, GateEnter, GateCall,
       GateAnswer, JudgePasses, JudgeRejects, Complete, Return, FinRead, FinStop, MoveGoal,
       FinVerify, FinReview, FinAccept, FinAccepted, FinUndo, FinBlock, EngineFails
  <2>2. CASE OpStep
    BY <2>2, <1>13, <1>14, <1>19 DEF OpStep, BindMaster, PauseCheck, PauseSave, SavePhase,
       PauseGoal, ResumeEngine, ResumePhase, CancelGoal
  <2>3. CASE BootStep
    BY <2>3, <1>15, <1>16, <1>19 DEF BootStep, Restart, RecoverActions, RecoverPauses,
       RecoverRun, ReconcileTerminal, PauseTransient
  <2>4. CASE UserStep
    BY <2>4, <1>17, <1>19 DEF UserStep, ApproveUltra, Command, PauseAsk, Resume, EnsureSession,
       CancelAsk, SavePhase, ConvergeBoundary, ResolveAction
  <2>5. ASSUME NEW n \in Node, NodeStep(n) PROVE DependenciesHold'
    BY <2>5, <1>4, <1>5, <1>6, <1>7, <1>8, <1>9, <1>10, <1>11, <1>12 DEF NodeStep
  <2>6. CASE Crash
    BY <2>6, <1>18
  <2>7. ASSUME NEW n \in Node, LoseArtifact(n) PROVE DependenciesHold'
    BY <2>7, <1>19 DEF LoseArtifact
  <2>8. CASE UNCHANGED vars
    BY <2>8, <1>19 DEF vars
  <2> QED BY <2>1, <2>2, <2>3, <2>4, <2>5, <2>6, <2>7, <2>8 DEF Next

(* Only the finishing thread, after its final acceptance, completes a goal. *)
LEMMA CloseStep ==
  ASSUME RunInv, [Next]_vars
  PROVE  ClosedByGate
<1> USE DEF RunInv, TypeOK, ClosedByGate, goalRow, runRow, rows, engine, sched, fin, user,
   ghosts, bounds, EngineFrame, NodeFrame, FinFrame, UserFrame, BootFrame
<1>1. CASE FinStop
  BY <1>1 DEF FinStop, MoveGoal
<1>2. CASE FinVerify
  BY <1>2 DEF FinVerify, MoveGoal
<1>3. CASE FinReview
  BY <1>3 DEF FinReview
<1>4. CASE FinAccepted
  BY <1>4 DEF FinAccepted, MoveGoal
<1>5. CASE FinBlock
  BY <1>5 DEF FinBlock, MoveGoal
<1>6. CASE EngineFails
  BY <1>6 DEF EngineFails
<1>7. ASSUME NEW n \in Node, ToolDenied(n) PROVE ClosedByGate
  BY <1>7 DEF ToolDenied, Held, End
<1>8. CASE PauseGoal
  BY <1>8 DEF PauseGoal
<1>9. CASE RestoreFails
  BY <1>9 DEF RestoreFails, Refused, Reopened, Missing
<1>10. CASE CancelGoal
  BY <1>10 DEF CancelGoal
<1>11. CASE RecoverActions
  BY <1>11 DEF RecoverActions, Interrupted
<1>12. CASE RecoverPauses
  BY <1>12 DEF RecoverPauses
<1>13. CASE RecoverRun
  BY <1>13 DEF RecoverRun
<1>14. CASE ReconcileTerminal
  BY <1>14 DEF ReconcileTerminal
<1>15. CASE PauseTransient
  BY <1>15 DEF PauseTransient
<1>16. CASE ApproveUltra
  BY <1>16 DEF ApproveUltra, Command
<1>17. CASE Resume
  BY <1>17 DEF Resume, Unresolved, Resumable, Running, Alive, Ended, Command
<1>18. CASE ConvergeBoundary
  BY <1>18 DEF ConvergeBoundary
<1>19. CASE UNCHANGED <<goal>>
  BY <1>19
<1> QED
  <2>1. CASE EngineStep
    BY <2>1, <1>1, <1>2, <1>3, <1>4, <1>5, <1>6, <1>19 DEF EngineStep, RunStart, Enter,
       SavePhase, Expand, ExpandRevises, RunCancelled, RunFails, EnterWaves, StartWave,
       WaveBoundary, EndWaves, Collect, GateEnter, GateCall, GateAnswer, JudgePasses,
       JudgeRejects, Complete, Return, FinRead, FinAccept, FinUndo
  <2>2. CASE OpStep
    BY <2>2, <1>8, <1>9, <1>10, <1>19 DEF OpStep, BindMaster, PauseCheck, PauseSave, SavePhase,
       ResumeEngine, ResumePhase, Restore
  <2>3. CASE BootStep
    BY <2>3, <1>11, <1>12, <1>13, <1>14, <1>15, <1>19 DEF BootStep, Restart, RecoverNodes,
       Reconcile
  <2>4. CASE UserStep
    BY <2>4, <1>16, <1>17, <1>18, <1>19 DEF UserStep, PauseAsk, Command, EnsureSession,
       CancelAsk, SavePhase, ResolveNode, ResolveAction
  <2>5. ASSUME NEW n \in Node, NodeStep(n) PROVE ClosedByGate
    BY <2>5, <1>7, <1>19 DEF NodeStep, Begin, End, NodeCancelled, ToolBegin, ToolEnd, Accept,
       Reject, NodeError, NodeDone
  <2>6. CASE Crash
    BY <2>6, <1>19 DEF Crash
  <2>7. ASSUME NEW n \in Node, LoseArtifact(n) PROVE ClosedByGate
    BY <2>7, <1>19 DEF LoseArtifact
  <2>8. CASE UNCHANGED vars
    BY <2>8, <1>19 DEF vars
  <2> QED BY <2>1, <2>2, <2>3, <2>4, <2>5, <2>6, <2>7, <2>8 DEF Next

LEMMA TypeStep ==
  ASSUME RunInv, [Next]_vars
  PROVE  TypeOK'
BY FlagStep, ColumnStep DEF TypeOK, Flags, Columns

LEMMA RunStep == RunInv /\ [Next]_vars => RunInv'
BY TypeStep, PlacedStep, CutOffStep, WaveStep, UntouchedStep, CertainStep, PackagedStep,
   UnacceptedStep, SoundStep, JudgedStep, OwnedStep, DependencyStep
   DEF RunInv

LEMMA RunAlways == Spec => []RunInv
BY RunInitially, RunStep, PTL DEF Spec

(* Every column and every variable of the run keeps its type.              *)
THEOREM RunTyped == Spec => []TypeOK
BY RunAlways, PTL DEF RunInv

(* A node whose tool a crash cut off does not run before resolve_action    *)
(* settled it, however often recovery itself is interrupted.               *)
THEOREM CutToolsWait == Spec => []CutWorkWaits
<1>1. RunInv => CutWorkWaits
  BY DEF RunInv, TypeOK, Placed, CutOff, CutWorkWaits, Alive, Ended
<1> QED BY <1>1, RunAlways, PTL

(* While a node works, what it depends on is durably completed.            *)
THEOREM DependenciesStayDurable == Spec => []DependenciesHold
BY RunAlways, PTL DEF RunInv

(* A RUNNING goal whose thread ended was resumed while the thread was      *)
(* still there; nothing else leaves it without an owner.                   *)
THEOREM RunningGoalsAreOwned == Spec => []RunningIsOwned
<1>1. RunInv => RunningIsOwned
  BY DEF RunInv, Owned, RunningIsOwned
<1> QED BY <1>1, RunAlways, PTL

(* A node whose accepted artifact is in place is started again only when   *)
(* the restore of this run checked that artifact anew and it failed.       *)
THEOREM AcceptedWorkNotReplayed == Spec => AcceptedNotReplayed
<1>1. ASSUME RunInv, NEW n \in Node, work[n] = "queued", res[n] = "success", art[n] = "accepted"
      PROVE  n \in doubted
  BY <1>1 DEF RunInv, Placed, WavePlaced, Unaccepted, Alive, Ended
<1>2. RunInv /\ [Next]_vars =>
        [\A n \in Node :
           work[n] = "queued" /\ work'[n] = "started" /\ res[n] = "success" /\ art[n] = "accepted" =>
               n \in doubted]_vars
  BY <1>1
<1> QED BY <1>2, RunAlways, PTL DEF Spec, AcceptedNotReplayed

(* A goal completes only with the workspace the global gate reviewed and   *)
(* with every node accepted, vouched for by a restore, or cancelled.       *)
THEOREM GoalsCompleteHonestly == Spec => CompletedHonestly
<1>1. ASSUME RunInv, FinAccepted
      PROVE  /\ approved
             /\ reviewed = art
             /\ \A n \in Node :
                   \/ est[n] = "cancelled"
                   \/ /\ res[n] = "success"
                      /\ art[n] = "accepted" \/ (n \in vouched /\ art[n] # "absent")
  <2>1. thread = "fin_accepted"
    BY <1>1 DEF FinAccepted
  <2>2. approved /\ reviewed = art /\ NoneLeft
    BY <1>1, <2>1 DEF RunInv, Placed, Judged, Alive, Ended
  <2>3. ASSUME NEW n \in Node PROVE est[n] \in {"completed", "cancelled"}
    BY <1>1, <2>2 DEF RunInv, TypeOK, NoneLeft
  <2> QED BY <1>1, <2>1, <2>2, <2>3 DEF RunInv, Sound, Alive, Ended
<1>2. RunInv /\ [Next]_vars =>
        [goal' = "COMPLETED" /\ goal # "COMPLETED" =>
           /\ approved
           /\ reviewed = art
           /\ \A n \in Node :
                 \/ est[n] = "cancelled"
                 \/ /\ res[n] = "success"
                    /\ art[n] = "accepted" \/ (n \in vouched /\ art[n] # "absent")]_vars
  BY <1>1, CloseStep DEF ClosedByGate
<1> QED BY <1>2, RunAlways, PTL DEF Spec, CompletedHonestly

===============================================================================
