------------------------ MODULE GoalDependencyProofs ------------------------
(***************************************************************************)
(* A task is never started or finished before its prerequisites are        *)
(* closed: across resets of several transactions, revisions, stops and     *)
(* recovery, for every dependency relation and any number of revisions.    *)
(* A crash half way through a reset needs one more hypothesis, that the    *)
(* plan lists a task after its prerequisites.                              *)
(***************************************************************************)
EXTENDS GoalRuntimeProofs

\* The plan lists every task after its prerequisites.
PlanInOrder == \A t \in Task : \A d \in Deps[t] : Pos[d] < Pos[t]

\* Nothing unwinds the worker: no crash, no Ctrl-C.
NeverUnwound == Command \cap {"crash", "interrupt"} = {}

\* The tasks a reset in flight has still to write.
Resetting == IF pc = "resetting" THEN todo \cup {focus} ELSE {}

\* No task of plan p is started before its prerequisites are closed.
Gated(p) == \A t \in Task : p[t] \in Started => DepsDone(p, t)

\* The newest plan is gated; a reset in an unordered plan may have reopened a
\* prerequisite of a task it has still to write.
TasksGated ==
    rev # 0 => \A t \in Task : tasks[rev][t] \in Started =>
        DepsDone(tasks[rev], t) \/ (~PlanInOrder /\ t \in Resetting)

\* Who depends on a task a reset has still to write is to be written as well,
\* or has been; and in an ordered plan the reset task comes first.
ResetCovers ==
    pc = "resetting" =>
        /\ rev # 0
        /\ focus \in Task /\ todo \subseteq Task
        /\ \A u \in Present(tasks[rev]) :
             Deps[u] \cap (todo \cup {focus}) # {} =>
                 u \in todo \cup {focus} \/ tasks[rev][u] = "PENDING"
        /\ PlanInOrder => \A u \in todo : Pos[focus] < Pos[u]

DepsInv == TasksGated /\ ResetCovers

-----------------------------------------------------------------------------
(* Dependants of a set of tasks *)

\* The dependants of S contain S, as far as the plan does.
LEMMA DependantsContain ==
    ASSUME NEW p, NEW S
    PROVE  S \cap Present(p) \subseteq DependantsIn(p, S)
  BY DEF DependantsIn

\* Whoever depends on a dependant of S is one (the fixpoint of _reset_dependants).
LEMMA DependantsClosed ==
    ASSUME NEW p, NEW S, NEW u \in Present(p), NEW d \in Deps[u], d \in DependantsIn(p, S)
    PROVE  u \in DependantsIn(p, S)
<1> SUFFICES ASSUME NEW C \in SUBSET Present(p),
                    S \cap Present(p) \subseteq C,
                    \A v \in Present(p) : Deps[v] \cap C # {} => v \in C
             PROVE  u \in C
  BY DEF DependantsIn
<1>1. d \in C
  BY DEF DependantsIn
<1> QED BY <1>1

\* In an ordered plan the dependants of a task come after it.
LEMMA DependantsAfter ==
    ASSUME PlanInOrder, NEW p, NEW t \in Present(p), NEW u \in DependantsIn(p, {t}), u # t
    PROVE  Pos[t] < Pos[u]
<1> DEFINE C == {v \in Present(p) : Pos[t] <= Pos[v]}
<1>1. \A v \in Task : Pos[v] \in Nat
  BY PosAssumption
<1>2. Present(p) \subseteq Task
  BY DEF Present
<1>3. {t} \cap Present(p) \subseteq C
  BY <1>1, <1>2
<1>4. ASSUME NEW v \in Present(p), NEW d \in Deps[v], d \in C PROVE v \in C
  <2>1. Pos[d] < Pos[v] /\ Pos[t] <= Pos[d] /\ d \in Task /\ v \in Task
    BY <1>2, <1>4, DepsAssumption DEF PlanInOrder
  <2> QED BY <1>1, <1>2, <2>1
<1>5. u \in C
  <2>1. C \in SUBSET Present(p)
    OBVIOUS
  <2>2. \A v \in Present(p) : Deps[v] \cap C # {} => v \in C
    BY <1>4
  <2> HIDE DEF C
  <2> QED BY <1>3, <2>1, <2>2 DEF DependantsIn
<1>6. u \in Task /\ Pos[t] <= Pos[u]
  BY <1>2, <1>5
<1> QED BY <1>1, <1>2, <1>6, PosAssumption

\* Restarting S in plan q gates it, if the tasks that keep their status were gated.
LEMMA RestartedGated ==
    ASSUME NEW q \in [Task -> TaskStatus], NEW S,
           \A t \in Task : q[t] \in Started /\ t \notin DependantsIn(q, S) => DepsDone(q, t)
    PROVE  Gated(Restarted(q, S))
<1> DEFINE r == Restarted(q, S)
<1> SUFFICES ASSUME NEW t \in Task, r[t] \in Started, NEW d \in Deps[t], d \in Task, r[d] # "absent"
             PROVE  r[d] \in Closed
  BY DEF Gated, DepsDone, DepsOf, Present
<1>1. t \notin DependantsIn(q, S) /\ r[t] = q[t]
  BY DEF Restarted, Started
<1>2. t \in Present(q)
  BY <1>1 DEF Started, Present
<1>3. d \notin DependantsIn(q, S)
  BY <1>1, <1>2, DependantsClosed
<1>4. r[d] = q[d]
  BY <1>3 DEF Restarted
<1>5. DepsDone(q, t)
  BY <1>1
<1>6. d \in DepsOf(q, t)
  BY <1>4 DEF DepsOf, Present
<1> QED BY <1>4, <1>5, <1>6 DEF DepsDone

\* What revise_plan and the document editor store is gated, when the plan it
\* starts from is: tasks that were under way are restarted with their dependants.
LEMMA NextPlansGated ==
    ASSUME tasks[rev] \in [Task -> TaskStatus], Gated(tasks[rev]), NEW q \in NextPlans
    PROVE  Gated(q)
<1> DEFINE p == tasks[rev]
<1>1. CASE q \in Draft
  BY <1>1 DEF Draft, Gated, Started
<1>2. CASE q \in Added(p)
  <2>1. PICK t \in Task : /\ q = Restarted([p EXCEPT ![t] = "PENDING"], Unsettled(p))
                          /\ t \notin Present(p) /\ \A v \in Present(p) : t \notin Deps[v]
    BY <1>2 DEF Added
  <2> DEFINE a == [p EXCEPT ![t] = "PENDING"]
  <2>2. a \in [Task -> TaskStatus]
    BY DEF TaskStatus
  <2>3. ASSUME NEW u \in Task, a[u] \in Started PROVE DepsDone(a, u)
    <3>1. a[u] = p[u] /\ u \in Present(p)
      BY <2>3 DEF Started, Present
    <3>2. DepsDone(p, u)
      BY <2>3, <3>1 DEF Gated
    <3> SUFFICES ASSUME NEW d \in DepsOf(a, u) PROVE a[d] \in Closed
      BY DEF DepsDone
    <3>3. d # t /\ a[d] = p[d] /\ d \in DepsOf(p, u)
      BY <2>1, <3>1 DEF DepsOf, Present
    <3> QED BY <3>2, <3>3 DEF DepsDone
  <2> HIDE DEF a
  <2> QED BY <2>1, <2>2, <2>3, RestartedGated DEF a
<1>3. CASE q \in Edited(p)
  <2>1. PICK t \in Task : q = Restarted(p, Unsettled(p) \cup {t})
    BY <1>3 DEF Edited, Present
  <2> QED BY <2>1, RestartedGated DEF Gated
<1>4. CASE q \in Removed(p)
  <2>1. PICK t \in Task : q = Restarted([p EXCEPT ![t] = "absent"],
                                       Unsettled(p) \cup {u \in Task : t \in Deps[u]})
    BY <1>4 DEF Removed, Present
  <2> DEFINE a == [p EXCEPT ![t] = "absent"]
  <2>2. a \in [Task -> TaskStatus]
    BY DEF TaskStatus
  <2>3. ASSUME NEW u \in Task, a[u] \in Started PROVE DepsDone(a, u)
    <3>1. a[u] = p[u]
      BY <2>3 DEF Started
    <3>2. DepsDone(p, u)
      BY <2>3, <3>1 DEF Gated
    <3> SUFFICES ASSUME NEW d \in DepsOf(a, u) PROVE a[d] \in Closed
      BY DEF DepsDone
    <3>3. a[d] = p[d] /\ d \in DepsOf(p, u)
      BY DEF DepsOf, Present
    <3> QED BY <3>2, <3>3 DEF DepsDone
  <2> HIDE DEF a
  <2> QED BY <2>1, <2>2, <2>3, RestartedGated DEF a
<1> QED BY <1>1, <1>2, <1>3, <1>4 DEF NextPlans

-----------------------------------------------------------------------------
(* One transition of one task *)

\* Anything but a reset keeps a plan gated: the dependency gate covers the task
\* that starts, and no closed task reopens except to PENDING (transition_task).
LEMMA TransitionGated ==
    ASSUME NEW p \in [Task -> TaskStatus], Gated(p), NEW t \in Task,
           NEW to \in {"IN_PROGRESS", "COMPLETED", "BLOCKED", "OBSOLETE"},
           TaskMay(p[t], to), to \in {"IN_PROGRESS", "COMPLETED"} => DepsDone(p, t)
    PROVE  Gated([p EXCEPT ![t] = to])
<1> DEFINE q == [p EXCEPT ![t] = to]
<1>1. p[t] \in Closed => to \in Closed
  BY DEF TaskMay, TaskGraph, Closed
<1>2. \A d \in Task : p[d] \in Closed => q[d] \in Closed
  BY <1>1
<1>3. \A u \in Task : q[u] = "absent" <=> p[u] = "absent"
  BY DEF TaskMay
<1> SUFFICES ASSUME NEW u \in Task, q[u] \in Started PROVE DepsDone(q, u)
  BY DEF Gated
<1>4. DepsDone(p, u)
  <2>1. CASE u = t
    BY <2>1 DEF Started
  <2>2. CASE u # t
    BY <2>2 DEF Gated
  <2> QED BY <2>1, <2>2
<1> HIDE DEF q
<1> QED BY <1>2, <1>3, <1>4 DEF DepsDone, DepsOf, Present

\* A reset of t keeps task u gated unless u depends on t.
LEMMA ResetGated ==
    ASSUME NEW p \in [Task -> TaskStatus], NEW t \in Task, NEW u \in Task,
           DepsDone(p, u), t \notin DepsOf(p, u), p[t] # "absent"
    PROVE  DepsDone([p EXCEPT ![t] = "PENDING"], u)
  BY DEF DepsDone, DepsOf, Present

\* The worker neither enters nor leaves a reset, or leaves it in an ordered plan.
SameReset ==
    \/ pc' = pc /\ todo' = todo /\ focus' = focus
    \/ pc # "resetting" /\ pc' # "resetting"
    \/ PlanInOrder /\ pc' # "resetting"

\* The newest revision stays and its tasks keep their status, or move between
\* in progress and uncertain.
Relabelled ==
    /\ rev' = rev
    /\ rev # 0 => \A t \in Task : \/ tasks'[rev][t] = tasks[rev][t]
                                  \/ /\ tasks[rev][t] \in {"IN_PROGRESS", "UNCERTAIN"}
                                     /\ tasks'[rev][t] \in {"IN_PROGRESS", "UNCERTAIN"}

\* Such a step keeps the invariant.
LEMMA RelabelledKeeps ==
    ASSUME DepsInv, Relabelled, SameReset
    PROVE  DepsInv'
<1> CASE rev = 0
  BY DEF DepsInv, TasksGated, ResetCovers, Relabelled, SameReset
<1> CASE rev # 0
  <2> DEFINE p == tasks[rev]
             q == tasks'[rev]
  <2>1. \A t \in Task : /\ q[t] \in Started <=> p[t] \in Started
                        /\ q[t] \in Closed <=> p[t] \in Closed
                        /\ q[t] = "absent" <=> p[t] = "absent"
                        /\ q[t] = "PENDING" <=> p[t] = "PENDING"
    BY DEF Relabelled, Started, Closed
  <2>2. rev' = rev
    BY DEF Relabelled
  <2>3. Present(q) = Present(p)
    BY <2>1 DEF Present
  <2>4. ASSUME NEW t \in Task PROVE DepsDone(q, t) <=> DepsDone(p, t)
    BY <2>1, <2>3 DEF DepsDone, DepsOf, Present
  <2>5. TasksGated'
    <3> SUFFICES ASSUME NEW t \in Task, q[t] \in Started
                 PROVE  DepsDone(q, t) \/ (~PlanInOrder /\ t \in Resetting')
      BY <2>2 DEF TasksGated
    <3>1. DepsDone(p, t) \/ (~PlanInOrder /\ t \in Resetting)
      BY <2>1 DEF DepsInv, TasksGated
    <3>2. ~PlanInOrder => Resetting' = Resetting
      BY DEF SameReset, Resetting
    <3> QED BY <2>4, <3>1, <3>2
  <2>6. ResetCovers'
    <3> SUFFICES ASSUME pc' = "resetting" PROVE ResetCovers'
      BY DEF ResetCovers
    <3>1. pc = "resetting" /\ todo' = todo /\ focus' = focus
      BY DEF SameReset
    <3>2. ResetCovers
      BY DEF DepsInv
    <3>3. Present(q) \subseteq Task
      BY DEF Present
    <3>4. \A u \in Present(q) : Deps[u] \cap (todo \cup {focus}) # {} =>
              u \in todo \cup {focus} \/ q[u] = "PENDING"
      BY <2>1, <2>3, <3>1, <3>2, <3>3 DEF ResetCovers
    <3> HIDE DEF p, q
    <3>5. /\ rev' # 0 /\ focus' \in Task /\ todo' \subseteq Task
          /\ PlanInOrder => \A u \in todo' : Pos[focus'] < Pos[u]
      BY <2>2, <3>1, <3>2 DEF ResetCovers
    <3> QED BY <2>2, <3>1, <3>4, <3>5 DEF ResetCovers, q
  <2> QED BY <2>5, <2>6 DEF DepsInv
<1> QED OBVIOUS

\* A step that writes a gated plan as the newest one keeps the invariant.
LEMMA WrittenKeeps ==
    ASSUME pc' # "resetting", Gated(tasks'[rev'])
    PROVE  DepsInv'
  BY DEF DepsInv, TasksGated, ResetCovers, Gated

\* Outside a reset the newest plan is gated.
LEMMA GatedOutside ==
    ASSUME DepsInv, rev # 0, pc # "resetting"
    PROVE  Gated(tasks[rev])
  BY DEF DepsInv, TasksGated, Gated, Resetting

-----------------------------------------------------------------------------
(* A reset: dependants in reverse plan order, then the task *)

\* The reset starts: everything that depends on the task is to be written.
LEMMA ResetBeginStep ==
    ASSUME IInv, DepsInv, ResetBegin
    PROVE  DepsInv'
<1>1. rev # 0 /\ rev' = rev /\ tasks' = tasks /\ pc' = "resetting" /\ pc # "resetting"
  BY DEF ResetBegin, SameStore, SamePlans, SameTasks
<1> DEFINE p == tasks[rev]
<1>2. PICK t \in Present(p) : focus' = t /\ todo' = DependantsIn(p, {t}) \ {t}
  BY DEF ResetBegin
<1>3. Gated(p)
  BY <1>1, GatedOutside
<1>4. TasksGated'
  BY <1>1, <1>3 DEF TasksGated, Gated
<1>5. t \in DependantsIn(p, {t})
  BY DependantsContain
<1>6. todo' \cup {focus'} = DependantsIn(p, {t})
  BY <1>2, <1>5
<1>7. focus' \in Task /\ todo' \subseteq Task
  BY <1>2 DEF DependantsIn, Present
<1>8. \A u \in Present(p) : Deps[u] \cap DependantsIn(p, {t}) # {} => u \in DependantsIn(p, {t})
  BY DependantsClosed
<1>9. PlanInOrder => \A u \in todo' : Pos[focus'] < Pos[u]
  BY <1>2, DependantsAfter
<1> HIDE DEF p
<1>10. ResetCovers'
  BY <1>1, <1>6, <1>7, <1>8, <1>9 DEF ResetCovers, p
<1> QED BY <1>4, <1>10 DEF DepsInv

\* One dependant: in an ordered plan the last one, on which nothing started depends.
LEMMA ResetOneStep ==
    ASSUME IInv, DepsInv, ResetOne
    PROVE  DepsInv'
<1>1. /\ pc = "resetting" /\ pc' = "resetting" /\ rev' = rev /\ focus' = focus
      /\ rev # 0 /\ rev \in Revision
  BY DEF ResetOne, SamePlans, TransitionTask, IInv, PlanInv, PlansTyped, Revision
<1>2. PICK t \in NextReset : TransitionTask(t, "PENDING", None) /\ todo' = todo \ {t}
  BY DEF ResetOne
<1> DEFINE p == tasks[rev]
           q == [p EXCEPT ![t] = "PENDING"]
<1>3. ResetCovers /\ TasksGated
  BY DEF DepsInv
<1>4. t \in todo /\ t \in Task /\ focus \in Task /\ todo \subseteq Task
  BY <1>1, <1>3 DEF NextReset, ResetCovers
<1>5. p \in [Task -> TaskStatus]
  BY <1>1 DEF IInv, RecordsTyped
<1>6. p[t] # "absent"
  BY <1>2 DEF TransitionTask, TaskMay
<1>7. tasks'[rev] = q
  BY <1>1, <1>2 DEF TransitionTask, IInv, RecordsTyped
<1>8. \A u \in Present(p) : Deps[u] \cap (todo \cup {focus}) # {} =>
          u \in todo \cup {focus} \/ p[u] = "PENDING"
  BY <1>1, <1>3 DEF ResetCovers
<1>9. Present(q) = Present(p)
  BY <1>4, <1>5, <1>6 DEF Present
<1>10. TasksGated'
  <2> SUFFICES ASSUME NEW u \in Task, q[u] \in Started
               PROVE  DepsDone(q, u) \/ (~PlanInOrder /\ u \in todo' \cup {focus})
    BY <1>1, <1>7 DEF TasksGated, Resetting
  <2>1. u # t /\ p[u] \in Started
    BY <1>4, <1>5 DEF Started
  <2>2. CASE ~PlanInOrder /\ u \in todo \cup {focus}
    BY <1>2, <2>1, <2>2
  <2>3. CASE ~(~PlanInOrder /\ u \in todo \cup {focus})
    <3>1. DepsDone(p, u)
      BY <1>1, <1>3, <2>1, <2>3 DEF TasksGated, Resetting
    <3>2. u \in Present(p) /\ p[u] # "PENDING"
      BY <2>1 DEF Present, Started
    <3>3. t \notin DepsOf(p, u)
      <4> SUFFICES ASSUME t \in Deps[u] PROVE FALSE
        BY DEF DepsOf
      <4>1. u \in todo \cup {focus}
        BY <1>4, <1>8, <3>2
      <4>2. PlanInOrder
        BY <2>3, <4>1
      <4>3. Pos[t] < Pos[u]
        BY <4>2 DEF PlanInOrder
      <4>4. Pos[focus] < Pos[t]
        BY <1>1, <1>3, <1>4, <4>2 DEF ResetCovers
      <4>5. u \in todo => Pos[u] <= Pos[t]
        BY DEF NextReset
      <4>6. Pos[t] \in Nat /\ Pos[u] \in Nat /\ Pos[focus] \in Nat
        BY <1>4, PosAssumption
      <4> QED BY <4>1, <4>3, <4>4, <4>5, <4>6
    <3> QED BY <1>4, <1>5, <1>6, <3>1, <3>3, ResetGated
  <2> QED BY <2>2, <2>3
<1>11. \A u \in Present(q) : Deps[u] \cap (todo' \cup {focus}) # {} =>
           u \in todo' \cup {focus} \/ q[u] = "PENDING"
  <2> SUFFICES ASSUME NEW u \in Present(q), Deps[u] \cap (todo' \cup {focus}) # {}
               PROVE  u \in todo' \cup {focus} \/ q[u] = "PENDING"
    OBVIOUS
  <2>1. u \in todo \cup {focus} \/ p[u] = "PENDING"
    BY <1>2, <1>8, <1>9
  <2>2. u = t => q[u] = "PENDING"
    BY <1>4, <1>5
  <2>3. u # t => q[u] = p[u]
    BY <1>5
  <2> QED BY <1>2, <2>1, <2>2, <2>3
<1>12. PlanInOrder => \A u \in todo' : Pos[focus] < Pos[u]
  BY <1>1, <1>2, <1>3 DEF ResetCovers
<1>13. todo' \subseteq Task
  BY <1>2, <1>4
<1> HIDE DEF p, q
<1>14. ResetCovers'
  BY <1>1, <1>4, <1>7, <1>11, <1>12, <1>13 DEF ResetCovers
<1> QED BY <1>10, <1>14 DEF DepsInv

\* The task itself, when everything that depends on it has been written.
LEMMA ResetEndStep ==
    ASSUME IInv, DepsInv, ResetEnd
    PROVE  DepsInv'
<1>1. /\ pc = "resetting" /\ todo = {} /\ rev' = rev /\ rev # 0 /\ rev \in Revision
      /\ TransitionTask(focus, "PENDING", None)
  BY DEF ResetEnd, SamePlans, TransitionTask, IInv, PlanInv, PlansTyped, Revision
<1>2. pc' # "resetting"
  BY <1>1 DEF ResetEnd, IInv, SliceAuthorised
<1> DEFINE p == tasks[rev]
           q == [p EXCEPT ![focus] = "PENDING"]
<1>3. ResetCovers /\ TasksGated
  BY DEF DepsInv
<1>4. focus \in Task
  BY <1>1, <1>3 DEF ResetCovers
<1>5. p \in [Task -> TaskStatus]
  BY <1>1 DEF IInv, RecordsTyped
<1>6. p[focus] # "absent"
  BY <1>1 DEF TransitionTask, TaskMay
<1>7. tasks'[rev] = q
  BY <1>1 DEF TransitionTask, IInv, RecordsTyped
<1>8. Gated(q)
  <2> SUFFICES ASSUME NEW u \in Task, q[u] \in Started PROVE DepsDone(q, u)
    BY DEF Gated
  <2>1. u # focus /\ p[u] \in Started
    BY <1>4, <1>5 DEF Started
  <2>2. u \in Present(p) /\ p[u] # "PENDING"
    BY <2>1 DEF Present, Started
  <2>3. focus \notin DepsOf(p, u)
    BY <1>1, <1>3, <2>1, <2>2 DEF ResetCovers, DepsOf
  <2>4. DepsDone(p, u)
    BY <1>1, <1>3, <2>1 DEF TasksGated, Resetting
  <2> QED BY <1>4, <1>5, <1>6, <2>3, <2>4, ResetGated
<1> QED BY <1>1, <1>2, <1>7, <1>8, WrittenKeeps

-----------------------------------------------------------------------------
(* The other steps that write a task *)

\* Activation starts a task whose prerequisites are all completed.
LEMMA ActivateStep ==
    ASSUME IInv, DepsInv, Activate
    PROVE  DepsInv'
<1> DEFINE o == tasks[rev]
           p == Retired(o)
           q == [t \in Task |-> IF CurrentTask(p) = {} /\ t \in FirstReady(p) THEN "IN_PROGRESS" ELSE p[t]]
<1>1. pc = "head" /\ pc' = "turn" /\ rev # 0 /\ rev' = rev /\ rev \in Revision
  BY DEF Activate, SamePlans, IInv, PlanInv, PlansTyped, Revision
<1>2. tasks'[rev] = q
  BY <1>1 DEF Activate, IInv, RecordsTyped
<1>3. Gated(o) /\ o \in [Task -> TaskStatus]
  BY <1>1, GatedOutside DEF IInv, RecordsTyped
<1>4. \A t \in Task : /\ o[t] \in Closed => p[t] \in Closed
                      /\ p[t] \in Started => o[t] = p[t]
                      /\ p[t] = "absent" <=> o[t] = "absent"
  BY <1>3 DEF Retired, Closed, Started
<1>5. \A t \in FirstReady(p) : t \in Task /\ p[t] = "PENDING" /\ \A d \in DepsOf(p, t) : p[d] = "COMPLETED"
  BY DEF FirstReady, ReadyTasks
<1> HIDE DEF p, o
<1>6. \A t \in Task : /\ p[t] \in Closed => q[t] \in Closed
                      /\ q[t] = "absent" <=> p[t] = "absent"
                      /\ q[t] \in Started => p[t] \in Started \/ t \in FirstReady(p)
  BY <1>5 DEF Closed
<1> HIDE DEF q
<1>7. ASSUME NEW t \in Task, q[t] \in Started PROVE DepsDone(q, t)
  <2>1. CASE p[t] \in Started
    <3>1. DepsDone(o, t)
      BY <1>3, <1>4, <2>1 DEF Gated
    <3> QED BY <1>4, <1>6, <3>1 DEF DepsDone, DepsOf, Present
  <2>2. CASE t \in FirstReady(p)
    BY <1>5, <1>6, <2>2 DEF DepsDone, DepsOf, Present, Closed
  <2> QED BY <1>6, <1>7, <2>1, <2>2
<1>8. Gated(q)
  BY <1>7 DEF Gated
<1> QED BY <1>1, <1>2, <1>8, WrittenKeeps

\* update_task and the user's command start or close a task behind its gate.
LEMMA TaskCommandStep ==
    ASSUME IInv, DepsInv, TaskDone \/ TaskMoved \/ UserTask
    PROVE  DepsInv'
<1>1. PICK t \in Task, to \in {"IN_PROGRESS", "COMPLETED", "BLOCKED", "OBSOLETE"},
           k \in Words \cup {Prose, User, Proof, None} : TransitionTask(t, to, k)
  BY DEF TaskDone, TaskMoved, UserTask
<1>2. pc # "resetting" /\ pc' # "resetting" /\ rev' = rev
  BY DEF TaskDone, TaskMoved, UserTask, SamePlans
<1>3. rev # 0 /\ rev \in Revision
  BY <1>1 DEF TransitionTask, IInv, PlanInv, PlansTyped, Revision
<1>4. tasks[rev] \in [Task -> TaskStatus] /\ Gated(tasks[rev])
  BY <1>2, <1>3, GatedOutside DEF IInv, RecordsTyped
<1>5. tasks'[rev] = [tasks[rev] EXCEPT ![t] = to]
  BY <1>1, <1>3 DEF TransitionTask, IInv, RecordsTyped
<1>6. Gated([tasks[rev] EXCEPT ![t] = to])
  BY <1>1, <1>4, TransitionGated DEF TransitionTask
<1> QED BY <1>2, <1>5, <1>6, WrittenKeeps

\* A new revision is gated from the start.
LEMMA CreateStep ==
    ASSUME IInv, DepsInv, PlanStored \/ ReviseCreate
    PROVE  DepsInv'
<1>1. PICK p : CreatePlan(p) /\ (p \in Draft \/ (pc = "revising" /\ p \in NextPlans))
  BY DEF PlanStored, ReviseCreate
<1>2. pc' # "resetting"
  BY DEF PlanStored, ReviseCreate
<1>3. Gated(p)
  <2>1. CASE p \in Draft
    BY <2>1 DEF Draft, Gated, Started
  <2>2. CASE pc = "revising" /\ p \in NextPlans
    <3>1. rev # 0 /\ rev \in Revision
      BY <2>2 DEF IInv, SliceAuthorised, PlanInv, PlansTyped, Revision
    <3>2. tasks[rev] \in [Task -> TaskStatus] /\ Gated(tasks[rev])
      BY <2>2, <3>1, GatedOutside DEF IInv, RecordsTyped
    <3> QED BY <2>2, <3>2, NextPlansGated
  <2> QED BY <1>1, <2>1, <2>2
<1>4. rev' = rev + 1 /\ rev + 1 \in Revision
  BY <1>1, MaxRevAssumption DEF CreatePlan, IInv, PlanInv, PlansTyped, Revision
<1>5. tasks'[rev + 1] = p
  BY <1>1, <1>4 DEF CreatePlan, IInv, RecordsTyped
<1> QED BY <1>2, <1>3, <1>4, <1>5, WrittenKeeps

\* Recovery marks tasks uncertain and resolution takes the mark back.
LEMMA RecoveryRelabels ==
    ASSUME IInv, rev' = rev, RecoverInflight \/ \E e \in Entry : ResolveEntry(e)
    PROVE  Relabelled
<1> SUFFICES ASSUME rev # 0, NEW t \in Task
             PROVE  \/ tasks'[rev][t] = tasks[rev][t]
                    \/ /\ tasks[rev][t] \in {"IN_PROGRESS", "UNCERTAIN"}
                       /\ tasks'[rev][t] \in {"IN_PROGRESS", "UNCERTAIN"}
  BY DEF Relabelled
<1>1. rev \in Revision
  BY DEF IInv, PlanInv, PlansTyped, Revision
<1>2. CASE RecoverInflight
  BY <1>1, <1>2 DEF RecoverInflight, RecoveredTasks, CrashWindow
<1>3. CASE \E e \in Entry : ResolveEntry(e)
  BY <1>1, <1>3 DEF ResolveEntry
<1> QED BY <1>2, <1>3

\* A step that leaves the tasks alone relabels nothing.
LEMMA SameRelabels ==
    ASSUME SamePlans \/ rev' = rev, SameTasks \/ tasks' = tasks
    PROVE  Relabelled
  BY DEF SamePlans, SameTasks, Relabelled

-----------------------------------------------------------------------------
(* Every step *)

\* The steps that leave the tasks alone, relabel them or unwind the worker.
LEMMA QuietStep ==
    ASSUME IInv, DepsInv, Next, PlanInOrder \/ NeverUnwound,
           ~(ResetBegin \/ ResetOne \/ ResetEnd \/ Activate \/ PlanStored \/ ReviseCreate),
           ~(TaskDone \/ TaskMoved \/ UserTask)
    PROVE  Relabelled /\ SameReset
<1> USE DEF SameReset
<1>1. CASE StopNow \/ Resolve
  <2>1. pc' = pc /\ todo' = todo /\ focus' = focus /\ rev' = rev
    BY <1>1 DEF StopNow, Resolve, SamePlans, SameWork
  <2> QED BY <1>1, <2>1, RecoveryRelabels DEF StopNow, Resolve
<1>2. CASE Interrupt
  <2>1. rev' = rev /\ pc' = "idle" /\ PlanInOrder
    BY <1>2 DEF Interrupt, SamePlans, NeverUnwound
  <2> QED BY <1>2, <2>1, RecoveryRelabels DEF Interrupt
<1>3. CASE Restart
  <2>1. rev' = rev /\ pc = "down" /\ pc' # "resetting"
    BY <1>3 DEF Restart, SamePlans
  <2> QED BY <1>3, <2>1, RecoveryRelabels DEF Restart
<1>4. CASE Crash
  <2>1. Relabelled
    BY <1>4, SameRelabels DEF Crash, SameStore
  <2> QED BY <1>4, <2>1 DEF Crash, NeverUnwound
<1>5. CASE \/ Pause \/ RequestPause \/ CompletePause \/ Resume \/ ResumePlanning \/ Cancel \/ Run
           \/ ResumeAwaiting \/ Approve \/ Replan
  <2>1. Relabelled
    BY <1>5, SameRelabels DEF Pause, RequestPause, CompletePause, Resume, ResumePlanning, Cancel, Run,
           ResumeAwaiting, Approve, Replan, OnlyGoal, OnlyWorker, SameStore
  <2>2. SameReset
    BY <1>5 DEF Pause, RequestPause, CompletePause, Resume, ResumePlanning, Cancel, Run,
           ResumeAwaiting, Approve, Replan, OnlyGoal, OnlyWorker, SameWork
  <2> QED BY <2>1, <2>2
<1>6. CASE \/ StartGoal \/ PlanPublished \/ AutoApprove \/ PlanFailed \/ PlanUnwound
           \/ SliceEnd \/ TurnEnd \/ ProviderFailed \/ Call \/ CallRefused
  <2>1. Relabelled
    BY <1>6, SameRelabels DEF StartGoal, PlanPublished, AutoApprove, PlanFailed, PlanUnwound, SliceEnd,
           TurnEnd, ProviderFailed, Call, CallRefused, OnlyGoal, OnlyWorker, SameStore
  <2>2. SameReset
    BY <1>6 DEF StartGoal, PlanPublished, AutoApprove, PlanFailed, PlanUnwound, SliceEnd,
           TurnEnd, ProviderFailed, Call, CallRefused
  <2> QED BY <2>1, <2>2
<1>7. CASE ToolBegin \/ ToolDone \/ ToolAudited \/ ToolEscaped \/ ToolLost
  <2>1. Relabelled
    BY <1>7, SameRelabels DEF ToolBegin, ToolDone, ToolAudited, ToolEscaped, ToolLost
  <2>2. pc # "resetting"
    BY <1>7 DEF ToolBegin, ToolDone, ToolAudited, ToolEscaped, ToolLost, IInv, CallsPlaced
  <2>3. pc' # "resetting"
    BY <1>7, <2>2 DEF ToolBegin, ToolDone, ToolAudited, ToolEscaped, ToolLost, ReturnFromTool, AfterTool
  <2> QED BY <2>1, <2>2, <2>3
<1>8. CASE \/ RequestUser \/ StrategyReplan \/ StrategyPlan \/ Delegate \/ DelegateReturn
           \/ FinishGoal \/ StartReview \/ ReviewPassed \/ ReviewInconclusive \/ ReviewError
           \/ RepairApprove \/ RepairAwaits
  <2>1. Relabelled
    BY <1>8, SameRelabels DEF RequestUser, StrategyReplan, StrategyPlan, Delegate, DelegateReturn,
           FinishGoal, StartReview, ReviewPassed, ReviewInconclusive, ReviewError, RepairApprove,
           RepairAwaits, OnlyGoal, OnlyWorker, SameStore
  <2>2. pc # "resetting" /\ pc' # "resetting"
    BY <1>8 DEF RequestUser, StrategyReplan, StrategyPlan, Delegate, DelegateReturn,
           FinishGoal, StartReview, ReviewPassed, ReviewInconclusive, ReviewError, RepairApprove,
           RepairAwaits, AfterTool
  <2> QED BY <2>1, <2>2
<1>9. CASE ReviseBegin \/ ReviseRollback \/ ReviseCarry \/ ReviseEnd
  <2>1. Relabelled
    BY <1>9, SameRelabels DEF ReviseBegin, ReviseRollback, ReviseCarry, ReviseEnd
  <2>2. pc # "resetting" /\ pc' # "resetting"
    BY <1>9 DEF ReviseBegin, ReviseRollback, ReviseCarry, ReviseEnd, Caller, Unwound, IInv, RetTyped
  <2> QED BY <2>1, <2>2
<1>10. CASE RestartSettle \/ RestartOpen
  <2>1. Relabelled
    BY <1>10, SameRelabels DEF RestartSettle, RestartOpen, OnlyGoal
  <2> QED BY <1>10, <2>1 DEF RestartSettle, RestartOpen
<1> QED BY <1>1, <1>2, <1>3, <1>4, <1>5, <1>6, <1>7, <1>8, <1>9, <1>10
        DEF Next, User_Next, Worker_Next, Process_Next

\* No task of the newest plan is started or finished before its prerequisites
\* are closed: whatever the dependencies and the order of the plan as long as
\* nothing unwinds the worker inside a reset, and across crashes and Ctrl-C
\* between any two of its transactions when the plan lists a task after its
\* prerequisites (transition_task, _reset_dependants, revise_plan,
\* recover_inflight).
THEOREM PrerequisitesClosed == (PlanInOrder \/ NeverUnwound) /\ Spec => []DepsClosed
<1> SUFFICES ASSUME PlanInOrder \/ NeverUnwound PROVE Spec => []DepsClosed
  OBVIOUS
<1>1. Init => DepsInv
  BY DEF Init, StoreInit, DepsInv, TasksGated, ResetCovers
<1>2. IInv /\ DepsInv /\ [Next]_vars => DepsInv'
  <2> SUFFICES ASSUME IInv, DepsInv, [Next]_vars PROVE DepsInv'
    OBVIOUS
  <2>1. CASE UNCHANGED vars
    BY <2>1, RelabelledKeeps DEF vars, Relabelled, SameReset
  <2>2. CASE Next
    BY <2>2, QuietStep, RelabelledKeeps, ResetBeginStep, ResetOneStep, ResetEndStep, ActivateStep,
       TaskCommandStep, CreateStep
  <2> QED BY <2>1, <2>2
<1>3. DepsInv => DepsClosed
  BY DEF DepsInv, TasksGated, DepsClosed, Resetting
<1> QED BY GoalInvariant, <1>1, <1>2, <1>3, PTL DEF Spec
=============================================================================
