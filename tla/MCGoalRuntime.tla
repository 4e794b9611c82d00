---------------------------- MODULE MCGoalRuntime ----------------------------
(* Plans of one, two or three tasks.  In a chain every task depends on the   *)
(* one before it and comes after it in the plan.                             *)
EXTENDS GoalRuntime, TLC

CONSTANTS t1, t2, t3

Single == t1 :> {}
First == t1 :> 1

Chain2 == t1 :> {} @@ t2 :> {t1}
Order2 == t1 :> 1 @@ t2 :> 2

Chain3 == t1 :> {} @@ t2 :> {t1} @@ t3 :> {t2}
Order3 == t1 :> 1 @@ t2 :> 2 @@ t3 :> 3

Sym == Permutations(Entry)
=============================================================================
