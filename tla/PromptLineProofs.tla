-------------------------- MODULE PromptLineProofs --------------------------
(***************************************************************************)
(* The prompt queue implements the line it promises (PromptLine): for      *)
(* every set of prompts and every bound, each step of the pump, the web, a *)
(* crash or a foreign opening of the store is a step of the line.          *)
(*                                                                         *)
(* The rows hold no positions, only sequence numbers with gaps, so most of *)
(* the argument is about ranks: a finite set listed by distinct numbers.   *)
(***************************************************************************)
EXTENDS PromptQueueProofs, FiniteSetTheorems

-----------------------------------------------------------------------------
(* Ranks *)

\* f numbers the members of the finite set S, each differently.
Numbers(S, f) ==
  /\ IsFiniteSet(S)
  /\ \A p \in S : f[p] \in Nat
  /\ \A p, q \in S : f[p] = f[q] => p = q

Below(S, f, p) == {q \in S : f[q] <= f[p]}

\* A rank is a position, and a larger number has a larger rank.
LEMMA RankOrders ==
  ASSUME NEW S, NEW f, Numbers(S, f)
  PROVE  /\ Cardinality(S) \in Nat
         /\ \A p \in S : Rank(S, f, p) \in 1 .. Cardinality(S)
         /\ \A p, q \in S : f[p] < f[q] => Rank(S, f, p) < Rank(S, f, q)
<1>1. Cardinality(S) \in Nat
  BY FS_CardinalityType DEF Numbers
<1>2. ASSUME NEW p \in S
      PROVE  /\ IsFiniteSet(Below(S, f, p)) /\ Rank(S, f, p) = Cardinality(Below(S, f, p))
             /\ Rank(S, f, p) \in Nat /\ Rank(S, f, p) <= Cardinality(S)
  <2>1. Below(S, f, p) \in SUBSET S
    BY DEF Below
  <2>2. IsFiniteSet(Below(S, f, p)) /\ Cardinality(Below(S, f, p)) <= Cardinality(S)
    BY <2>1, FS_Subset DEF Numbers
  <2> QED BY <2>2, FS_CardinalityType DEF Rank, Below
<1>3. ASSUME NEW p \in S PROVE Rank(S, f, p) # 0
  <2>1. p \in Below(S, f, p)
    BY DEF Below, Numbers
  <2> QED BY <1>2, <2>1, FS_EmptySet
<1>4. ASSUME NEW p \in S, NEW q \in S, f[p] < f[q] PROVE Rank(S, f, p) < Rank(S, f, q)
  <2>1. Below(S, f, p) \in SUBSET Below(S, f, q)
    <3> SUFFICES ASSUME NEW r \in S, f[r] <= f[p] PROVE f[r] <= f[q]
      BY DEF Below
    <3> QED BY <1>4 DEF Numbers
  <2>2. q \in Below(S, f, q) /\ q \notin Below(S, f, p)
    BY <1>4 DEF Below, Numbers
  <2>3. /\ Cardinality(Below(S, f, p)) <= Cardinality(Below(S, f, q))
        /\ Cardinality(Below(S, f, q)) # Cardinality(Below(S, f, p))
    BY <1>2, <2>1, <2>2, FS_Subset
  <2> QED BY <1>2, <2>3
<1> QED BY <1>1, <1>2, <1>3, <1>4

\* Two members never share a rank.
LEMMA RankInjective ==
  ASSUME NEW S, NEW f, Numbers(S, f), NEW p \in S, NEW q \in S, Rank(S, f, p) = Rank(S, f, q)
  PROVE  p = q
<1> SUFFICES ASSUME f[p] # f[q] PROVE FALSE
  BY DEF Numbers
<1>1. f[p] < f[q] \/ f[q] < f[p]
  BY DEF Numbers
<1>2. Rank(S, f, p) < Rank(S, f, q) \/ Rank(S, f, q) < Rank(S, f, p)
  BY <1>1, RankOrders
<1>3. Rank(S, f, p) \in 1 .. Cardinality(S) /\ Cardinality(S) \in Nat
  BY RankOrders
<1> QED BY <1>2, <1>3

\* Every position is taken.
LEMMA RankOnto ==
  ASSUME NEW S, NEW f, Numbers(S, f), NEW i \in 1 .. Cardinality(S)
  PROVE  \E p \in S : Rank(S, f, p) = i
<1> DEFINE N == Cardinality(S)
           r == [p \in S |-> Rank(S, f, p)]
<1>1. N \in Nat /\ IsFiniteSet(S)
  BY RankOrders DEF Numbers
<1>2. IsFiniteSet(1 .. N) /\ Cardinality(1 .. N) = N
  <2>1. /\ IsFiniteSet(1 .. N)
        /\ Cardinality(1 .. N) = IF 1 > N THEN 0 ELSE N - 1 + 1
    BY <1>1, FS_Interval
  <2> QED BY <1>1, <2>1
<1>3. r \in [S -> 1 .. N]
  BY RankOrders
<1>4. \A p, q \in S : r[p] = r[q] => p = q
  BY RankInjective
<1> HIDE DEF r, N
<1>5. r \in Injection(S, 1 .. N)
  BY <1>3, <1>4 DEF Injection, IsInjective
<1>6. r \in Surjection(S, 1 .. N)
  BY <1>2, <1>5, FS_Injection DEF N
<1>7. \E p \in S : r[p] = i
  BY <1>6 DEF Surjection, N
<1> QED BY <1>7 DEF r

\* The line of S: its i-th member is the one of rank i.
LEMMA ListedFacts ==
  ASSUME NEW S, NEW f, Numbers(S, f)
  PROVE  /\ Listed(S, f) \in [1 .. Cardinality(S) -> S]
         /\ Listed(S, f) \in Seq(S) /\ Len(Listed(S, f)) = Cardinality(S)
         /\ DOMAIN Listed(S, f) = 1 .. Cardinality(S)
         /\ \A i \in 1 .. Cardinality(S) : Rank(S, f, Listed(S, f)[i]) = i
         /\ \A p \in S : Listed(S, f)[Rank(S, f, p)] = p
<1> DEFINE N == Cardinality(S)
           L == Listed(S, f)
<1>1. N \in Nat
  BY RankOrders
<1>2. ASSUME NEW i \in 1 .. N PROVE L[i] \in S /\ Rank(S, f, L[i]) = i
  <2>1. L[i] = CHOOSE p \in S : Rank(S, f, p) = i
    BY DEF Listed
  <2>2. \E p \in S : Rank(S, f, p) = i
    BY RankOnto
  <2> QED BY <2>1, <2>2
<1>3. L = [i \in 1 .. N |-> L[i]]
  BY DEF Listed
<1> HIDE DEF L, N
<1>4. L \in [1 .. N -> S] /\ DOMAIN L = 1 .. N
  BY <1>2, <1>3
<1>5. L \in Seq(S) /\ Len(L) = N
  BY <1>1, <1>4
<1>6. ASSUME NEW p \in S PROVE L[Rank(S, f, p)] = p
  <2>1. Rank(S, f, p) \in 1 .. N
    BY RankOrders DEF N
  <2> QED BY <1>2, <2>1, RankInjective
<1> QED BY <1>2, <1>4, <1>5, <1>6 DEF L, N

\* A listing by rank is that line.
LEMMA ListedUnique ==
  ASSUME NEW S, NEW f, Numbers(S, f), NEW g \in [1 .. Cardinality(S) -> S],
         \A i \in 1 .. Cardinality(S) : Rank(S, f, g[i]) = i
  PROVE  g = Listed(S, f)
<1>1. ASSUME NEW i \in 1 .. Cardinality(S) PROVE g[i] = Listed(S, f)[i]
  <2>1. g[i] \in S /\ Rank(S, f, g[i]) = i
    OBVIOUS
  <2> QED BY <2>1, ListedFacts
<1> QED BY <1>1, ListedFacts

\* T is S and p, whose number is above all others.
Topped(S, f, T, f2, p) ==
  /\ p \notin S /\ T = S \cup {p}
  /\ Numbers(S, f) /\ Numbers(T, f2)
  /\ \A q \in S : f2[q] = f[q] /\ f2[q] < f2[p]

\* A number above all others adds its owner at the end (enqueue_prompt).
LEMMA ListedAppend ==
  ASSUME NEW S, NEW f, NEW T, NEW f2, NEW p, Topped(S, f, T, f2, p)
  PROVE  Listed(T, f2) = Append(Listed(S, f), p)
<1>0. /\ p \notin S /\ T = S \cup {p}
      /\ Numbers(S, f) /\ Numbers(T, f2)
      /\ \A q \in S : f2[q] = f[q] /\ f2[q] < f2[p]
  BY DEF Topped
<1> USE <1>0
<1> DEFINE N == Cardinality(S)
           L == Listed(S, f)
           g == Append(L, p)
<1>1. N \in Nat /\ Cardinality(T) = N + 1
  BY RankOrders, FS_AddElement DEF Numbers
<1>2. L \in Seq(S) /\ Len(L) = N /\ \A i \in 1 .. N : L[i] \in S /\ Rank(S, f, L[i]) = i
  BY ListedFacts
<1>3. ASSUME NEW q \in S PROVE Rank(T, f2, q) = Rank(S, f, q)
  <2>1. {r \in T : f2[r] <= f2[q]} = {r \in S : f[r] <= f[q]}
    <3>1. f2[q] \in Nat /\ f2[p] \in Nat /\ f2[q] < f2[p]
      BY DEF Numbers
    <3>2. ~(f2[p] <= f2[q])
      BY <3>1
    <3> QED BY <3>2
  <2> QED BY <2>1 DEF Rank
<1>4. Rank(T, f2, p) = N + 1
  <2>1. {r \in T : f2[r] <= f2[p]} = T
    <3> SUFFICES ASSUME NEW r \in T PROVE f2[r] <= f2[p]
      OBVIOUS
    <3>1. f2[r] \in Nat /\ f2[p] \in Nat
      BY DEF Numbers
    <3> QED BY <3>1
  <2> QED BY <1>1, <2>1 DEF Rank
<1> HIDE DEF L, N
<1>5. /\ g \in [1 .. N + 1 -> T]
      /\ g[N + 1] = p /\ \A i \in 1 .. N : g[i] = L[i]
  <2>1. L \in Seq(T) /\ p \in T
    BY <1>2
  <2>2. g \in Seq(T) /\ Len(g) = N + 1
    BY <1>2, <2>1
  <2>3. g[N + 1] = p /\ \A i \in 1 .. N : g[i] = L[i]
    BY <1>1, <1>2, <2>1
  <2> HIDE DEF g
  <2>4. g \in [1 .. N + 1 -> T]
    BY <2>2
  <2> QED BY <2>3, <2>4
<1> HIDE DEF g
<1>6. ASSUME NEW i \in 1 .. N + 1 PROVE Rank(T, f2, g[i]) = i
  <2>1. CASE i \in 1 .. N
    BY <1>2, <1>3, <1>5, <2>1
  <2>2. CASE i = N + 1
    BY <1>4, <1>5, <2>2
  <2> QED BY <1>1, <2>1, <2>2
<1>7. g \in [1 .. Cardinality(T) -> T] /\ \A i \in 1 .. Cardinality(T) : Rank(T, f2, g[i]) = i
  BY <1>1, <1>5, <1>6
<1>8. g = Listed(T, f2)
  BY <1>7, ListedUnique
<1> QED BY <1>8 DEF g, L

\* Taking p away closes the gap at its place.
LEMMA ListedRemove ==
  ASSUME NEW S, NEW f, Numbers(S, f), NEW p \in S
  PROVE  Listed(S \ {p}, f) =
           [j \in 1 .. Len(Listed(S, f)) - 1 |->
              IF j < Rank(S, f, p) THEN Listed(S, f)[j] ELSE Listed(S, f)[j + 1]]
<1> DEFINE N == Cardinality(S)
           T == S \ {p}
           L == Listed(S, f)
           k == Rank(S, f, p)
           g == [j \in 1 .. Len(L) - 1 |-> IF j < k THEN L[j] ELSE L[j + 1]]
<1>1. N \in Nat /\ Cardinality(T) = N - 1 /\ IsFiniteSet(T)
  BY RankOrders, FS_RemoveElement DEF Numbers
<1>2. Numbers(T, f)
  BY <1>1 DEF Numbers
<1>3. Len(L) = N /\ \A i \in 1 .. N : L[i] \in S /\ Rank(S, f, L[i]) = i
  BY ListedFacts
<1>4. k \in 1 .. N /\ \A i \in 1 .. N : L[i] = p => i = k
  BY <1>3, RankOrders
<1>5. ASSUME NEW q \in T, f[q] < f[p] PROVE Rank(T, f, q) = Rank(S, f, q)
  <2>1. {r \in T : f[r] <= f[q]} = {r \in S : f[r] <= f[q]}
    <3>1. ~(f[p] <= f[q])
      BY <1>5 DEF Numbers
    <3> QED BY <3>1
  <2> QED BY <2>1 DEF Rank
<1>6. ASSUME NEW q \in T, f[p] < f[q] PROVE Rank(T, f, q) = Rank(S, f, q) - 1
  <2>1. {r \in T : f[r] <= f[q]} = Below(S, f, q) \ {p}
    BY DEF Below
  <2>2. p \in Below(S, f, q)
    BY <1>6 DEF Below, Numbers
  <2>3. Below(S, f, q) \in SUBSET S
    BY DEF Below
  <2>4. IsFiniteSet(Below(S, f, q))
    BY <2>3, FS_Subset DEF Numbers
  <2>5. Cardinality(Below(S, f, q) \ {p}) = Cardinality(Below(S, f, q)) - 1
    BY <2>2, <2>4, FS_RemoveElement
  <2> QED BY <2>1, <2>5 DEF Rank, Below
<1>7. ASSUME NEW i \in 1 .. N, i # k
      PROVE  /\ L[i] \in T
             /\ i < k => f[L[i]] < f[p]
             /\ i > k => f[p] < f[L[i]]
  <2>1. L[i] \in S /\ L[i] # p /\ Rank(S, f, L[i]) = i
    BY <1>3, <1>4, <1>7
  <2>2. f[L[i]] \in Nat /\ f[p] \in Nat /\ f[L[i]] # f[p]
    BY <2>1 DEF Numbers
  <2>3. /\ f[L[i]] < f[p] => i < k
        /\ f[p] < f[L[i]] => k < i
    BY <2>1, RankOrders
  <2> HIDE DEF L, k, N
  <2> QED BY <1>1, <1>4, <2>1, <2>2, <2>3
<1> HIDE DEF L, k, N
<1>8. ASSUME NEW j \in 1 .. N - 1 PROVE g[j] \in T /\ Rank(T, f, g[j]) = j
  <2>1. CASE j < k
    <3>1. j \in 1 .. N /\ j # k
      BY <1>1, <1>4, <2>1
    <3>2. g[j] = L[j]
      BY <1>3, <2>1
    <3> QED BY <1>3, <1>5, <1>7, <2>1, <3>1, <3>2
  <2>2. CASE ~(j < k)
    <3>1. j + 1 \in 1 .. N /\ j + 1 # k /\ j + 1 > k /\ j \in Nat
      BY <1>1, <1>4, <2>2
    <3>2. g[j] = L[j + 1]
      BY <1>3, <2>2
    <3>3. L[j + 1] \in T /\ f[p] < f[L[j + 1]] /\ Rank(S, f, L[j + 1]) = j + 1
      BY <1>3, <1>7, <3>1
    <3>4. Rank(T, f, L[j + 1]) = (j + 1) - 1
      BY <1>6, <3>3
    <3> QED BY <3>1, <3>2, <3>3, <3>4
  <2> QED BY <2>1, <2>2
<1>9. g \in [1 .. N - 1 -> T]
  <2>1. g = [j \in 1 .. N - 1 |-> g[j]]
    BY <1>3
  <2> HIDE DEF g
  <2> QED BY <1>8, <2>1
<1> HIDE DEF g, T
<1>10. g = Listed(T, f)
  BY <1>1, <1>2, <1>8, <1>9, ListedUnique
<1> QED BY <1>10 DEF g, T, L, k

\* Handing the same numbers out again keeps the place of whoever keeps its
\* number (reorder_pending_prompts).
LEMMA RankKept ==
  ASSUME NEW S, NEW f, NEW f2, Numbers(S, f), Numbers(S, f2),
         \A q \in S : \E m \in S : f[m] = f2[q],
         NEW p \in S, f2[p] = f[p]
  PROVE  Rank(S, f2, p) = Rank(S, f, p)
<1> DEFINE h == [q \in S |-> CHOOSE m \in S : f[m] = f2[q]]
           A == Below(S, f, p)
           B == Below(S, f2, p)
<1>1. \A q \in S : h[q] \in S /\ f[h[q]] = f2[q]
  OBVIOUS
<1>2. h = [q \in S |-> h[q]]
  OBVIOUS
<1> HIDE DEF h
<1>3. h \in [S -> S] /\ \A q, r \in S : h[q] = h[r] => q = r
  BY <1>1, <1>2 DEF Numbers
<1>4. h \in Injection(S, S)
  BY <1>3 DEF Injection, IsInjective
<1>5. h \in Surjection(S, S)
  BY <1>4, FS_Injection DEF Numbers
<1> DEFINE b == [q \in B |-> h[q]]
<1>6. \A q \in B : q \in S /\ h[q] \in A
  BY <1>1 DEF Below
<1>7. \A a \in A : \E q \in B : h[q] = a
  <2> SUFFICES ASSUME NEW a \in A PROVE \E q \in B : h[q] = a
    OBVIOUS
  <2>1. a \in S /\ f[a] <= f[p]
    BY DEF Below
  <2>2. PICK q \in S : h[q] = a
    BY <1>5, <2>1 DEF Surjection
  <2>3. q \in B
    BY <1>1, <2>1, <2>2 DEF Below
  <2> QED BY <2>2, <2>3
<1>8. b \in Bijection(B, A)
  <2> HIDE DEF A, B
  <2>1. b \in [B -> A] /\ \A q, r \in B : b[q] = b[r] => q = r
    BY <1>3, <1>6
  <2>2. \A a \in A : \E q \in B : b[q] = a
    BY <1>7
  <2> HIDE DEF b
  <2> QED BY <2>1, <2>2 DEF Bijection, Injection, Surjection, IsInjective
<1>9. ExistsBijection(B, A)
  BY <1>8 DEF ExistsBijection
<1>10. B \in SUBSET S
  BY DEF Below
<1>11. IsFiniteSet(B)
  BY <1>10, FS_Subset DEF Numbers
<1>12. Cardinality(A) = Cardinality(B)
  BY <1>9, <1>11, FS_Bijection
<1> QED BY <1>12 DEF Rank, Below

-----------------------------------------------------------------------------
(* What the line needs to know of the rows *)

\* The line is finite, also when the prompts that may come are not.
LiveFinite == IsFiniteSet(Live)

\* A prompt whose claim was undone is a row of the table.
ResetQueued == \A p \in reset : status[p] # "new"

\* The row the pump holds is not blocked, and it is pending only because an
\* opening of the store undid the claim; one whose mode is being entered has
\* no goal and cannot have been cancelled.
HeldRow ==
  /\ pc \in {"item", "bind", "finish"} =>
       status[cur] # "blocked" /\ (status[cur] = "pending" => cur \in reset)
  /\ pc = "mode" =>
       /\ status[cur] \in {"pending", "running"} /\ goalOf[cur] = 0
       /\ status[cur] = "pending" => cur \in reset

RowInv == LiveFinite /\ ResetQueued /\ HeldRow

\* Only enqueue_prompt adds to the live rows, and only one.
LEMMA LiveFiniteStep ==
  ASSUME QInv, RowInv, [Next]_vars
  PROVE  LiveFinite'
<1> USE DEF QInv, Orderly, TypeOK, RowInv, LiveFinite
<1>1. CASE Live' \subseteq Live
  <2>1. Live' \in SUBSET Live
    BY <1>1
  <2> QED BY <2>1, FS_Subset
<1>2. ASSUME NEW p \in Prompts, enqueue_prompt(p) PROVE LiveFinite'
  <2>1. Live' = Live \cup {p}
    BY <1>2 DEF enqueue_prompt, Live
  <2> QED BY <2>1, FS_AddElement
<1>3. CASE SyncFinish
  <2>1. seen.st \in {"completed", "cancelled"}
    BY <1>3 DEF SyncFinish, Credited, Reading
  <2> QED BY <1>1, <1>3, <2>1 DEF SyncFinish, Live
<1>4. CASE claim_next_prompt
  BY <1>1, <1>4 DEF claim_next_prompt, Claimable, Front, Live
<1>5. CASE BlockPrompt
  BY <1>1, <1>5 DEF BlockPrompt, Holding, HeldRow, Live
<1>6. CASE cancel_goal_and_session
  <2>1. \A p \in Prompts : status'[p] \in {status[p], "cancelled"}
    BY <1>6 DEF cancel_goal_and_session
  <2> QED BY <1>1, <2>1 DEF Live
<1>7. CASE Restart \/ ForeignOpen
  <2>1. OpenStore
    BY <1>7 DEF Restart, ForeignOpen
  <2> QED BY <1>1, <2>1 DEF OpenStore, Unbound, Live
<1>8. CASE status' = status
  BY <1>1, <1>8 DEF Live
<1> QED BY <1>2, <1>3, <1>4, <1>5, <1>6, <1>7, <1>8
     DEF Next, vars, rows, Join, SyncList, SyncItem, bind_prompt_goal, SyncGuard, StartPrompt, InboxEmpty,
         StartCommand, SaveTurn, MakeGoal, WorkEnds, WebSubmit, WebTurn, GoalCompletes, Dismiss,
         reorder_pending_prompts, Crash

\* Who was put back stays a row of the table.
LEMMA ResetQueuedStep ==
  ASSUME QInv, RowInv, [Next]_vars
  PROVE  ResetQueued'
<1> USE DEF QInv, Orderly, TypeOK, RowInv, ResetQueued
<1>1. CASE status' = status /\ reset' = reset
  BY <1>1
<1>2. ASSUME NEW p \in Prompts, enqueue_prompt(p) PROVE ResetQueued'
  BY <1>2 DEF enqueue_prompt
<1>3. CASE SyncFinish
  <2>1. seen.st \in {"completed", "cancelled"}
    BY <1>3 DEF SyncFinish, Credited, Reading
  <2> QED BY <1>3, <2>1 DEF SyncFinish
<1>4. CASE claim_next_prompt
  BY <1>4 DEF claim_next_prompt
<1>5. CASE BlockPrompt
  BY <1>5 DEF BlockPrompt
<1>6. CASE cancel_goal_and_session
  <2>1. reset' = reset /\ \A p \in Prompts : status'[p] \in {status[p], "cancelled"}
    BY <1>6 DEF cancel_goal_and_session
  <2> QED BY <2>1
<1>7. CASE Restart \/ ForeignOpen
  <2>1. OpenStore
    BY <1>7 DEF Restart, ForeignOpen
  <2> QED BY <2>1 DEF OpenStore, Unbound, OpenedUnder
<1> QED BY <1>1, <1>2, <1>3, <1>4, <1>5, <1>6, <1>7
     DEF Next, vars, rows, Join, SyncList, SyncItem, bind_prompt_goal, SyncGuard, StartPrompt, InboxEmpty,
         StartCommand, SaveTurn, MakeGoal, WorkEnds, WebSubmit, WebTurn, GoalCompletes, Dismiss,
         reorder_pending_prompts, Crash

\* What happens to the held row between the pump's transactions.
LEMMA HeldRowStep ==
  ASSUME QInv, RowInv, [Next]_vars
  PROVE  HeldRow'
<1> USE DEF QInv, Orderly, TypeOK, RowInv, HeldRow
<1>1. CASE Join \/ SyncGuard \/ StartPrompt \/ InboxEmpty \/ StartCommand \/ Crash \/ SyncFinish \/ BlockPrompt
  <2>1. pc' \notin {"item", "bind", "finish", "mode"}
    BY <1>1 DEF Join, SyncGuard, Return, StartPrompt, InboxEmpty, StartCommand, Crash, SyncFinish, BlockPrompt
  <2> QED BY <2>1
<1>2. CASE SyncList
  BY <1>2 DEF SyncList, rows
<1>3. CASE SyncItem
  <2>1. pc = "item" /\ status' = status /\ reset' = reset
    BY <1>3 DEF SyncItem, rows
  <2>2. (pc' \in {"finish", "bind"} /\ cur' = cur) \/ pc' = "inbox"
    BY <1>3 DEF SyncItem, Return
  <2> QED BY <2>1, <2>2
<1>4. CASE bind_prompt_goal
  <2>1. pc = "bind" /\ status' = status /\ reset' = reset
    BY <1>4 DEF bind_prompt_goal
  <2>2. (pc' = "finish" /\ cur' = cur) \/ pc' = "inbox"
    BY <1>4 DEF bind_prompt_goal, Return
  <2> QED BY <2>1, <2>2
<1>5. CASE claim_next_prompt
  <2>1. CASE pc' = "inbox"
    BY <2>1
  <2>2. CASE pc' # "inbox"
    <3>1. PICK p \in Prompts : /\ Claimable(p) /\ status' = [status EXCEPT ![p] = "running"]
                               /\ cur' = p /\ pc' = "mode"
      BY <1>5, <2>2 DEF claim_next_prompt, Return
    <3>2. goalOf' = goalOf /\ goalOf[p] = 0
      BY <1>5, <3>1 DEF claim_next_prompt, Claimable, Credited, Binding
    <3> QED BY <3>1, <3>2
  <2> QED BY <2>1, <2>2
<1>6. ASSUME NEW p \in Prompts, enqueue_prompt(p) PROVE HeldRow'
  BY <1>6 DEF enqueue_prompt, ui, Holding
<1>7. CASE cancel_goal_and_session
  <2>1. PICK g \in ActiveGoal :
          status' = [p \in Prompts |-> IF goalOf[p] = g /\ status[p] \in {"pending", "running"}
                                       THEN "cancelled" ELSE status[p]]
    BY <1>7 DEF cancel_goal_and_session
  <2>2. g # 0
    BY DEF ActiveGoal
  <2>3. pc' = pc /\ cur' = cur /\ reset' = reset /\ goalOf' = goalOf
    BY <1>7 DEF cancel_goal_and_session, ui
  <2> QED BY <2>1, <2>2, <2>3 DEF Holding
<1>8. CASE Restart \/ ForeignOpen
  <2>1. OpenStore
    BY <1>8 DEF Restart, ForeignOpen
  <2>2. pc' = pc /\ cur' = cur /\ goalOf' = goalOf
    BY <1>8 DEF Restart, ForeignOpen, ui
  <2> QED BY <2>1, <2>2 DEF OpenStore, Unbound, OpenedUnder, Holding
<1>9. CASE UNCHANGED <<status, reset, pc, cur, goalOf>>
  BY <1>9
<1> QED BY <1>1, <1>2, <1>3, <1>4, <1>5, <1>6, <1>7, <1>8, <1>9
     DEF Next, vars, rows, ui, SaveTurn, MakeGoal, WorkEnds, WebSubmit, WebTurn, GoalCompletes, Dismiss,
         reorder_pending_prompts

\* The rows stay so in every behaviour.
LEMMA RowsAlways == Spec => []RowInv
<1>1. Init => RowInv
  <2> SUFFICES ASSUME Init PROVE RowInv
    OBVIOUS
  <2>1. Live = {}
    BY DEF Init, Live
  <2> QED BY <2>1, FS_EmptySet DEF Init, RowInv, LiveFinite, ResetQueued, HeldRow
<1>2. QInv /\ RowInv /\ [Next]_vars => RowInv'
  BY LiveFiniteStep, ResetQueuedStep, HeldRowStep DEF RowInv
<1> QED BY <1>1, <1>2, QAlways, PTL DEF Spec

-----------------------------------------------------------------------------
(* The state of the line, before and after a step *)

\* The live rows are numbered, each differently (the unique index).
LEMMA LiveNumbered ==
  ASSUME QInv, RowInv
  PROVE  Numbers(Live, seq)
  BY DEF QInv, Orderly, TypeOK, RowInv, LiveFinite, SequencesUnique, Queued, Live, Numbers

\* So they are after a step.
LEMMA LiveNumberedNext ==
  ASSUME QInv', RowInv'
  PROVE  Numbers(Live', seq')
<1>1. IsFiniteSet(Live')
  BY DEF RowInv, LiveFinite
<1>2. \A p \in Live' : seq'[p] \in Nat /\ p \in Queued'
  BY DEF QInv, Orderly, TypeOK, Live, Queued
<1>3. \A p, q \in Queued' : seq'[p] = seq'[q] => p = q
  BY DEF QInv, Orderly, SequencesUnique
<1> QED BY <1>1, <1>2, <1>3 DEF Numbers

\* The prompts in the line are the live rows.
LEMMA LineHolds ==
  ASSUME QInv, RowInv
  PROVE  Line!InLine = Live
<1> DEFINE L == Listed(Live, seq)
<1>1. DOMAIN L = 1 .. Cardinality(Live) /\ \A i \in DOMAIN L : L[i] \in Live
  BY LiveNumbered, ListedFacts
<1>2. \A p \in Live : Rank(Live, seq, p) \in DOMAIN L /\ L[Rank(Live, seq, p)] = p
  BY LiveNumbered, ListedFacts, RankOrders
<1> HIDE DEF L
<1>3. {L[i] : i \in DOMAIN L} = Live
  BY <1>1, <1>2
<1> QED BY <1>3 DEF L, Line!InLine

\* One prompt at most is in service: whoever runs is the front.
LEMMA RunningAlone ==
  ASSUME QInv, NEW p \in Prompts, status[p] = "running"
  PROVE  Running = {p} /\ InService = p
<1>1. ASSUME NEW q \in Prompts, status[q] = "running" PROVE q = p
  <2>1. Front(p) /\ Front(q) /\ p \in Live /\ q \in Live
    BY <1>1 DEF QInv, Orderly, RunningIsFront, Live
  <2>2. seq[p] \in Nat /\ seq[q] \in Nat
    BY DEF QInv, Orderly, TypeOK
  <2>3. seq[p] = seq[q]
    BY <2>1, <2>2 DEF Front
  <2> QED BY <2>1, <2>3 DEF QInv, Orderly, SequencesUnique, Queued, Live
<1>2. Running = {p}
  BY <1>1 DEF Running
<1> QED BY <1>2 DEF InService

\* The same after a step.
LEMMA RunningAloneNext ==
  ASSUME NEW p \in Prompts, status'[p] = "running", \A q \in Prompts : status'[q] = "running" => q = p
  PROVE  InService' = p
<1>1. Running' = {p}
  BY DEF Running
<1> QED BY <1>1 DEF InService

\* Nobody runs, nobody is in service.
LEMMA NobodyRuns ==
  ASSUME \A p \in Prompts : status[p] # "running"
  PROVE  InService = None
  BY DEF InService, Running

\* The same after a step.
LEMMA NobodyRunsNext ==
  ASSUME \A p \in Prompts : status'[p] # "running"
  PROVE  InService' = None
  BY DEF InService, Running

\* A step that touches no row and undoes no claim leaves the line alone.
LEMMA RowsUntouched ==
  ASSUME status' = status, seq' = seq, reset' = reset
  PROVE  UNCHANGED Line!lineVars
<1>1. Live' = Live
  BY DEF Live
<1>2. Listed(Live, seq)' = Listed(Live, seq)
  BY <1>1
<1>3. Running' = Running
  BY DEF Running
<1>4. InService' = InService /\ Stuck' = Stuck /\ Begun' = Begun
  BY <1>3 DEF InService, Stuck, Begun
<1> QED BY <1>2, <1>4 DEF Line!lineVars

-----------------------------------------------------------------------------
(* Every step that writes a row is a step of the line *)

\* enqueue_prompt adds at the end: its number is above every number ever given.
LEMMA EnqueueAppends ==
  ASSUME QInv, RowInv, QInv', RowInv', NEW p \in Prompts, enqueue_prompt(p)
  PROVE  Line!Append1(p)
<1>1. status[p] = "new" /\ status' = [status EXCEPT ![p] = "pending"] /\ reset' = reset
  BY DEF enqueue_prompt
<1>2. PICK n : NextSequence(n) /\ seq' = [seq EXCEPT ![p] = n]
  BY DEF enqueue_prompt
<1>3. status \in [Prompts -> RowStatus] /\ seq \in [Prompts -> Nat]
  BY DEF QInv, Orderly, TypeOK
<1>4. p \notin Live /\ Live' = Live \cup {p} /\ Live \subseteq Prompts /\ Live \subseteq Queued
  BY <1>1, <1>3 DEF Live, Queued
<1>5. \A q \in Live : seq'[q] = seq[q] /\ seq'[q] < seq'[p]
  BY <1>2, <1>3, <1>4 DEF NextSequence
<1>6. Listed(Live', seq') = Append(Listed(Live, seq), p)
  <2>1. Numbers(Live, seq)
    BY LiveNumbered
  <2>2. Numbers(Live', seq')
    BY LiveNumberedNext
  <2>3. Topped(Live, seq, Live', seq', p)
    BY <1>4, <1>5, <2>1, <2>2 DEF Topped
  <2> QED BY <2>3, ListedAppend
<1>7. Len(Listed(Live, seq)) < MaxLive
  <2>1. Cardinality(Live) \in Nat /\ Len(Listed(Live, seq)) = Cardinality(Live)
    BY LiveNumbered, ListedFacts, RankOrders
  <2>2. ~(Cardinality(Live) >= MaxLive)
    BY DEF enqueue_prompt, Full
  <2> QED BY <2>1, <2>2, QueueConstants
<1>8. p \notin Begun
  BY <1>1 DEF Begun, RowInv, ResetQueued
<1>9. Running' = Running /\ Stuck' = Stuck /\ Begun' = Begun
  <2>1. Running' = Running /\ Stuck' = Stuck
    BY <1>1, <1>3 DEF Running, Stuck
  <2>2. Begun' = Begun
    BY <1>1, <1>3 DEF Begun
  <2> QED BY <2>1, <2>2
<1>10. InService' = InService
  BY <1>9 DEF InService
<1>11. p \notin Line!InLine \union Begun
  BY <1>4, <1>8, LineHolds
<1> QED BY <1>6, <1>7, <1>9, <1>10, <1>11 DEF Line!Append1

\* reorder_pending_prompts hands the waiting rows' numbers out again: only
\* waiting prompts change places.
LEMMA ReorderRearranges ==
  ASSUME QInv, RowInv, QInv', RowInv', reorder_pending_prompts
  PROVE  Line!Rearrange
<1> DEFINE L == Listed(Live, seq)
           M == Listed(Live, seq')
           N == Cardinality(Live)
<1>1. status' = status /\ reset' = reset
  BY DEF reorder_pending_prompts
<1>2. Live' = Live /\ Movable \subseteq Live /\ Live \subseteq Prompts
  BY <1>1 DEF Live, Movable
<1>3. PICK order \in [Movable -> {seq[p] : p \in Movable}] :
        seq' = [p \in Prompts |-> IF p \in Movable THEN order[p] ELSE seq[p]]
  BY DEF reorder_pending_prompts
<1>4. Numbers(Live, seq) /\ Numbers(Live, seq')
  BY <1>2, LiveNumbered, LiveNumberedNext
<1>5. \A q \in Live : \E m \in Live : seq[m] = seq'[q]
  <2> SUFFICES ASSUME NEW q \in Live PROVE \E m \in Live : seq[m] = seq'[q]
    OBVIOUS
  <2>1. CASE q \in Movable
    <3>1. PICK m \in Movable : order[q] = seq[m]
      BY <2>1
    <3> QED BY <1>2, <1>3, <2>1, <3>1
  <2>2. CASE q \notin Movable
    BY <1>2, <1>3, <2>2
  <2> QED BY <2>1, <2>2
<1>6. ASSUME NEW p \in Live, p \notin Movable PROVE Rank(Live, seq', p) = Rank(Live, seq, p)
  <2>1. seq'[p] = seq[p]
    BY <1>2, <1>3, <1>6
  <2> QED BY <1>4, <1>5, <2>1, RankKept
<1>7. /\ DOMAIN L = 1 .. N /\ M \in [1 .. N -> Live]
      /\ \A i \in 1 .. N : L[i] \in Live /\ Rank(Live, seq, L[i]) = i
      /\ \A i \in 1 .. N : M[i] \in Live /\ Rank(Live, seq', M[i]) = i
      /\ \A p \in Live : M[Rank(Live, seq', p)] = p
  BY <1>4, ListedFacts
<1>8. ASSUME NEW i \in 1 .. N, L[i] \notin Movable PROVE M[i] = L[i]
  BY <1>6, <1>7, <1>8
<1>9. Line!Waiting = Movable
  <2>1. Line!Waiting = Live \ (Stuck \union {InService})
    BY LineHolds DEF Line!Waiting
  <2>2. ASSUME NEW p \in Live PROVE p \in Stuck \union {InService} <=> p \notin Movable
    <3>1. p \in Prompts /\ status[p] \in {"pending", "running", "blocked"}
      BY DEF Live
    <3>2. CASE status[p] = "pending"
      <4>1. InService # p
        <5>1. CASE \E q \in Prompts : status[q] = "running"
          BY <3>2, <5>1, RunningAlone
        <5>2. CASE ~\E q \in Prompts : status[q] = "running"
          BY <3>1, <5>2, NobodyRuns, QueueConstants
        <5> QED BY <5>1, <5>2
      <4> QED BY <3>1, <3>2, <4>1 DEF Stuck, Movable
    <3>3. CASE status[p] = "running"
      BY <3>1, <3>3, RunningAlone DEF Movable
    <3>4. CASE status[p] = "blocked"
      BY <3>1, <3>4 DEF Stuck, Movable
    <3> QED BY <3>1, <3>2, <3>3, <3>4
  <2> QED BY <1>2, <2>1, <2>2
<1>10. Running' = Running /\ Stuck' = Stuck /\ Begun' = Begun
  BY <1>1 DEF Running, Stuck, Begun
<1>11. InService' = InService
  BY <1>10 DEF InService
<1>12. Listed(Live, seq)' = M
  BY <1>2
<1> HIDE DEF L, M, N
<1>13. /\ M \in [DOMAIN L -> Line!InLine]
       /\ \A i, j \in DOMAIN L : M[i] = M[j] => i = j
       /\ \A i \in DOMAIN L : L[i] \notin Line!Waiting => M[i] = L[i]
  BY <1>7, <1>8, <1>9, LineHolds
<1> QED BY <1>10, <1>11, <1>12, <1>13 DEF Line!Rearrange, L

\* A step that gives no row a number and takes none out of the queue keeps
\* the order of the line.
LEMMA SameOrder ==
  ASSUME Live' = Live, seq' = seq
  PROVE  Listed(Live, seq)' = Listed(Live, seq)
  OBVIOUS

\* The row with the smallest number is the head of the line.
LEMMA FrontIsHead ==
  ASSUME QInv, RowInv, NEW p \in Prompts, Front(p)
  PROVE  Listed(Live, seq) # <<>> /\ Head(Listed(Live, seq)) = p
<1> DEFINE L == Listed(Live, seq)
<1>1. p \in Live /\ \A q \in Live : seq[p] <= seq[q]
  BY DEF Front
<1>2. Numbers(Live, seq)
  BY LiveNumbered
<1>3. Rank(Live, seq, p) = 1
  <2>1. {q \in Live : seq[q] <= seq[p]} = {p}
    <3> SUFFICES ASSUME NEW q \in Live, seq[q] <= seq[p] PROVE q = p
      BY <1>1, <1>2 DEF Numbers
    <3>1. seq[q] = seq[p]
      BY <1>1, <1>2 DEF Numbers
    <3> QED BY <1>1, <1>2, <3>1 DEF Numbers
  <2> QED BY <2>1, FS_Singleton DEF Rank
<1>4. L \in Seq(Live) /\ Len(L) = Cardinality(Live) /\ L[1] = p
  BY <1>1, <1>2, <1>3, ListedFacts
<1>5. 1 \in 1 .. Cardinality(Live) /\ Cardinality(Live) \in Nat
  BY <1>1, <1>2, <1>3, RankOrders
<1>6. Len(L) # 0
  BY <1>4, <1>5
<1> HIDE DEF L
<1>7. L # <<>> /\ Head(L) = p
  BY <1>4, <1>6
<1> QED BY <1>7 DEF L

\* claim_next_prompt serves the head of the line.
LEMMA ClaimServes ==
  ASSUME QInv, RowInv, claim_next_prompt
  PROVE  Line!Serve \/ UNCHANGED Line!lineVars
<1>1. seq' = seq /\ reset' = reset
  BY DEF claim_next_prompt
<1>2. CASE status' = status
  BY <1>1, <1>2, RowsUntouched
<1>3. ASSUME NEW p \in Prompts, Claimable(p), status' = [status EXCEPT ![p] = "running"]
      PROVE  Line!Serve
  <2>1. Front(p) /\ status[p] = "pending" /\ status \in [Prompts -> RowStatus]
    BY <1>3 DEF Claimable, QInv, Orderly, TypeOK
  <2>2. \A q \in Prompts : status[q] # "running"
    BY <1>3, ClaimAlone DEF QInv
  <2>3. Live' = Live
    BY <1>3, <2>1 DEF Live
  <2>4. Listed(Live, seq)' = Listed(Live, seq)
    BY <1>1, <2>3, SameOrder
  <2>5. Listed(Live, seq) # <<>> /\ Head(Listed(Live, seq)) = p
    BY <2>1, FrontIsHead
  <2>6. InService = None
    BY <2>2, NobodyRuns
  <2>7. InService' = p
    BY <1>3, <2>1, <2>2, RunningAloneNext
  <2>8. Stuck' = Stuck /\ p \notin Stuck
    BY <1>3, <2>1 DEF Stuck
  <2>9. Begun' = Begun \union {p}
    BY <1>1, <1>3, <2>1 DEF Begun
  <2> QED BY <2>4, <2>5, <2>6, <2>7, <2>8, <2>9 DEF Line!Serve
<1> QED BY <1>2, <1>3 DEF claim_next_prompt

\* An opening of the store puts the prompt in service back, or changes nothing.
LEMMA OpeningPutsBack ==
  ASSUME QInv, RowInv, Restart \/ ForeignOpen
  PROVE  Line!PutBack \/ UNCHANGED Line!lineVars
<1>1. OpenStore /\ seq' = seq /\ status \in [Prompts -> RowStatus] /\ reset \subseteq Prompts
  BY DEF Restart, ForeignOpen, QInv, Orderly, TypeOK
<1>2. CASE Unbound = {}
  <2>1. status' = status
    BY <1>1, <1>2 DEF OpenStore
  <2>2. reset' = reset
    BY <1>1, <1>2 DEF OpenStore, OpenedUnder, Unbound
  <2> QED BY <1>1, <2>1, <2>2, RowsUntouched
<1>3. ASSUME NEW p \in Unbound PROVE Line!PutBack
  <2>1. p \in Prompts /\ status[p] = "running"
    BY DEF Unbound
  <2>2. Running = {p} /\ InService = p
    BY <2>1, RunningAlone
  <2>3. \A q \in Prompts : status'[q] = IF q = p THEN "pending" ELSE status[q]
    BY <1>1, <1>3, <2>2 DEF OpenStore, Unbound, Running
  <2>4. reset' = reset \cup {p}
    BY <1>1, <1>3, <2>2 DEF OpenStore, OpenedUnder, Unbound, Running
  <2>5. Live' = Live
    BY <2>1, <2>3 DEF Live
  <2>6. Listed(Live, seq)' = Listed(Live, seq)
    BY <1>1, <2>5, SameOrder
  <2>7. \A q \in Prompts : status'[q] # "running"
    BY <2>2, <2>3 DEF Running
  <2>8. InService' = None
    BY <2>7, NobodyRunsNext
  <2>9. Stuck' = Stuck
    BY <2>1, <2>3 DEF Stuck
  <2>10. Begun' = Begun
    BY <2>1, <2>3, <2>4 DEF Begun
  <2>11. p # None
    BY <2>1, QueueConstants
  <2> QED BY <2>2, <2>6, <2>8, <2>9, <2>10, <2>11 DEF Line!PutBack
<1> QED BY <1>2, <1>3

\* The service of p ends in the line when p's row, the only one that may be
\* running, gets another status.
LEMMA Relieved ==
  ASSUME QInv, NEW p \in Prompts, \A q \in Prompts \ {p} : status[q] # "running" /\ status'[q] # "running",
         status'[p] # "running"
  PROVE  Line!Relieve(p)
<1>1. InService' = None
  BY NobodyRunsNext
<1>2. CASE status[p] = "running"
  BY <1>1, <1>2, RunningAlone DEF Line!Relieve
<1>3. CASE status[p] # "running"
  BY <1>1, <1>3, NobodyRuns DEF Line!Relieve
<1> QED BY <1>2, <1>3

\* A prompt whose mode cannot be entered stays in the line and stops it.
LEMMA BlockBlocks ==
  ASSUME QInv, RowInv, BlockPrompt
  PROVE  Line!Block(cur)
<1>1. /\ status' = [status EXCEPT ![cur] = "blocked"] /\ seq' = seq /\ reset' = reset
      /\ status \in [Prompts -> RowStatus]
  BY DEF BlockPrompt, QInv, Orderly, TypeOK
<1>2. /\ cur \in Prompts /\ status[cur] \in {"pending", "running"}
      /\ status[cur] = "pending" => cur \in reset
      /\ \A q \in Prompts \ {cur} : status[q] # "running"
  BY DEF BlockPrompt, QInv, Orderly, Holding, RowInv, HeldRow
<1>3. Live' = Live /\ cur \in Live
  BY <1>1, <1>2 DEF Live
<1>4. Listed(Live, seq)' = Listed(Live, seq)
  BY <1>1, <1>3, SameOrder
<1>5. cur \in Line!InLine \intersect Begun
  BY <1>2, <1>3, LineHolds DEF Begun
<1>6. Stuck' = Stuck \union {cur}
  BY <1>1, <1>2 DEF Stuck
<1>7. Begun' = Begun
  BY <1>1, <1>2 DEF Begun
<1>8. Line!Relieve(cur)
  BY <1>1, <1>2, Relieved
<1> QED BY <1>4, <1>5, <1>6, <1>7, <1>8 DEF Line!Block

\* A live row that has been in service and is settled leaves the line; the
\* others close up behind it.
LEMMA SettledLeaves ==
  ASSUME QInv, RowInv, seq' = seq, reset' = reset, NEW p \in Live,
         status[p] \in {"running", "pending"}, status[p] = "pending" => p \in reset,
         \A q \in Prompts \ {p} : status[q] # "running",
         NEW st \in {"completed", "cancelled"}, status' = [status EXCEPT ![p] = st]
  PROVE  Line!Leave(p)
<1>1. p \in Prompts /\ status \in [Prompts -> RowStatus]
  BY DEF Live, QInv, Orderly, TypeOK
<1>2. Live' = Live \ {p}
  BY <1>1 DEF Live
<1>3. Numbers(Live, seq)
  BY LiveNumbered
<1> DEFINE L == Listed(Live, seq)
           k == Rank(Live, seq, p)
<1>4. k \in DOMAIN L /\ L[k] = p
  BY <1>3, ListedFacts, RankOrders
<1>5. Listed(Live \ {p}, seq) = [j \in 1 .. Len(L) - 1 |-> IF j < k THEN L[j] ELSE L[j + 1]]
  BY <1>3, ListedRemove
<1>6. Listed(Live', seq') = Listed(Live \ {p}, seq)
  BY <1>2
<1>7. Listed(Live, seq)' = Line!Without(k)
  BY <1>5, <1>6 DEF Line!Without
<1>8. p \in Begun \ Stuck
  BY <1>1 DEF Begun, Stuck
<1>9. Stuck' = Stuck
  BY <1>1 DEF Stuck
<1>10. Begun' = Begun
  BY <1>1 DEF Begun
<1>11. Line!Relieve(p)
  BY <1>1, Relieved
<1> HIDE DEF L, k
<1>12. \E i \in DOMAIN L : L[i] = p /\ Listed(Live, seq)' = Line!Without(i)
  BY <1>4, <1>7
<1> QED BY <1>8, <1>9, <1>10, <1>11, <1>12 DEF Line!Leave, L

\* finish_queued_prompt takes its prompt out of the line, or rewrites a row
\* that has left it.
LEMMA FinishLeaves ==
  ASSUME QInv, RowInv, SyncFinish
  PROVE  Line!Leave(cur) \/ UNCHANGED Line!lineVars
<1>1. /\ status' = [status EXCEPT ![cur] = seen.st] /\ seq' = seq /\ reset' = reset
      /\ status \in [Prompts -> RowStatus] /\ seen.st \in {"completed", "cancelled"}
  BY DEF SyncFinish, QInv, Orderly, TypeOK, Credited, Reading
<1>2. /\ cur \in Prompts /\ status[cur] \notin {"new", "blocked"}
      /\ status[cur] = "pending" => cur \in reset
      /\ \A q \in Prompts \ {cur} : status[q] # "running"
  BY DEF SyncFinish, QInv, Orderly, Holding, RowInv, HeldRow
<1>3. CASE cur \in Live
  <2>1. status[cur] \in {"running", "pending"}
    BY <1>2, <1>3 DEF Live
  <2> QED BY <1>1, <1>2, <1>3, <2>1, SettledLeaves
<1>4. CASE cur \notin Live
  <2>1. status[cur] \in {"completed", "cancelled"}
    BY <1>1, <1>2, <1>4 DEF Live, RowStatus
  <2>2. Live' = Live
    BY <1>1, <1>2, <2>1 DEF Live
  <2>3. Listed(Live, seq)' = Listed(Live, seq)
    BY <1>1, <2>2, SameOrder
  <2>4. Running' = Running /\ Stuck' = Stuck
    BY <1>1, <1>2, <2>1 DEF Running, Stuck
  <2>5. Begun' = Begun
    BY <1>1, <1>2, <2>1 DEF Begun
  <2>6. InService' = InService
    BY <2>4 DEF InService
  <2> QED BY <2>3, <2>4, <2>5, <2>6 DEF Line!lineVars
<1> QED BY <1>3, <1>4

\* cancel_goal_and_session takes the prompt bound to the goal out of the line,
\* if it is running; no other row is bound to the goal.
LEMMA CancelLeaves ==
  ASSUME QInv, RowInv, cancel_goal_and_session
  PROVE  (\E p \in Prompts : Line!Leave(p)) \/ UNCHANGED Line!lineVars
<1>1. seq' = seq /\ reset' = reset /\ status \in [Prompts -> RowStatus]
  BY DEF cancel_goal_and_session, QInv, Orderly, TypeOK
<1>2. PICK g \in ActiveGoal :
        status' = [p \in Prompts |-> IF goalOf[p] = g /\ status[p] \in {"pending", "running"}
                                     THEN "cancelled" ELSE status[p]]
  BY DEF cancel_goal_and_session
<1>3. g # 0
  BY DEF ActiveGoal
<1>4. CASE \E p \in Prompts : goalOf[p] = g /\ status[p] = "running"
  <2>1. PICK p \in Prompts : goalOf[p] = g /\ status[p] = "running"
    BY <1>4
  <2>2. \A q \in Prompts : goalOf[q] = g => q = p
    BY <1>3, <2>1 DEF QInv, Credited, GoalBoundOnce
  <2>3. status' = [status EXCEPT ![p] = "cancelled"]
    BY <1>1, <1>2, <2>1, <2>2
  <2>4. p \in Live /\ \A q \in Prompts \ {p} : status[q] # "running"
    BY <2>1, RunningAlone DEF Live, Running
  <2>5. Line!Leave(p)
    BY <1>1, <2>1, <2>3, <2>4, SettledLeaves
  <2> QED BY <2>5
<1>5. CASE ~\E p \in Prompts : goalOf[p] = g /\ status[p] = "running"
  <2>1. \A p \in Prompts : status[p] = "pending" => goalOf[p] = 0
    BY DEF QInv, Credited, Binding
  <2>2. status' = status
    BY <1>1, <1>2, <1>3, <1>5, <2>1
  <2> QED BY <1>1, <2>2, RowsUntouched
<1> QED BY <1>4, <1>5

-----------------------------------------------------------------------------
\* Every step of the queue is a step of the line or leaves it alone.
LEMMA LineStep ==
  ASSUME QInv, RowInv, QInv', RowInv', [Next]_vars
  PROVE  [Line!LineNext]_(Line!lineVars)
<1>1. CASE status' = status /\ seq' = seq /\ reset' = reset
  BY <1>1, RowsUntouched
<1>2. ASSUME NEW p \in Prompts, enqueue_prompt(p) PROVE Line!LineNext
  <2>1. Line!Append1(p)
    BY <1>2, EnqueueAppends
  <2> QED BY <2>1 DEF Line!LineNext
<1>3. CASE reorder_pending_prompts
  BY <1>3, ReorderRearranges DEF Line!LineNext
<1>4. CASE claim_next_prompt
  BY <1>4, ClaimServes DEF Line!LineNext
<1>5. CASE Restart \/ ForeignOpen
  BY <1>5, OpeningPutsBack DEF Line!LineNext
<1>6. CASE BlockPrompt
  <2>1. cur \in Prompts /\ Line!Block(cur)
    BY <1>6, BlockBlocks DEF BlockPrompt, QInv, Orderly, Holding
  <2> QED BY <2>1 DEF Line!LineNext
<1>7. CASE SyncFinish
  <2>1. cur \in Prompts
    BY <1>7 DEF SyncFinish, QInv, Orderly, Holding
  <2> QED BY <1>7, <2>1, FinishLeaves DEF Line!LineNext
<1>8. CASE cancel_goal_and_session
  BY <1>8, CancelLeaves DEF Line!LineNext
<1> QED BY <1>1, <1>2, <1>3, <1>4, <1>5, <1>6, <1>7, <1>8
     DEF Next, vars, rows, Join, SyncList, SyncItem, bind_prompt_goal, SyncGuard, StartPrompt, InboxEmpty,
         StartCommand, SaveTurn, MakeGoal, WorkEnds, WebSubmit, WebTurn, GoalCompletes, Dismiss, Crash

\* The line starts empty.
LEMMA LineStarts == Init => Line!LineInit
<1> SUFFICES ASSUME Init PROVE Line!LineInit
  OBVIOUS
<1>1. Live = {} /\ Running = {}
  BY DEF Init, Live, Running
<1>2. Listed(Live, seq) = <<>>
  <2>1. Cardinality(Live) = 0
    BY <1>1, FS_EmptySet
  <2>2. 1 .. 0 = {}
    OBVIOUS
  <2> QED BY <2>1, <2>2 DEF Listed
<1>3. InService = None
  BY <1>1 DEF InService
<1>4. Stuck = {} /\ Begun = {}
  BY DEF Init, Stuck, Begun
<1> QED BY <1>2, <1>3, <1>4 DEF Line!LineInit

\* The queue implements the line: for every set of prompts and every limit,
\* nothing overtakes except by a reorder of waiting prompts, nothing accepted
\* is lost, what left the line never comes back, and the line never exceeds
\* MAX_PENDING_PROMPTS, whatever crashes, foreign openings, cancellations and
\* late results happen (enqueue_prompt, reorder_pending_prompts,
\* claim_next_prompt, finish_queued_prompt, StateStore opening).
THEOREM QueueImplementsLine == Spec => ImplementsLine
<1>1. QInv /\ RowInv /\ QInv' /\ RowInv' /\ [Next]_vars => [Line!LineNext]_(Line!lineVars)
  BY LineStep
<1> QED BY <1>1, LineStarts, QAlways, RowsAlways, PTL DEF Spec, ImplementsLine, Line!LineSpec
=============================================================================
