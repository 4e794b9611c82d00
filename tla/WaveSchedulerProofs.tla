------------------------- MODULE WaveSchedulerProofs -------------------------
(***************************************************************************)
(* For every graph, every overlap relation and every limit: writers are    *)
(* exclusive, no lease is refused inside a wave, a reported cycle is real, *)
(* outcomes are justified, and a run is an execution of DagExecution.      *)
(***************************************************************************)
EXTENDS WaveScheduler, FunctionTheorems, FiniteSetTheorems, TLAPS

\* A lease is held exactly while its owner's worker runs.
LeaseWhileRunning == \A i \in Item : i \in leases <=> thr[i] = "run"

\* Threads exist for the current wave only, and a wave only while it is joined.
ThreadsOfWave ==
    /\ \A i \in Item : thr[i] # "idle" <=> i \in wave
    /\ wave # {} => main \in {"wave", "boundary"}

\* The wave was write-disjoint and ready when chosen, and stays so until joined.
WaveDisjoint == \A i, j \in wave : j \notin Clash[i]
WaveReady == \A i \in wave : outcome[i] = "none" /\ Deps[i] \subseteq Completed

\* A thread at its gate has an attempt left; a finished one has a result.
AttemptLeft ==
    \A i \in Item :
        /\ thr[i] \in {"idle", "gate"} => tries[i] <= Retries
        /\ thr[i] = "idle" => tries[i] = 0
ResultKnown == \A i \in Item : thr[i] = "done" => result[i] \in Outcome \ {"BLOCKED"}

\* What was decided has its reason in the outcomes of the prerequisites.
Justified ==
    \A i \in Item :
        /\ outcome[i] = "BLOCKED" => Deps[i] \cap Failed # {}
        /\ outcome[i] \notin {"none", "BLOCKED"} /\ ~cancelled => Deps[i] \subseteq Completed

EndOfRun == main = "returned" => Pending = {}

IInv ==
    /\ TypeOK
    /\ LeaseWhileRunning
    /\ ThreadsOfWave
    /\ WaveDisjoint
    /\ WaveReady
    /\ AttemptLeft
    /\ ResultKnown
    /\ Justified
    /\ EndOfRun
    /\ NoFalseCycle

\* The initial state of run satisfies the inductive invariant.
LEMMA InitIInv == Init => IInv
<1> SUFFICES ASSUME Init PROVE IInv
  OBVIOUS
<1> USE DEF Init
<1>1. TypeOK
  <2>1. tries \in [Item -> 0 .. Retries + 1] /\ limit \in 1 .. Initial /\ wins \in 0 .. RecoverAfter
    BY LimitAssumption
  <2> QED BY <2>1 DEF TypeOK, Outcome, Final
<1>2. LeaseWhileRunning /\ ThreadsOfWave /\ WaveDisjoint /\ WaveReady
  BY DEF LeaseWhileRunning, ThreadsOfWave, WaveDisjoint, WaveReady
<1>3. AttemptLeft /\ ResultKnown
  BY LimitAssumption DEF AttemptLeft, ResultKnown
<1>4. Justified /\ EndOfRun /\ NoFalseCycle
  BY DEF Justified, EndOfRun, NoFalseCycle, Pending, Failed
<1> QED BY <1>1, <1>2, <1>3, <1>4 DEF IInv

-----------------------------------------------------------------------------
(* AdaptiveConcurrency keeps the limit between one and the initial one *)

\* on_success and on_rate_limit keep the limit and the counter in range.
LEMMA LimitInRange ==
    ASSUME limit \in 1 .. Initial, wins \in 0 .. RecoverAfter,
           OnSuccess \/ OnRateLimit \/ SameLimit
    PROVE  limit' \in 1 .. Initial /\ wins' \in 0 .. RecoverAfter
<1>1. CASE OnSuccess
  BY <1>1, LimitAssumption DEF OnSuccess
<1>2. CASE OnRateLimit
  BY <1>2, LimitAssumption DEF OnRateLimit
<1>3. CASE SameLimit
  BY <1>3 DEF SameLimit
<1> QED BY <1>1, <1>2, <1>3

-----------------------------------------------------------------------------
(* The user's thread *)

\* Pause, resume and cancel change only the control token.
LEMMA ControlStep ==
    ASSUME IInv, Control
    PROVE  IInv'
<1>1. /\ main' = main /\ outcome' = outcome
      /\ UNCHANGED threadVars
      /\ paused' \in BOOLEAN /\ cancelled' \in BOOLEAN
      /\ cancelled => cancelled'
  BY DEF IInv, TypeOK, Control, Pause, Resume, Cancel
<1>2. TypeOK'
  BY <1>1 DEF IInv, TypeOK, threadVars
<1>3. LeaseWhileRunning' /\ ThreadsOfWave' /\ WaveDisjoint'
  BY <1>1 DEF IInv, threadVars, LeaseWhileRunning, ThreadsOfWave, WaveDisjoint
<1>4. WaveReady' /\ AttemptLeft' /\ ResultKnown'
  BY <1>1 DEF IInv, threadVars, WaveReady, AttemptLeft, ResultKnown, Completed
<1>5. Justified' /\ EndOfRun' /\ NoFalseCycle'
  BY <1>1 DEF IInv, Justified, EndOfRun, NoFalseCycle, Pending, Failed, Completed
<1> QED BY <1>2, <1>3, <1>4, <1>5 DEF IInv

-----------------------------------------------------------------------------
(* The pool threads *)

\* What no step of a thread disturbs: it moves one live thread of the wave.
LEMMA ThreadFrame ==
    ASSUME IInv, NEW i \in Item, thr[i] \in {"gate", "run"},
           NEW s \in {"gate", "run", "done", "raised"},
           thr' = [thr EXCEPT ![i] = s],
           UNCHANGED Others
    PROVE  /\ ThreadsOfWave' /\ WaveDisjoint' /\ WaveReady'
           /\ Justified' /\ EndOfRun' /\ NoFalseCycle'
<1>1. main' = main /\ outcome' = outcome /\ wave' = wave /\ cancelled' = cancelled
  BY DEF Others
<1>2. ThreadsOfWave'
  BY <1>1 DEF IInv, TypeOK, ThreadsOfWave
<1>3. WaveDisjoint' /\ WaveReady'
  BY <1>1 DEF IInv, WaveDisjoint, WaveReady, Completed
<1>4. Justified' /\ EndOfRun' /\ NoFalseCycle'
  BY <1>1 DEF IInv, Justified, EndOfRun, NoFalseCycle, Pending, Failed, Completed
<1> QED BY <1>2, <1>3, <1>4

\* A thread's types, from the types of what it writes.
LEMMA ThreadType ==
    ASSUME IInv, NEW i \in Item,
           NEW s \in {"gate", "run", "done", "raised"},
           thr' = [thr EXCEPT ![i] = s],
           NEW k \in Outcome \cup {"none"}, result' = [result EXCEPT ![i] = k],
           NEW n \in 0 .. Retries + 1, tries' = [tries EXCEPT ![i] = n],
           leases' \subseteq Item,
           OnSuccess \/ OnRateLimit \/ SameLimit,
           UNCHANGED Others
    PROVE  TypeOK'
<1>1. limit' \in 1 .. Initial /\ wins' \in 0 .. RecoverAfter
  BY LimitInRange DEF IInv, TypeOK
<1>2. /\ thr' \in [Item -> {"idle", "gate", "run", "done", "raised"}]
      /\ result' \in [Item -> Outcome \cup {"none"}]
  BY DEF IInv, TypeOK
<1>3. tries' \in [Item -> 0 .. Retries + 1]
  BY DEF IInv, TypeOK
<1>4. main' = main /\ outcome' = outcome /\ wave' = wave /\ paused' = paused /\ cancelled' = cancelled
  BY DEF Others
<1> QED BY <1>1, <1>2, <1>3, <1>4 DEF IInv, TypeOK

\* The steps before the worker: the attempt is counted, then the checkpoint
\* raises, the lease is granted, or it is refused.
LEMMA GateStep ==
    ASSUME IInv, NEW i \in Item, Gate(i)
    PROVE  IInv'
<1>1. /\ thr[i] = "gate"
      /\ tries' = [tries EXCEPT ![i] = tries[i] + 1]
      /\ SameLimit /\ UNCHANGED Others
  BY DEF Gate, GateCancelled, Acquire, Refused, Attempt, Finish
<1>2. tries[i] + 1 \in 0 .. Retries + 1
  BY <1>1, LimitAssumption DEF IInv, TypeOK, AttemptLeft
<1>3. CASE Acquire(i)
  <2>1. /\ thr' = [thr EXCEPT ![i] = "run"] /\ result' = [result EXCEPT ![i] = result[i]]
        /\ leases' = leases \cup {i}
    BY <1>3 DEF Acquire, IInv, TypeOK
  <2>2. TypeOK'
    <3>1. result[i] \in Outcome \cup {"none"} /\ leases' \subseteq Item
      BY <2>1 DEF IInv, TypeOK
    <3> QED BY <1>1, <1>2, <2>1, <3>1, ThreadType
  <2>3. LeaseWhileRunning' /\ ResultKnown' /\ AttemptLeft'
    BY <1>1, <2>1 DEF IInv, TypeOK, LeaseWhileRunning, ResultKnown, AttemptLeft
  <2> QED BY <1>1, <2>1, <2>2, <2>3, ThreadFrame DEF IInv
<1>4. CASE GateCancelled(i) \/ Refused(i)
  <2>1. PICK k \in {"CONFLICT", "FAILED", "CANCELLED"} :
          thr' = [thr EXCEPT ![i] = "done"] /\ result' = [result EXCEPT ![i] = k]
    BY <1>4 DEF GateCancelled, Refused, Finish
  <2>2. leases' = leases
    BY <1>4 DEF GateCancelled, Refused
  <2>3. TypeOK'
    <3>1. k \in Outcome \cup {"none"} /\ leases' \subseteq Item
      BY <2>2 DEF IInv, TypeOK, Outcome
    <3> QED BY <1>1, <1>2, <2>1, <3>1, ThreadType
  <2>4. LeaseWhileRunning' /\ ResultKnown' /\ AttemptLeft'
    BY <1>1, <2>1, <2>2 DEF IInv, TypeOK, Outcome, LeaseWhileRunning, ResultKnown, AttemptLeft
  <2> QED BY <1>1, <2>1, <2>3, <2>4, ThreadFrame DEF IInv
<1> QED BY <1>3, <1>4 DEF Gate

\* The steps that leave the worker give the lease back.
LEMMA WorkerStep ==
    ASSUME IInv, NEW i \in Item, WorkerEnds(i)
    PROVE  IInv'
<1>1. /\ thr[i] = "run" /\ leases' = leases \ {i}
      /\ OnSuccess \/ OnRateLimit \/ SameLimit
      /\ tries' = [tries EXCEPT ![i] = tries[i]]
      /\ UNCHANGED Others
  BY DEF WorkerEnds, WorkerReturns, WorkerFails, WorkerLimited, WorkerBoundary, Release, Finish,
         IInv, TypeOK
<1>2. tries[i] \in 0 .. Retries + 1 /\ leases' \subseteq Item
  BY <1>1 DEF IInv, TypeOK
<1>3. PICK s \in {"gate", "done", "raised"}, k \in Outcome \cup {"none"} :
        /\ thr' = [thr EXCEPT ![i] = s]
        /\ result' = [result EXCEPT ![i] = k]
        /\ s = "done" => k \in Outcome \ {"BLOCKED"}
        /\ s = "gate" => tries[i] <= Retries
  <2>1. CASE WorkerReturns(i)
    BY <2>1 DEF WorkerReturns, Finish, Outcome
  <2>2. CASE WorkerFails(i)
    BY <2>2 DEF WorkerFails, Finish, Outcome
  <2>3. CASE WorkerLimited(i)
    <3>1. CASE OutOfTries(i)
      BY <2>3, <3>1 DEF WorkerLimited, Finish, Outcome
    <3>2. CASE ~OutOfTries(i)
      <4>1. tries[i] <= Retries
        BY <1>2, <3>2, LimitAssumption DEF OutOfTries
      <4>2. thr' = [thr EXCEPT ![i] = "gate"] /\ result' = [result EXCEPT ![i] = result[i]]
        BY <2>3, <3>2 DEF WorkerLimited, IInv, TypeOK
      <4>3. result[i] \in Outcome \cup {"none"}
        BY DEF IInv, TypeOK
      <4> QED BY <4>1, <4>2, <4>3
    <3> QED BY <3>1, <3>2
  <2>4. CASE WorkerBoundary(i)
    <3>1. thr' = [thr EXCEPT ![i] = "raised"] /\ result' = [result EXCEPT ![i] = result[i]]
      BY <2>4 DEF WorkerBoundary, IInv, TypeOK
    <3>2. result[i] \in Outcome \cup {"none"}
      BY DEF IInv, TypeOK
    <3> QED BY <3>1, <3>2
  <2> QED BY <2>1, <2>2, <2>3, <2>4 DEF WorkerEnds
<1>4. TypeOK'
  BY <1>1, <1>2, <1>3, ThreadType
<1>5. LeaseWhileRunning' /\ ResultKnown'
  BY <1>1, <1>3 DEF IInv, TypeOK, LeaseWhileRunning, ResultKnown
<1>6. AttemptLeft'
  BY <1>1, <1>3 DEF IInv, TypeOK, AttemptLeft
<1> QED BY <1>1, <1>3, <1>4, <1>5, <1>6, ThreadFrame DEF IInv

\* A model call inside the worker moves only the limit.
LEMMA ModelCallStep ==
    ASSUME IInv, NEW i \in Item, ModelCall(i)
    PROVE  IInv'
<1>1. /\ thr[i] = "run" /\ thr' = [thr EXCEPT ![i] = "run"]
      /\ result' = [result EXCEPT ![i] = result[i]] /\ tries' = [tries EXCEPT ![i] = tries[i]]
      /\ thr' = thr /\ result' = result /\ tries' = tries
      /\ leases' = leases
      /\ OnSuccess \/ OnRateLimit
      /\ UNCHANGED Others
  BY DEF ModelCall, IInv, TypeOK
<1>2. TypeOK'
  <2>1. result[i] \in Outcome \cup {"none"} /\ tries[i] \in 0 .. Retries + 1 /\ leases' \subseteq Item
    BY <1>1 DEF IInv, TypeOK
  <2> QED BY <1>1, <2>1, ThreadType
<1>3. LeaseWhileRunning' /\ ResultKnown' /\ AttemptLeft'
  BY <1>1 DEF IInv, LeaseWhileRunning, ResultKnown, AttemptLeft
<1> QED BY <1>1, <1>2, <1>3, ThreadFrame DEF IInv

-----------------------------------------------------------------------------
(* The controller *)

\* At the top of the loop no thread is left.
LEMMA NoThreads ==
    ASSUME IInv, main = "loop"
    PROVE  wave = {} /\ \A i \in Item : thr[i] = "idle"
  BY DEF IInv, ThreadsOfWave, TypeOK

\* A cancelled run gives every pending node an outcome.
LEMMA LoopCancelledStep ==
    ASSUME IInv, LoopCancelled
    PROVE  IInv'
<1>1. /\ main = "loop" /\ main' = "returned"
      /\ cancelled /\ cancelled' = cancelled /\ paused' = paused
      /\ outcome' = [i \in Item |-> IF i \in Pending THEN "CANCELLED" ELSE outcome[i]]
      /\ UNCHANGED threadVars
  BY DEF LoopCancelled
<1>2. wave = {}
  BY <1>1, NoThreads
<1>3. TypeOK'
  BY <1>1 DEF IInv, TypeOK, threadVars, Outcome, Final
<1>4. LeaseWhileRunning' /\ ThreadsOfWave' /\ WaveDisjoint' /\ WaveReady'
  BY <1>1, <1>2 DEF IInv, threadVars, LeaseWhileRunning, ThreadsOfWave, WaveDisjoint, WaveReady
<1>5. AttemptLeft' /\ ResultKnown'
  BY <1>1 DEF IInv, threadVars, AttemptLeft, ResultKnown
<1>6. Justified'
  <2>1. \A i \in Item : outcome'[i] = "BLOCKED" => outcome[i] = "BLOCKED"
    BY <1>1
  <2>2. Failed \subseteq Failed'
    BY <1>1 DEF Failed, Pending
  <2> QED BY <1>1, <2>1, <2>2 DEF IInv, Justified
<1>7. EndOfRun' /\ NoFalseCycle'
  BY <1>1 DEF IInv, EndOfRun, NoFalseCycle, Pending
<1> QED BY <1>3, <1>4, <1>5, <1>6, <1>7 DEF IInv

\* Blocking the nodes below a failure.
LEMMA LoopBlockStep ==
    ASSUME IInv, LoopBlock
    PROVE  IInv'
<1>1. /\ main = "loop" /\ main' = main
      /\ cancelled' = cancelled /\ paused' = paused
      /\ outcome' = [i \in Item |-> IF i \in NewlyBlocked THEN "BLOCKED" ELSE outcome[i]]
      /\ UNCHANGED threadVars
  BY DEF LoopBlock
<1>2. wave = {}
  BY <1>1, NoThreads
<1>3. TypeOK'
  BY <1>1 DEF IInv, TypeOK, threadVars, Outcome, Final
<1>4. LeaseWhileRunning' /\ ThreadsOfWave' /\ WaveDisjoint' /\ WaveReady'
  BY <1>1, <1>2 DEF IInv, threadVars, LeaseWhileRunning, ThreadsOfWave, WaveDisjoint, WaveReady
<1>5. AttemptLeft' /\ ResultKnown'
  BY <1>1 DEF IInv, threadVars, AttemptLeft, ResultKnown
<1>6. Justified'
  <2>1. Failed \subseteq Failed' /\ Completed \subseteq Completed'
    BY <1>1 DEF Failed, Completed, NewlyBlocked, Pending
  <2>2. \A i \in NewlyBlocked : Deps[i] \cap Failed # {}
    BY DEF NewlyBlocked
  <2> QED BY <1>1, <2>1, <2>2 DEF IInv, Justified
<1>7. EndOfRun' /\ NoFalseCycle'
  BY <1>1 DEF IInv, EndOfRun, NoFalseCycle
<1> QED BY <1>3, <1>4, <1>5, <1>6, <1>7 DEF IInv

\* A cycle is reported when nothing is ready and nothing can be blocked.
LEMMA LoopCycleStep ==
    ASSUME IInv, LoopCycle
    PROVE  IInv'
<1>1. /\ main = "loop" /\ main' = "cycle" /\ outcome' = outcome
      /\ cancelled' = cancelled /\ paused' = paused
      /\ NewlyBlocked = {} /\ Ready = {}
      /\ UNCHANGED threadVars
  BY DEF LoopCycle
<1>2. wave = {}
  BY <1>1, NoThreads
<1>3. TypeOK'
  BY <1>1 DEF IInv, TypeOK, threadVars, Final
<1>4. LeaseWhileRunning' /\ ThreadsOfWave' /\ WaveDisjoint' /\ WaveReady'
  BY <1>1, <1>2 DEF IInv, threadVars, LeaseWhileRunning, ThreadsOfWave, WaveDisjoint, WaveReady
<1>5. AttemptLeft' /\ ResultKnown' /\ Justified' /\ EndOfRun'
  BY <1>1 DEF IInv, threadVars, AttemptLeft, ResultKnown, Justified, EndOfRun, Failed, Completed
<1>6. NoFalseCycle'
  <2>1. ASSUME NEW i \in Pending PROVE Deps[i] \cap Pending # {}
    <3>1. PICK d \in Deps[i] : d \notin Completed
      BY <1>1 DEF Ready, Pending
    <3>2. d \in Item /\ outcome[d] # "COMPLETED"
      BY <3>1, DepsAssumption DEF Pending, Completed
    <3>3. d \notin Failed
      BY <1>1, <3>1 DEF NewlyBlocked
    <3> QED BY <3>2, <3>3 DEF Failed, Pending
  <2> QED BY <1>1, <2>1 DEF NoFalseCycle, Pending
<1> QED BY <1>3, <1>4, <1>5, <1>6 DEF IInv

\* Two members of a wave never overlap: the later one was compared with the earlier.
LEMMA WaveMembersDisjoint ==
    ASSUME NEW W \in SUBSET Ready, IsWave(W), NEW i \in W, NEW j \in W
    PROVE  j \notin Clash[i]
<1>1. i \in Item /\ j \in Item
  BY DEF Ready, Pending
<1>2. ASSUME NEW a \in W, NEW b \in W, Pos[a] < Pos[b] PROVE a \notin Clash[b]
  BY <1>2 DEF IsWave, Overlap
<1>3. Pos[i] < Pos[j] \/ Pos[j] < Pos[i] \/ i = j
  BY <1>1, PosAssumption
<1> QED BY <1>1, <1>2, <1>3, ClashAssumption

\* Choosing a wave.
LEMMA StartWaveStep ==
    ASSUME IInv, StartWave
    PROVE  IInv'
<1>1. PICK W \in SUBSET Ready :
        /\ IsWave(W) /\ wave' = W
        /\ thr' = [i \in Item |-> IF i \in W THEN "gate" ELSE thr[i]]
  BY DEF StartWave
<1>2. /\ main = "loop" /\ main' = "wave" /\ outcome' = outcome /\ result' = result
      /\ tries' = tries /\ leases' = leases /\ limit' = limit /\ wins' = wins
      /\ paused' = paused /\ cancelled' = cancelled
  BY DEF StartWave
<1>3. W \subseteq Item /\ \A i \in Item : thr[i] = "idle"
  BY <1>1, <1>2, NoThreads DEF Ready, Pending
<1>4. TypeOK'
  BY <1>1, <1>2, <1>3 DEF IInv, TypeOK
<1>5. LeaseWhileRunning' /\ ThreadsOfWave'
  BY <1>1, <1>2, <1>3 DEF IInv, LeaseWhileRunning, ThreadsOfWave
<1>6. WaveDisjoint'
  BY <1>1, WaveMembersDisjoint DEF WaveDisjoint
<1>7. WaveReady'
  BY <1>1, <1>2 DEF WaveReady, Ready, Pending, Completed
<1>8. AttemptLeft' /\ ResultKnown'
  BY <1>1, <1>2, <1>3 DEF IInv, TypeOK, AttemptLeft, ResultKnown
<1>9. Justified' /\ EndOfRun' /\ NoFalseCycle'
  BY <1>2 DEF IInv, Justified, EndOfRun, NoFalseCycle, Failed, Completed
<1> QED BY <1>4, <1>5, <1>6, <1>7, <1>8, <1>9 DEF IInv

\* Joining the pool: a boundary stops the run, otherwise the results count.
LEMMA JoinWaveStep ==
    ASSUME IInv, JoinWave
    PROVE  IInv'
<1>1. /\ main = "wave" /\ leases' = leases /\ limit' = limit /\ wins' = wins
      /\ paused' = paused /\ cancelled' = cancelled
      /\ \A i \in wave : thr[i] \in {"done", "raised"}
  BY DEF JoinWave
<1>2. CASE \E i \in wave : thr[i] = "raised"
  <2>1. /\ main' = "boundary" /\ outcome' = outcome /\ wave' = wave /\ thr' = thr
        /\ result' = result /\ tries' = tries
    BY <1>2 DEF JoinWave
  <2>2. TypeOK'
    BY <1>1, <2>1 DEF IInv, TypeOK, Final
  <2>3. LeaseWhileRunning' /\ ThreadsOfWave' /\ WaveDisjoint' /\ WaveReady'
    BY <1>1, <2>1 DEF IInv, LeaseWhileRunning, ThreadsOfWave, WaveDisjoint, WaveReady, Completed
  <2>4. AttemptLeft' /\ ResultKnown' /\ Justified' /\ EndOfRun' /\ NoFalseCycle'
    BY <1>1, <2>1 DEF IInv, AttemptLeft, ResultKnown, Justified, EndOfRun, NoFalseCycle, Failed, Completed
  <2> QED BY <2>2, <2>3, <2>4 DEF IInv
<1>3. CASE ~\E i \in wave : thr[i] = "raised"
  <2>1. /\ main' = "loop" /\ wave' = {}
        /\ outcome' = [i \in Item |-> IF i \in wave THEN result[i] ELSE outcome[i]]
        /\ thr' = [i \in Item |-> "idle"]
        /\ result' = [i \in Item |-> "none"]
        /\ tries' = [i \in Item |-> 0]
    BY <1>3 DEF JoinWave
  <2>2. \A i \in wave : i \in Item /\ thr[i] = "done" /\ result[i] \in Outcome \ {"BLOCKED"}
    BY <1>1, <1>3 DEF IInv, TypeOK, ResultKnown
  <2>3. TypeOK'
    <3>1. tries' \in [Item -> 0 .. Retries + 1]
      BY <2>1, LimitAssumption
    <3>2. outcome' \in [Item -> Outcome \cup {"none"}]
      BY <2>1, <2>2 DEF IInv, TypeOK
    <3> QED BY <1>1, <2>1, <3>1, <3>2 DEF IInv, TypeOK
  <2>4. LeaseWhileRunning' /\ ThreadsOfWave'
    <3>1. leases = {}
      <4>1. \A i \in Item : thr[i] # "run"
        BY <1>1 DEF IInv, ThreadsOfWave
      <4> QED BY <4>1 DEF IInv, TypeOK, LeaseWhileRunning
    <3> QED BY <1>1, <2>1, <3>1 DEF LeaseWhileRunning, ThreadsOfWave
  <2>5. WaveDisjoint' /\ WaveReady' /\ AttemptLeft' /\ ResultKnown'
    BY <2>1, LimitAssumption DEF WaveDisjoint, WaveReady, AttemptLeft, ResultKnown
  <2>6. Justified'
    <3>1. Completed \subseteq Completed' /\ Failed \subseteq Failed'
      BY <2>1 DEF IInv, WaveReady, Completed, Failed
    <3>2. ASSUME NEW i \in Item, outcome'[i] = "BLOCKED" PROVE Deps[i] \cap Failed' # {}
      <4>1. outcome[i] = "BLOCKED"
        BY <2>1, <2>2, <3>2
      <4> QED BY <3>1, <4>1 DEF IInv, Justified
    <3>3. ASSUME NEW i \in Item, outcome'[i] \notin {"none", "BLOCKED"}, ~cancelled'
          PROVE Deps[i] \subseteq Completed'
      <4>1. CASE i \in wave
        BY <3>1, <4>1 DEF IInv, WaveReady
      <4>2. CASE i \notin wave
        BY <1>1, <2>1, <3>1, <3>3, <4>2 DEF IInv, Justified
      <4> QED BY <4>1, <4>2
    <3> QED BY <3>2, <3>3 DEF Justified
  <2>7. EndOfRun' /\ NoFalseCycle'
    BY <2>1 DEF EndOfRun, NoFalseCycle
  <2> QED BY <2>3, <2>4, <2>5, <2>6, <2>7 DEF IInv
<1> QED BY <1>2, <1>3

\* Returning when nothing is pending.
LEMMA LoopReturnStep ==
    ASSUME IInv, LoopReturn
    PROVE  IInv'
<1>1. /\ main = "loop" /\ Pending = {} /\ main' = "returned" /\ outcome' = outcome
      /\ cancelled' = cancelled /\ paused' = paused
      /\ UNCHANGED threadVars
  BY DEF LoopReturn
<1>2. wave = {}
  BY <1>1, NoThreads
<1>3. TypeOK'
  BY <1>1 DEF IInv, TypeOK, threadVars, Final
<1>4. LeaseWhileRunning' /\ ThreadsOfWave' /\ WaveDisjoint' /\ WaveReady'
  BY <1>1, <1>2 DEF IInv, threadVars, LeaseWhileRunning, ThreadsOfWave, WaveDisjoint, WaveReady
<1>5. AttemptLeft' /\ ResultKnown' /\ Justified'
  BY <1>1 DEF IInv, threadVars, AttemptLeft, ResultKnown, Justified, Failed, Completed
<1>6. EndOfRun' /\ NoFalseCycle'
  BY <1>1 DEF EndOfRun, NoFalseCycle, Pending
<1> QED BY <1>3, <1>4, <1>5, <1>6 DEF IInv

-----------------------------------------------------------------------------
(* The invariant and what follows from it *)

\* Every step of the scheduler preserves the inductive invariant.
LEMMA NextIInv == IInv /\ [Next]_vars => IInv'
<1> SUFFICES ASSUME IInv, [Next]_vars PROVE IInv'
  OBVIOUS
<1>1. CASE Control
  BY <1>1, ControlStep
<1>2. CASE Controller
  BY <1>2, LoopCancelledStep, LoopBlockStep, LoopCycleStep, StartWaveStep, JoinWaveStep,
     LoopReturnStep DEF Controller
<1>3. CASE \E i \in Item : Gate(i) \/ WorkerEnds(i) \/ ModelCall(i)
  BY <1>3, GateStep, WorkerStep, ModelCallStep
<1>4. CASE UNCHANGED vars
  <2>1. main' = main /\ outcome' = outcome /\ paused' = paused /\ cancelled' = cancelled
    BY <1>4 DEF vars
  <2>2. UNCHANGED threadVars
    BY <1>4 DEF vars, threadVars
  <2>3. TypeOK'
    BY <2>1, <2>2 DEF IInv, TypeOK, threadVars
  <2>4. LeaseWhileRunning' /\ ThreadsOfWave' /\ WaveDisjoint'
    BY <2>1, <2>2 DEF IInv, threadVars, LeaseWhileRunning, ThreadsOfWave, WaveDisjoint
  <2>5. WaveReady' /\ AttemptLeft' /\ ResultKnown'
    BY <2>1, <2>2 DEF IInv, threadVars, WaveReady, AttemptLeft, ResultKnown, Completed
  <2>6. Justified' /\ EndOfRun' /\ NoFalseCycle'
    BY <2>1 DEF IInv, Justified, EndOfRun, NoFalseCycle, Pending, Failed, Completed
  <2> QED BY <2>3, <2>4, <2>5, <2>6 DEF IInv
<1> QED BY <1>1, <1>2, <1>3, <1>4 DEF Next

\* The inductive invariant holds throughout every run.
THEOREM SchedulerInvariant == Spec => []IInv
  BY InitIInv, NextIInv, PTL DEF Spec

\* Every variable of the scheduler keeps its type; in particular the limit of
\* AdaptiveConcurrency stays between one and the initial limit, and attempts
\* never exceed rate_limit_retries by more than one.
THEOREM SchedulerTyped == Spec => []TypeOK
<1>1. IInv => TypeOK
  BY DEF IInv
<1> QED BY <1>1, SchedulerInvariant, PTL

\* For every graph, overlap relation and limit: no two workers run at once with
\* overlapping write scopes (hold in _run_one).
THEOREM WritersExcluded == Spec => []WriteExclusion
<1>1. IInv => WriteExclusion
  BY DEF IInv, ThreadsOfWave, WaveDisjoint, WriteExclusion, InWorker
<1> QED BY <1>1, SchedulerInvariant, PTL

\* The lease manager never refuses a node of the wave, retries included.
THEOREM LeasesGranted == Spec => []LeaseNeverRefused
<1>1. IInv => LeaseNeverRefused
  <2> SUFFICES ASSUME IInv, NEW i \in Item, thr[i] = "gate" PROVE Clash[i] \cap leases = {}
    BY DEF LeaseNeverRefused
  <2>1. i \in wave
    BY DEF IInv, ThreadsOfWave
  <2>2. leases \subseteq wave
    BY DEF IInv, TypeOK, LeaseWhileRunning, ThreadsOfWave
  <2> QED BY <2>1, <2>2 DEF IInv, WaveDisjoint
<1> QED BY <1>1, SchedulerInvariant, PTL

\* DependencyGraphError is raised by run only for nodes that wait for each other.
THEOREM CyclesAreReal == Spec => []NoFalseCycle
<1>1. IInv => NoFalseCycle
  BY DEF IInv
<1> QED BY <1>1, SchedulerInvariant, PTL

\* An uncancelled run blocks exactly the nodes below one that did not complete.
THEOREM OutcomesAreJustified == Spec => []OutcomesJustified
<1>1. IInv => OutcomesJustified
  <2> SUFFICES ASSUME IInv, main = "returned", ~cancelled, NEW i \in Item
               PROVE  outcome[i] = "BLOCKED" <=> \E d \in Deps[i] \cap Item : outcome[d] # "COMPLETED"
    BY DEF OutcomesJustified
  <2>1. ASSUME outcome[i] = "BLOCKED" PROVE \E d \in Deps[i] \cap Item : outcome[d] # "COMPLETED"
    BY <2>1 DEF IInv, Justified, Failed
  <2>2. ASSUME outcome[i] # "BLOCKED", NEW d \in Deps[i] \cap Item PROVE outcome[d] = "COMPLETED"
    <3>1. outcome[i] # "none"
      BY DEF IInv, EndOfRun, Pending
    <3>2. d \in Completed
      BY <2>2, <3>1 DEF IInv, Justified
    <3> QED BY <3>2, ExternalAssumption DEF Completed
  <2> QED BY <2>1, <2>2
<1> QED BY <1>1, SchedulerInvariant, PTL

-----------------------------------------------------------------------------
(* The concurrency bound *)

\* _wave stops at the limit: the number of earlier members tells the members of a
\* wave apart, and there are only limit such numbers.
LEMMA WaveSize ==
    ASSUME TypeOK, NEW W \in SUBSET Ready, IsWave(W)
    PROVE  Cardinality(W) <= limit
<1> DEFINE Earlier(i) == {j \in W : Pos[j] < Pos[i]}
           f == [i \in W |-> Cardinality(Earlier(i))]
<1>1. W \subseteq Item /\ IsFiniteSet(W) /\ \A i \in W : Pos[i] \in Nat
  BY ItemAssumption, PosAssumption, FS_Subset DEF Ready, Pending
<1>2. ASSUME NEW i \in W
      PROVE  IsFiniteSet(Earlier(i)) /\ Cardinality(Earlier(i)) \in 0 .. limit - 1
  <2>1. IsFiniteSet(Earlier(i)) /\ Cardinality(Earlier(i)) \in Nat
    BY <1>1, FS_Subset, FS_CardinalityType
  <2>2. Cardinality(Earlier(i)) < limit
    BY DEF IsWave
  <2> QED BY <2>1, <2>2, LimitAssumption DEF TypeOK
<1>3. ASSUME NEW i \in W, NEW j \in W, Pos[i] < Pos[j] PROVE f[i] # f[j]
  <2>1. Earlier(i) \cup {i} \subseteq Earlier(j) /\ i \notin Earlier(i)
    BY <1>1, <1>3
  <2>2. Cardinality(Earlier(i) \cup {i}) = Cardinality(Earlier(i)) + 1
    BY <1>2, <2>1, FS_AddElement
  <2>3. Cardinality(Earlier(i) \cup {i}) <= Cardinality(Earlier(j))
    BY <1>2, <2>1, FS_Subset
  <2>4. Cardinality(Earlier(i)) \in Nat /\ Cardinality(Earlier(j)) \in Nat
    BY <1>2, FS_CardinalityType
  <2>5. Cardinality(Earlier(i)) # Cardinality(Earlier(j))
    <3> HIDE DEF Earlier
    <3> QED BY <2>2, <2>3, <2>4
  <2> QED BY <2>5
<1>4. f \in Injection(W, 0 .. limit - 1)
  <2>1. f \in [W -> 0 .. limit - 1]
    BY <1>2
  <2>2. ASSUME NEW i \in W, NEW j \in W, f[i] = f[j] PROVE i = j
    <3>1. Pos[i] < Pos[j] \/ Pos[j] < Pos[i] \/ i = j
      BY <1>1, PosAssumption
    <3> HIDE DEF f
    <3> QED BY <1>3, <2>2, <3>1
  <2> HIDE DEF f
  <2> QED BY <2>1, <2>2, Fun_IsInj
<1>5. IsFiniteSet(0 .. limit - 1) /\ Cardinality(0 .. limit - 1) = limit
  BY FS_Interval, LimitAssumption DEF TypeOK
<1> HIDE DEF f
<1> QED BY <1>4, <1>5, FS_Injection

\* The wave never exceeds the initial limit.
WaveBounded == Cardinality(wave) <= Initial

\* A wave is chosen within the limit and only shrinks to nothing.
LEMMA NextBounded == IInv /\ WaveBounded /\ [Next]_vars => WaveBounded'
<1> SUFFICES ASSUME IInv, WaveBounded, [Next]_vars PROVE WaveBounded'
  OBVIOUS
<1>1. CASE StartWave
  <2>1. PICK W \in SUBSET Ready : IsWave(W) /\ wave' = W
    BY <1>1 DEF StartWave
  <2>2. Cardinality(W) <= limit
    BY <2>1, WaveSize DEF IInv
  <2>3. IsFiniteSet(W)
    BY ItemAssumption, FS_Subset DEF Ready, Pending
  <2>4. Cardinality(W) \in Nat
    BY <2>3, FS_CardinalityType
  <2> QED BY <2>1, <2>2, <2>4, LimitAssumption DEF IInv, TypeOK, WaveBounded
<1>2. CASE wave' = wave
  BY <1>2 DEF WaveBounded
<1>3. CASE wave' = {}
  BY <1>3, FS_EmptySet, LimitAssumption DEF WaveBounded
<1>4. StartWave \/ wave' = wave \/ wave' = {}
  <2>1. CASE Controller
    BY <2>1 DEF Controller, LoopCancelled, LoopBlock, LoopCycle, JoinWave, LoopReturn, threadVars
  <2>2. CASE Control
    BY <2>2 DEF Control, Pause, Resume, Cancel, threadVars
  <2>3. CASE \E i \in Item : Gate(i) \/ WorkerEnds(i) \/ ModelCall(i)
    BY <2>3 DEF Gate, GateCancelled, Acquire, Refused, WorkerEnds, WorkerReturns, WorkerFails,
                WorkerLimited, WorkerBoundary, ModelCall, Finish, Others
  <2>4. CASE UNCHANGED vars
    BY <2>4 DEF vars
  <2> QED BY <2>1, <2>2, <2>3, <2>4 DEF Next
<1> QED BY <1>1, <1>2, <1>3, <1>4

\* However the limit moves while a wave runs, there are never more workers than
\* the run was started with (AdaptiveConcurrency, _wave).
THEOREM ConcurrencyBounded == Spec => []ConcurrencyBound
<1>1. Init => WaveBounded
  BY FS_EmptySet, LimitAssumption DEF Init, WaveBounded
<1>2. IInv /\ WaveBounded => ConcurrencyBound
  <2> SUFFICES ASSUME IInv, WaveBounded PROVE Cardinality(InWorker) <= Initial
    BY DEF ConcurrencyBound
  <2>1. IsFiniteSet(wave)
    BY ItemAssumption, FS_Subset DEF IInv, TypeOK
  <2>2. InWorker \subseteq wave
    BY DEF IInv, ThreadsOfWave, InWorker
  <2>3. Cardinality(InWorker) <= Cardinality(wave) /\ IsFiniteSet(InWorker)
    BY <2>1, <2>2, FS_Subset
  <2>4. Cardinality(InWorker) \in Nat /\ Cardinality(wave) \in Nat
    BY <2>1, <2>3, FS_CardinalityType
  <2> QED BY <2>3, <2>4, LimitAssumption DEF WaveBounded
<1> QED BY <1>1, <1>2, NextBounded, SchedulerInvariant, PTL DEF Spec

-----------------------------------------------------------------------------
(* Refinement *)

\* How a node is seen, when its outcome is or is not decided.
LEMMA SeenValues ==
    ASSUME IInv, NEW i \in Item
    PROVE  /\ outcome[i] # "none" => Seen[i] = outcome[i]
           /\ outcome[i] = "none" /\ thr[i] = "run" => Seen[i] = "running"
           /\ outcome[i] = "none" /\ thr[i] = "done" => Seen[i] = result[i]
           /\ outcome[i] = "none" /\ thr[i] \notin {"run", "done"} => Seen[i] = "waiting"
  BY DEF Seen

\* What Met and Running mean through the refinement mapping.
LEMMA MetInWave ==
    ASSUME IInv, NEW i \in wave
    PROVE  Dag!Met(i)
<1>1. i \in Item /\ Deps[i] \subseteq Completed
  BY DEF IInv, TypeOK, WaveReady
<1>2. ASSUME NEW d \in Deps[i], d \notin External PROVE Seen[d] = "COMPLETED"
  <2>1. d \in Item /\ outcome[d] = "COMPLETED"
    BY <1>1, <1>2 DEF Completed
  <2> QED BY <2>1 DEF Seen
<1> QED BY <1>2 DEF Dag!Met

\* A step of one thread changes how its own node is seen, and nothing else.
LEMMA SeenMoves ==
    ASSUME IInv, NEW i \in wave, NEW s, NEW k,
           thr' = [thr EXCEPT ![i] = s], result' = [result EXCEPT ![i] = k], outcome' = outcome
    PROVE  Dag!Set({i}, IF s = "run" THEN "running" ELSE IF s = "done" THEN k ELSE "waiting")
<1>1. i \in Item /\ outcome[i] = "none"
  BY DEF IInv, TypeOK, WaveReady
<1>2. thr'[i] = s /\ result'[i] = k
  BY <1>1 DEF IInv, TypeOK
<1>3. \A j \in Item \ {i} : thr'[j] = thr[j] /\ result'[j] = result[j]
  BY DEF IInv, TypeOK
<1>4. Seen' = [j \in Item |-> IF j \in {i}
                 THEN IF s = "run" THEN "running" ELSE IF s = "done" THEN k ELSE "waiting"
                 ELSE Seen[j]]
  BY <1>1, <1>2, <1>3 DEF Seen
<1> QED BY <1>4 DEF Dag!Set

\* The steps of a thread before its worker start the node or fail it.
LEMMA GateDag ==
    ASSUME IInv, NEW i \in Item, Gate(i)
    PROVE  Dag!Next
<1>1. thr[i] = "gate" /\ outcome' = outcome
  BY DEF Gate, GateCancelled, Acquire, Refused, Finish, Others
<1>2. i \in wave /\ outcome[i] = "none" /\ Seen[i] = "waiting"
  BY <1>1, SeenValues DEF IInv, ThreadsOfWave, WaveReady
<1>3. Dag!Met(i)
  BY <1>2, MetInWave
<1>4. CASE Acquire(i)
  <2>1. Dag!Set({i}, "running")
    <3>1. thr' = [thr EXCEPT ![i] = "run"] /\ result' = [result EXCEPT ![i] = result[i]]
      BY <1>4 DEF Acquire, IInv, TypeOK
    <3> QED BY <1>1, <1>2, <3>1, SeenMoves
  <2>2. Clash[i] \cap (Dag!Running \ {i}) = {}
    <3>1. Dag!Running \subseteq leases
      <4>1. ASSUME NEW j \in Item, Seen[j] = "running" PROVE j \in leases
        <5>1. outcome[j] \in Outcome \cup {"none"} /\ (thr[j] = "done" => result[j] \in Outcome)
          BY DEF IInv, TypeOK, ResultKnown
        <5>2. thr[j] = "run"
          BY <4>1, <5>1 DEF Seen, Outcome
        <5> QED BY <5>2 DEF IInv, LeaseWhileRunning
      <4> QED BY <4>1 DEF Dag!Running
    <3> QED BY <1>4, <3>1 DEF Acquire, Overlap
  <2> QED BY <1>2, <1>3, <2>1, <2>2 DEF Dag!Next, Dag!Start
<1>5. CASE GateCancelled(i) \/ Refused(i)
  <2>1. PICK k \in {"FAILED", "CONFLICT", "CANCELLED"} :
          thr' = [thr EXCEPT ![i] = "done"] /\ result' = [result EXCEPT ![i] = k]
    BY <1>5 DEF GateCancelled, Refused, Finish
  <2>2. Dag!Set({i}, k)
    BY <1>1, <1>2, <2>1, SeenMoves
  <2>3. Dag!Fail(i)
    BY <1>2, <1>3, <2>2 DEF Dag!Fail
  <2> QED BY <2>3 DEF Dag!Next
<1> QED BY <1>4, <1>5 DEF Gate

\* The end of a worker completes the node, fails it or gives it up.
LEMMA WorkerDag ==
    ASSUME IInv, NEW i \in Item, WorkerEnds(i)
    PROVE  Dag!Next
<1>1. thr[i] = "run" /\ outcome' = outcome
  BY DEF WorkerEnds, WorkerReturns, WorkerFails, WorkerLimited, WorkerBoundary, Finish, Others
<1>2. i \in wave /\ outcome[i] = "none" /\ Seen[i] = "running"
  BY <1>1, SeenValues DEF IInv, ThreadsOfWave, WaveReady
<1>3. Dag!Met(i)
  BY <1>2, MetInWave
<1>4. ASSUME NEW k \in {"FAILED", "CONFLICT", "CANCELLED"}, Finish(i, k) PROVE Dag!Next
  <2>1. Dag!Set({i}, k)
    BY <1>1, <1>2, <1>4, SeenMoves DEF Finish
  <2>2. Dag!Fail(i)
    BY <1>2, <1>3, <2>1 DEF Dag!Fail
  <2> QED BY <2>2 DEF Dag!Next
<1>5. ASSUME NEW s \in {"gate", "raised"}, thr' = [thr EXCEPT ![i] = s], result' = result
      PROVE  Dag!Next
  <2>1. result' = [result EXCEPT ![i] = result[i]]
    BY <1>5 DEF IInv, TypeOK
  <2>2. Dag!Set({i}, "waiting")
    BY <1>1, <1>2, <1>5, <2>1, SeenMoves
  <2> QED BY <1>2, <2>2 DEF Dag!Yield, Dag!Next
<1>6. CASE WorkerReturns(i)
  <2>1. Dag!Set({i}, "COMPLETED")
    BY <1>1, <1>2, <1>6, SeenMoves DEF WorkerReturns, Finish
  <2> QED BY <1>2, <2>1 DEF Dag!Complete, Dag!Next
<1>7. CASE WorkerFails(i)
  BY <1>4, <1>7 DEF WorkerFails
<1>8. CASE WorkerLimited(i)
  BY <1>4, <1>5, <1>8 DEF WorkerLimited
<1>9. CASE WorkerBoundary(i)
  BY <1>5, <1>9 DEF WorkerBoundary
<1> QED BY <1>6, <1>7, <1>8, <1>9 DEF WorkerEnds

\* The controller's steps block or cancel what waits, or are not seen.
LEMMA ControllerDag ==
    ASSUME IInv, Controller
    PROVE  Dag!Next \/ Seen' = Seen
<1>1. CASE LoopCancelled
  <2>1. /\ main = "loop" /\ thr' = thr /\ result' = result
        /\ outcome' = [i \in Item |-> IF i \in Pending THEN "CANCELLED" ELSE outcome[i]]
    BY <1>1 DEF LoopCancelled, threadVars
  <2>2. \A i \in Item : Seen[i] = "waiting" <=> i \in Pending
    <3>1. \A i \in Item : thr[i] = "idle" /\ outcome[i] \in Outcome \cup {"none"}
      BY <2>1, NoThreads DEF IInv, TypeOK
    <3> QED BY <3>1, SeenValues DEF Pending, Outcome
  <2>3. Seen' = [i \in Item |-> IF i \in Pending THEN "CANCELLED" ELSE Seen[i]]
    BY <2>1 DEF Seen, Pending
  <2>4. Dag!CancelRest
    BY <2>2, <2>3 DEF Dag!CancelRest, Dag!Set
  <2> QED BY <2>4 DEF Dag!Next
<1>2. CASE LoopBlock
  <2>1. /\ main = "loop" /\ thr' = thr /\ result' = result
        /\ outcome' = [i \in Item |-> IF i \in NewlyBlocked THEN "BLOCKED" ELSE outcome[i]]
    BY <1>2 DEF LoopBlock, threadVars
  <2>2. ASSUME NEW i \in NewlyBlocked PROVE i \in Item /\ Seen[i] = "waiting" /\ Dag!Doomed(i)
    <3>1. i \in Item /\ outcome[i] = "none" /\ thr[i] = "idle"
      BY <2>1, NoThreads DEF NewlyBlocked, Pending
    <3>2. PICK d \in Deps[i] : d \in Item /\ outcome[d] \notin {"none", "COMPLETED"}
      BY DEF NewlyBlocked, Failed
    <3>3. Seen[d] = outcome[d] /\ outcome[d] \in Dag!Outcome \ {"COMPLETED"} /\ d \notin External
      BY <3>2, SeenValues, ExternalAssumption DEF IInv, TypeOK, Outcome, Dag!Outcome
    <3>4. Dag!Doomed(i)
      BY <3>2, <3>3 DEF Dag!Doomed
    <3> QED BY <3>1, <3>4, SeenValues
  <2>3. Seen' = [i \in Item |-> IF i \in NewlyBlocked THEN "BLOCKED" ELSE Seen[i]]
    BY <2>1 DEF Seen
  <2>4. Dag!Set(NewlyBlocked, "BLOCKED")
    BY <2>3 DEF Dag!Set
  <2>5. NewlyBlocked \in SUBSET {i \in Item : Seen[i] = "waiting" /\ Dag!Doomed(i)}
    BY <2>2
  <2>6. Dag!Block
    BY <2>4, <2>5 DEF Dag!Block
  <2> QED BY <2>6 DEF Dag!Next
<1>3. CASE LoopCycle \/ LoopReturn
  BY <1>3 DEF LoopCycle, LoopReturn, threadVars, Seen
<1>4. CASE StartWave
  <2>1. PICK W \in SUBSET Ready : thr' = [i \in Item |-> IF i \in W THEN "gate" ELSE thr[i]]
    BY <1>4 DEF StartWave
  <2>2. main = "loop" /\ outcome' = outcome /\ result' = result
    BY <1>4 DEF StartWave
  <2>3. \A i \in Item : thr[i] = "idle"
    BY <2>2, NoThreads
  <2> QED BY <2>1, <2>2, <2>3 DEF Seen
<1>5. CASE JoinWave
  <2>1. CASE \E i \in wave : thr[i] = "raised"
    BY <1>5, <2>1 DEF JoinWave, Seen
  <2>2. CASE ~\E i \in wave : thr[i] = "raised"
    <3>1. /\ outcome' = [i \in Item |-> IF i \in wave THEN result[i] ELSE outcome[i]]
          /\ thr' = [i \in Item |-> "idle"]
          /\ result' = [i \in Item |-> "none"]
          /\ \A i \in wave : thr[i] = "done"
      BY <1>5, <2>2 DEF JoinWave
    <3>2. ASSUME NEW i \in Item PROVE Seen'[i] = Seen[i]
      <4>1. CASE i \in wave
        <5>1. outcome[i] = "none" /\ thr[i] = "done" /\ result[i] # "none"
          BY <3>1, <4>1 DEF IInv, WaveReady, ResultKnown, Outcome
        <5> QED BY <3>1, <4>1, <5>1 DEF Seen
      <4>2. CASE i \notin wave
        <5>1. thr[i] = "idle"
          BY <4>2 DEF IInv, ThreadsOfWave
        <5> QED BY <3>1, <4>2, <5>1 DEF Seen
      <4> QED BY <4>1, <4>2
    <3> QED BY <3>2 DEF Seen
  <2> QED BY <2>1, <2>2
<1> QED BY <1>1, <1>2, <1>3, <1>4, <1>5 DEF Controller

\* Every step of the scheduler is a step of the abstract execution or is not seen.
LEMMA NextDag == IInv /\ [Next]_vars => [Dag!Next]_Seen
<1> SUFFICES ASSUME IInv, [Next]_vars PROVE Dag!Next \/ Seen' = Seen
  OBVIOUS
<1>1. CASE Control
  BY <1>1 DEF Control, Pause, Resume, Cancel, threadVars, Seen
<1>2. CASE Controller
  BY <1>2, ControllerDag
<1>3. CASE \E i \in Item : Gate(i) \/ WorkerEnds(i) \/ ModelCall(i)
  <2>1. ASSUME NEW i \in Item, ModelCall(i) PROVE Seen' = Seen
    BY <2>1 DEF ModelCall, Others, Seen
  <2> QED BY <1>3, <2>1, GateDag, WorkerDag
<1>4. CASE UNCHANGED vars
  BY <1>4 DEF vars, Seen
<1> QED BY <1>1, <1>2, <1>3, <1>4 DEF Next

\* The scheduler implements the abstract execution of the dependency graph: a
\* node runs only after its prerequisites completed, never beside an overlapping
\* writer, and its outcome never changes once decided.
THEOREM SchedulerImplementsDag == Spec => ImplementsDag
<1>1. Init => Dag!Init
  BY DEF Init, Dag!Init, Seen
<1> QED BY <1>1, NextDag, SchedulerInvariant, PTL DEF Spec, ImplementsDag, Dag!Spec

=============================================================================
