----------------------- MODULE SessionOwnershipProofs -----------------------
(***************************************************************************)
(* For every set of processes and sessions: a live process holds the lock  *)
(* of its home session, so without session switching one process at most   *)
(* controls a session, and a sidecar never outlives an orderly release.    *)
(***************************************************************************)
EXTENDS SessionOwnership, TLAPS

\* From the lock to the end of release, a live process holds its home's lock.
HoldsHome == \A p \in Proc : Alive(p) => home[p] \in Session /\ flock[home[p]] = p

\* A runtime is bound to a session; to the locked one if switching is unused.
BoundSession ==
    \A p \in Proc : pc[p] \in Controlling =>
        sess[p] \in Session /\ (~SessionSwitching => sess[p] = home[p])

\* The owner a sidecar names died, or lives on the session it describes.
SidecarOwner ==
    \A s \in Session :
        \/ sidecar[s] = NoFile
        \/ /\ sidecar[s].owner \in Proc
           /\ \/ pc[sidecar[s].owner] = "dead"
              \/ Alive(sidecar[s].owner) /\ home[sidecar[s].owner] = s

IInv == TypeOK /\ HoldsHome /\ BoundSession /\ SidecarOwner

\* The initial state satisfies the inductive invariant (cli.main not started).
LEMMA InitIInv == Init => IInv
  BY NoProcAssumption, NoSessionAssumption
  DEF Init, IInv, TypeOK, HoldsHome, BoundSession, SidecarOwner, Alive, Gone,
      Controlling, PCs, NoFile, NoLease

LeaseType == [worker : Proc \cup {NoProc}, state : {"none", "active", "boundary", "released"}]

FileType == [owner : Proc \cup {NoProc}, web : BOOLEAN]

\* Writing the lease (_update_execution_lease) keeps its type.
LEMMA SetLeaseType ==
    ASSUME TypeOK, NEW p \in Proc, NEW st \in {"none", "active", "boundary", "released"}, SetLease(p, st)
    PROVE  lease' \in [Session -> LeaseType]
  BY DEF TypeOK, SetLease, LeaseType

\* Closing a runtime keeps the type of the lease.
LEMMA CloseRuntimeType ==
    ASSUME TypeOK, NEW p \in Proc, CloseRuntime(p)
    PROVE  lease' \in [Session -> LeaseType]
<1>1. CASE lease[sess[p]].worker = p
  <2>1. SetLease(p, "released")
    BY <1>1 DEF CloseRuntime
  <2> QED BY <2>1, SetLeaseType
<1>2. CASE lease[sess[p]].worker # p
  BY <1>2 DEF CloseRuntime, TypeOK, LeaseType
<1> QED BY <1>1, <1>2

\* Writing the sidecar (_write_info), or failing to, keeps its type.
LEMMA WriteInfoType ==
    ASSUME TypeOK, NEW p \in Proc, NEW w \in BOOLEAN, WriteInfo(p, w)
    PROVE  sidecar' \in [Session -> FileType]
  BY DEF TypeOK, WriteInfo, FileType

\* Every step of the launcher, the runtime or the OS keeps the types.
LEMMA TypeStep == IInv /\ [Next]_vars => TypeOK'
<1> SUFFICES ASSUME IInv, [Next]_vars PROVE TypeOK'
  OBVIOUS
<1> USE DEF IInv, TypeOK, PCs, Gone, Controlling
<1>1. CASE UNCHANGED vars
  BY <1>1 DEF vars
<1>2. ASSUME NEW p \in Proc, NEW s \in Session, Acquire(p, s) \/ Attach(p, s) \/ SwitchSession(p, s)
      PROVE TypeOK'
  <2>1. CASE Acquire(p, s)
    BY <2>1 DEF Acquire
  <2>2. CASE Attach(p, s)
    BY <2>2 DEF Attach
  <2>3. CASE SwitchSession(p, s)
    BY <2>3, CloseRuntimeType DEF SwitchSession, LeaseType
  <2> QED BY <1>2, <2>1, <2>2, <2>3
<1>3. ASSUME NEW p \in Proc,
             FirstWriteInfo(p) \/ Heartbeat(p) \/ PublishEndpoint(p) \/ ReleaseMark(p)
      PROVE TypeOK'
  <2>1. \E w \in BOOLEAN : WriteInfo(p, w)
    BY <1>3 DEF FirstWriteInfo, Heartbeat, PublishEndpoint, ReleaseMark
  <2>2. sidecar' \in [Session -> [owner : Proc \cup {NoProc}, web : BOOLEAN]]
    BY <2>1, WriteInfoType DEF FileType
  <2> QED BY <1>3, <2>2 DEF FirstWriteInfo, Heartbeat, PublishEndpoint, ReleaseMark
<1>4. ASSUME NEW p \in Proc, ReleaseUnlock(p) \/ Crash(p)
      PROVE TypeOK'
  <2>1. CASE ReleaseUnlock(p)
    <3>1. sidecar' \in [Session -> [owner : Proc \cup {NoProc}, web : BOOLEAN]]
      BY <2>1 DEF ReleaseUnlock, NoFile
    <3> QED BY <2>1, <3>1 DEF ReleaseUnlock
  <2>2. CASE Crash(p)
    BY <2>2 DEF Crash
  <2> QED BY <1>4, <2>1, <2>2
<1>5. ASSUME NEW p \in Proc, OpenRuntime(p) \/ Recover(p) \/ Ready(p) \/ ClaimCheck(p)
      PROVE TypeOK'
  <2>1. CASE OpenRuntime(p)
    BY <2>1 DEF OpenRuntime
  <2>2. CASE Recover(p)
    BY <2>2 DEF Recover, RecoverInflight
  <2>3. CASE Ready(p) \/ ClaimCheck(p)
    BY <2>3 DEF Ready, ClaimCheck
  <2> QED BY <1>5, <2>1, <2>2, <2>3
<1>6. ASSUME NEW p \in Proc, ClaimWrite(p) \/ LeaseHeartbeat(p) \/ ReleaseLease(p) \/ Shutdown(p)
      PROVE TypeOK'
  <2>1. lease' \in [Session -> LeaseType]
    BY <1>6, SetLeaseType, CloseRuntimeType DEF ClaimWrite, LeaseHeartbeat, ReleaseLease, Shutdown
  <2> QED BY <1>6, <2>1 DEF ClaimWrite, LeaseHeartbeat, ReleaseLease, Shutdown, LeaseType
<1>7. ASSUME NEW p \in Proc, BeginAction(p) \/ CompleteAction(p)
      PROVE TypeOK'
  BY <1>7 DEF BeginAction, CompleteAction
<1> QED BY <1>1, <1>2, <1>3, <1>4, <1>5, <1>6, <1>7 DEF Next, Step

\* Every step keeps the lock with its live holder and the runtime on its session.
LEMMA HolderStep == IInv /\ [Next]_vars => HoldsHome' /\ BoundSession'
<1> SUFFICES ASSUME IInv, [Next]_vars PROVE HoldsHome' /\ BoundSession'
  OBVIOUS
<1>0. TypeOK /\ HoldsHome /\ BoundSession
  BY DEF IInv
<1> USE <1>0 DEF HoldsHome, BoundSession, Alive
<1>1. CASE UNCHANGED vars
  BY <1>1 DEF vars
<1>2. ASSUME NEW p \in Proc, NEW s \in Session, Acquire(p, s)
      PROVE HoldsHome' /\ BoundSession'
  BY <1>2, NoProcAssumption DEF Acquire, TryLock, TypeOK, Gone, Controlling
<1>3. ASSUME NEW p \in Proc, NEW s \in Session, Attach(p, s)
      PROVE HoldsHome' /\ BoundSession'
  BY <1>3 DEF Attach, TypeOK, Gone, Controlling
<1>4. ASSUME NEW p \in Proc, NEW s \in Session, SwitchSession(p, s)
      PROVE HoldsHome' /\ BoundSession'
  BY <1>4 DEF SwitchSession, TypeOK, Gone, Controlling
<1>5. ASSUME NEW p \in Proc, FirstWriteInfo(p)
      PROVE HoldsHome' /\ BoundSession'
  BY <1>5 DEF FirstWriteInfo, TypeOK, Gone, Controlling
<1>6. ASSUME NEW p \in Proc, ReleaseUnlock(p)
      PROVE HoldsHome' /\ BoundSession'
  BY <1>6 DEF ReleaseUnlock, TypeOK, Gone, Controlling
<1>7. ASSUME NEW p \in Proc, Crash(p)
      PROVE HoldsHome' /\ BoundSession'
  BY <1>7 DEF Crash, TypeOK, Gone, Controlling
<1>8. ASSUME NEW p \in Proc, Heartbeat(p) \/ PublishEndpoint(p) \/ ReleaseMark(p)
      PROVE HoldsHome' /\ BoundSession'
  <2>1. home' = home /\ sess' = sess /\ flock' = flock
    BY <1>8 DEF Heartbeat, PublishEndpoint, ReleaseMark
  <2>2. \A q \in Proc : /\ pc'[q] \notin Gone => pc[q] \notin Gone
                        /\ pc'[q] \in Controlling => pc[q] \in Controlling
    BY <1>8 DEF Heartbeat, PublishEndpoint, ReleaseMark, TypeOK, Gone, Controlling
  <2>3. HoldsHome'
    BY <2>1, <2>2 DEF Gone
  <2>4. BoundSession'
    BY <2>1, <2>2 DEF Controlling
  <2> QED BY <2>3, <2>4
<1>9. ASSUME NEW p \in Proc, OpenRuntime(p) \/ Recover(p) \/ Ready(p) \/ ClaimCheck(p)
      PROVE HoldsHome' /\ BoundSession'
  <2>1. home' = home /\ sess' = sess /\ flock' = flock
    BY <1>9 DEF OpenRuntime, Recover, Ready, ClaimCheck
  <2>2. \A q \in Proc : /\ pc'[q] \notin Gone => pc[q] \notin Gone
                        /\ pc'[q] \in Controlling => pc[q] \in Controlling
    BY <1>9 DEF OpenRuntime, Recover, Ready, ClaimCheck, TypeOK, Gone, Controlling
  <2>3. HoldsHome'
    BY <2>1, <2>2 DEF Gone
  <2>4. BoundSession'
    BY <2>1, <2>2 DEF Controlling
  <2> QED BY <2>3, <2>4
<1>10. ASSUME NEW p \in Proc, ClaimWrite(p) \/ LeaseHeartbeat(p) \/ ReleaseLease(p) \/ Shutdown(p)
      PROVE HoldsHome' /\ BoundSession'
  <2>1. home' = home /\ sess' = sess /\ flock' = flock
    BY <1>10 DEF ClaimWrite, LeaseHeartbeat, ReleaseLease, Shutdown
  <2>2. \A q \in Proc : /\ pc'[q] \notin Gone => pc[q] \notin Gone
                        /\ pc'[q] \in Controlling => pc[q] \in Controlling
    BY <1>10 DEF ClaimWrite, LeaseHeartbeat, ReleaseLease, Shutdown, TypeOK, Gone, Controlling
  <2>3. HoldsHome'
    BY <2>1, <2>2 DEF Gone
  <2>4. BoundSession'
    BY <2>1, <2>2 DEF Controlling
  <2> QED BY <2>3, <2>4
<1>11. ASSUME NEW p \in Proc, BeginAction(p) \/ CompleteAction(p)
      PROVE HoldsHome' /\ BoundSession'
  <2>1. home' = home /\ sess' = sess /\ flock' = flock
    BY <1>11 DEF BeginAction, CompleteAction
  <2>2. \A q \in Proc : /\ pc'[q] \notin Gone => pc[q] \notin Gone
                        /\ pc'[q] \in Controlling => pc[q] \in Controlling
    BY <1>11 DEF BeginAction, CompleteAction, TypeOK, Gone, Controlling
  <2>3. HoldsHome'
    BY <2>1, <2>2 DEF Gone
  <2>4. BoundSession'
    BY <2>1, <2>2 DEF Controlling
  <2> QED BY <2>3, <2>4
<1> QED
  BY <1>1, <1>2, <1>3, <1>4, <1>5, <1>6, <1>7, <1>8, <1>9, <1>10, <1>11 DEF Next, Step

\* Every step keeps sidecars pointing at live owners of the session or at dead ones.
LEMMA SidecarStep == IInv /\ [Next]_vars => SidecarOwner'
<1> SUFFICES ASSUME IInv, [Next]_vars, NEW s \in Session
             PROVE  \/ sidecar'[s] = NoFile
                    \/ /\ sidecar'[s].owner \in Proc
                       /\ \/ pc'[sidecar'[s].owner] = "dead"
                          \/ pc'[sidecar'[s].owner] \notin Gone /\ home'[sidecar'[s].owner] = s
  BY DEF SidecarOwner, Alive, NoFile
<1> DEFINE Good(x) == x = NoFile \/ (x.owner \in Proc /\ (pc'[x.owner] = "dead" \/ (pc'[x.owner] \notin Gone /\ home'[x.owner] = s)))
<1> SUFFICES Good(sidecar'[s])
  OBVIOUS
<1>0. /\ TypeOK
      /\ sidecar[s] = NoFile \/ (sidecar[s].owner \in Proc /\ (pc[sidecar[s].owner] = "dead" \/ (pc[sidecar[s].owner] \notin Gone /\ home[sidecar[s].owner] = s)))
  BY DEF IInv, SidecarOwner, Alive
<1>1. CASE UNCHANGED vars
  BY <1>0, <1>1 DEF vars
<1>2. ASSUME NEW p \in Proc, NEW t \in Session, Acquire(p, t) \/ Attach(p, t) \/ SwitchSession(p, t)
      PROVE Good(sidecar'[s])
  BY <1>0, <1>2 DEF Acquire, Attach, SwitchSession, TypeOK, Gone
<1>3. ASSUME NEW p \in Proc, FirstWriteInfo(p) \/ Heartbeat(p) \/ PublishEndpoint(p) \/ ReleaseMark(p)
      PROVE Good(sidecar'[s])
  <2>1. PICK w \in BOOLEAN : WriteInfo(p, w)
    BY <1>0, <1>3 DEF FirstWriteInfo, Heartbeat, PublishEndpoint, ReleaseMark, TypeOK
  <2>2. /\ home' = home /\ pc[p] \notin Gone /\ pc'[p] \notin Gone
        /\ \A q \in Proc : q # p => pc'[q] = pc[q]
    BY <1>0, <1>3 DEF FirstWriteInfo, Heartbeat, PublishEndpoint, ReleaseMark, TypeOK, Alive, Gone
  <2>3. CASE sidecar'[s] = sidecar[s]
    BY <1>0, <2>2, <2>3 DEF Gone
  <2>4. CASE sidecar'[s] # sidecar[s]
    <3>1. s = home[p] /\ sidecar'[s] = [owner |-> p, web |-> w]
      BY <1>0, <2>1, <2>4 DEF WriteInfo, TypeOK
    <3> QED BY <3>1, <2>2
  <2> QED BY <2>3, <2>4
<1>4. ASSUME NEW p \in Proc, ReleaseUnlock(p)
      PROVE Good(sidecar'[s])
  <2>1. pc[p] = "unlinking" /\ home' = home /\ \A q \in Proc : q # p => pc'[q] = pc[q]
    BY <1>0, <1>4 DEF ReleaseUnlock, TypeOK
  <2>2. CASE s = home[p] /\ sidecar[s].owner = p
    BY <1>0, <1>4, <2>2 DEF ReleaseUnlock, TypeOK
  <2>3. CASE ~(s = home[p] /\ sidecar[s].owner = p)
    <3>1. sidecar'[s] = sidecar[s]
      BY <1>0, <1>4, <2>3 DEF ReleaseUnlock, TypeOK
    <3> QED BY <1>0, <2>1, <2>3, <3>1 DEF Gone
  <2> QED BY <2>2, <2>3
<1>5. ASSUME NEW p \in Proc, Crash(p)
      PROVE Good(sidecar'[s])
  BY <1>0, <1>5 DEF Crash, TypeOK
<1>6. ASSUME NEW p \in Proc,
             \/ OpenRuntime(p) \/ Recover(p) \/ Ready(p) \/ ClaimCheck(p)
             \/ ClaimWrite(p) \/ LeaseHeartbeat(p) \/ ReleaseLease(p) \/ Shutdown(p)
             \/ BeginAction(p) \/ CompleteAction(p)
      PROVE Good(sidecar'[s])
  <2>1. /\ home' = home /\ sidecar' = sidecar
        /\ \A q \in Proc : pc[q] \in Gone => pc'[q] = pc[q]
        /\ \A q \in Proc : pc[q] \notin Gone => pc'[q] \notin Gone
    BY <1>0, <1>6 DEF OpenRuntime, Recover, Ready, ClaimCheck, ClaimWrite, LeaseHeartbeat,
                      ReleaseLease, Shutdown, BeginAction, CompleteAction, TypeOK, Gone
  <2> QED BY <1>0, <2>1 DEF Gone
<1> QED BY <1>1, <1>2, <1>3, <1>4, <1>5, <1>6 DEF Next, Step

\* The inductive invariant holds in every reachable state.
THEOREM Inductive == Spec => []IInv
<1>1. IInv /\ [Next]_vars => IInv'
  BY TypeStep, HolderStep, SidecarStep DEF IInv
<1> QED BY InitIInv, <1>1, PTL DEF Spec

\* Type correctness for any number of processes and sessions.
THEOREM TypeCorrect == Spec => []TypeOK
<1>1. IInv => TypeOK
  BY DEF IInv
<1> QED BY Inductive, <1>1, PTL

\* Without the switch-session command, the OS lock taken by
\* SessionOwnerLease.acquire admits one controlling runtime per session,
\* whatever crashes and restarts happen.
THEOREM OneController == ~SessionSwitching /\ Spec => []OneControllerPerSession
<1> SUFFICES ASSUME ~SessionSwitching PROVE Spec => []OneControllerPerSession
  OBVIOUS
<1>1. IInv => OneControllerPerSession
  BY DEF IInv, HoldsHome, BoundSession, OneControllerPerSession, Alive, Gone, Controlling
<1> QED BY Inductive, <1>1, PTL

\* An orderly release never leaves its sidecar behind, with or without the
\* switch-session command (SessionOwnerLease.release).
THEOREM SidecarCorrect == Spec => []SidecarHonest
<1>1. IInv => SidecarHonest
  BY DEF IInv, HoldsHome, SidecarOwner, SidecarHonest, Alive
<1> QED BY Inductive, <1>1, PTL

-----------------------------------------------------------------------------
(* What recovery does to the action journal *)

\* The lock of a session has one holder: two live launchers that locked the
\* same session are the same process (SessionOwnerLease.acquire).
LEMMA OneLiveHolder ==
  ASSUME IInv, NEW p \in Proc, NEW q \in Proc, Alive(p), Alive(q), home[p] = home[q]
  PROVE  p = q
  BY DEF IInv, HoldsHome

\* The row of an action changes in three places only: recovery at startup, the
\* start of the action and its completion by the process that carries it out.
LEMMA ActionWriters ==
  ASSUME TypeOK, [Next]_vars, NEW p \in Proc, action'[p] # action[p]
  PROVE  \/ pc[p] = "exec" /\ pc'[p] = "acting" /\ action'[p] = "running"
         \/ pc[p] = "acting" /\ pc'[p] = "exec" /\ action'[p] = "completed"
         \/ /\ action[p] = "running" /\ action'[p] = "uncertain"
            /\ \E q \in Proc : pc[q] = "recovering" /\ ~foreign[q]
<1>1. ASSUME NEW q \in Proc, Recover(q)
      PROVE  action[p] = "running" /\ action'[p] = "uncertain" /\ pc[q] = "recovering" /\ ~foreign[q]
  BY <1>1 DEF Recover, RecoverInflight, TypeOK
<1>2. ASSUME NEW q \in Proc, BeginAction(q)
      PROVE  pc[p] = "exec" /\ pc'[p] = "acting" /\ action'[p] = "running"
  BY <1>2 DEF BeginAction, TypeOK
<1>3. ASSUME NEW q \in Proc, CompleteAction(q)
      PROVE  pc[p] = "acting" /\ pc'[p] = "exec" /\ action'[p] = "completed"
  BY <1>3 DEF CompleteAction, TypeOK
<1>4. ASSUME NEW q \in Proc,
             \/ FirstWriteInfo(q) \/ Heartbeat(q) \/ PublishEndpoint(q) \/ ReleaseMark(q)
             \/ ReleaseUnlock(q) \/ Crash(q) \/ OpenRuntime(q) \/ Ready(q) \/ ClaimCheck(q)
             \/ ClaimWrite(q) \/ LeaseHeartbeat(q) \/ ReleaseLease(q) \/ Shutdown(q)
             \/ \E s \in Session : Acquire(q, s) \/ Attach(q, s) \/ SwitchSession(q, s)
      PROVE  action' = action
  BY <1>4 DEF FirstWriteInfo, Heartbeat, PublishEndpoint, ReleaseMark, ReleaseUnlock, Crash,
              OpenRuntime, Ready, ClaimCheck, ClaimWrite, LeaseHeartbeat, ReleaseLease, Shutdown,
              Acquire, Attach, SwitchSession
<1>5. PICK q \in Proc : Step(q)
  BY DEF Next, vars
<1> QED BY <1>1, <1>2, <1>3, <1>4, <1>5 DEF Step

\* A process enters an action only by starting it, so an action whose row is no
\* longer running was marked by a recovery while its process was carrying it out.
LEMMA EntersRunning ==
  ASSUME TypeOK, [Next]_vars, NEW p \in Proc, pc'[p] = "acting"
  PROVE  pc[p] = "acting" \/ action'[p] = "running"
<1>1. ASSUME NEW q \in Proc, BeginAction(q)
      PROVE  pc[p] = "acting" \/ action'[p] = "running"
  BY <1>1 DEF BeginAction, TypeOK
<1>2. ASSUME NEW q \in Proc,
             \/ FirstWriteInfo(q) \/ Heartbeat(q) \/ PublishEndpoint(q) \/ ReleaseMark(q)
             \/ ReleaseUnlock(q) \/ Crash(q) \/ OpenRuntime(q) \/ Ready(q) \/ ClaimCheck(q)
             \/ ClaimWrite(q) \/ LeaseHeartbeat(q) \/ ReleaseLease(q) \/ Shutdown(q)
             \/ CompleteAction(q) \/ Recover(q)
             \/ \E s \in Session : Acquire(q, s) \/ Attach(q, s) \/ SwitchSession(q, s)
      PROVE  pc[p] = "acting"
  BY <1>2 DEF FirstWriteInfo, Heartbeat, PublishEndpoint, ReleaseMark, ReleaseUnlock, Crash,
              OpenRuntime, Ready, ClaimCheck, ClaimWrite, LeaseHeartbeat, ReleaseLease, Shutdown,
              CompleteAction, Recover, Acquire, Attach, SwitchSession, TypeOK
<1>3. CASE UNCHANGED vars
  BY <1>3 DEF vars
<1> QED BY <1>1, <1>2, <1>3 DEF Next, Step

\* The workspace has one session.
OneSession == \A s, t \in Session : s = t

\* In a workspace with one session, recovery never marks work a live process
\* is carrying out: whoever recovers holds the only lock, so it is alone
\* (StateStore.recover_inflight under SessionOwnerLease.acquire).  Session
\* switching has nowhere to switch to, so it need not be excluded.
THEOREM LiveWorkSafe == OneSession /\ Spec => []LiveWorkNotRecovered
<1> SUFFICES ASSUME OneSession PROVE Spec => []LiveWorkNotRecovered
  OBVIOUS
<1>1. Init => LiveWorkNotRecovered
  BY DEF Init, LiveWorkNotRecovered
<1>2. IInv /\ LiveWorkNotRecovered /\ [Next]_vars => LiveWorkNotRecovered'
  <2> SUFFICES ASSUME IInv, LiveWorkNotRecovered, [Next]_vars, NEW p \in Proc, pc'[p] = "acting"
               PROVE  action'[p] = "running"
    BY DEF LiveWorkNotRecovered
  <2>1. TypeOK
    BY DEF IInv
  <2>2. CASE pc[p] # "acting"
    BY <2>1, <2>2, EntersRunning
  <2>3. CASE pc[p] = "acting"
    <3>1. action[p] = "running"
      BY <2>3 DEF LiveWorkNotRecovered
    <3>2. ASSUME NEW q \in Proc, pc[q] = "recovering" PROVE FALSE
      <4>1. Alive(p) /\ Alive(q)
        BY <2>3, <3>2 DEF Alive, Gone
      <4>2. home[p] = home[q]
        BY <4>1 DEF IInv, HoldsHome, OneSession
      <4> QED BY <2>3, <3>2, <4>1, <4>2, OneLiveHolder
    <3> QED BY <2>1, <2>3, <3>1, <3>2, ActionWriters
  <2> QED BY <2>2, <2>3
<1> QED BY Inductive, <1>1, <1>2, PTL DEF Spec

\* Live work is misjudged only across the locks of two sessions: the one
\* interleaving behind the live action that recover_inflight marks uncertain.
THEOREM LiveWorkRaceNeedsTwoHomes == Spec => RecoveredByOtherHome
<1> DEFINE Other == \A p \in Proc :
        pc[p] = "acting" /\ action[p] = "running" /\ action'[p] = "uncertain" =>
            \E q \in Proc :
                /\ pc[q] = "recovering" /\ ~foreign[q]
                /\ home[q] \in Session /\ home[q] # home[p]
<1>1. IInv /\ [Next]_vars => [Other]_vars
  <2> SUFFICES ASSUME IInv, [Next]_vars, NEW p \in Proc,
                      pc[p] = "acting", action[p] = "running", action'[p] = "uncertain"
               PROVE  \E q \in Proc :
                          /\ pc[q] = "recovering" /\ ~foreign[q]
                          /\ home[q] \in Session /\ home[q] # home[p]
    OBVIOUS
  <2>1. PICK q \in Proc : pc[q] = "recovering" /\ ~foreign[q]
    BY ActionWriters DEF IInv
  <2>2. Alive(p) /\ Alive(q)
    BY <2>1 DEF Alive, Gone
  <2>3. home[q] \in Session
    BY <2>2 DEF IInv, HoldsHome
  <2>4. home[q] # home[p]
    BY <2>1, <2>2, OneLiveHolder
  <2> QED BY <2>1, <2>3, <2>4
<1> QED BY Inductive, <1>1, PTL DEF Spec, RecoveredByOtherHome

-----------------------------------------------------------------------------
(* Recovery comes before work *)

\* An active lease was written by a process that locked its session.
LeasePlaced ==
    \A s \in Session : lease[s].state = "active" =>
        /\ lease[s].worker \in Proc
        /\ pc[lease[s].worker] # "new"
        /\ home[lease[s].worker] = s

\* No start-up was taken for that of a second runtime.
NeverForeign == \A p \in Proc : ~foreign[p]

\* A process locks one session for its life (SessionOwnerLease.acquire).
LEMMA HomeKept ==
  ASSUME TypeOK, [Next]_vars, NEW p \in Proc
  PROVE  IF pc[p] = "new" THEN pc'[p] \in {"new", "locked", "done"}
                          ELSE pc'[p] # "new" /\ home'[p] = home[p]
<1>1. ASSUME NEW q \in Proc, NEW s \in Session, Acquire(q, s) \/ Attach(q, s)
      PROVE  IF pc[p] = "new" THEN pc'[p] \in {"new", "locked", "done"}
                              ELSE pc'[p] # "new" /\ home'[p] = home[p]
  BY <1>1 DEF Acquire, Attach, TypeOK
<1>2. ASSUME NEW q \in Proc,
             \/ FirstWriteInfo(q) \/ Heartbeat(q) \/ PublishEndpoint(q) \/ ReleaseMark(q)
             \/ ReleaseUnlock(q) \/ Crash(q) \/ OpenRuntime(q) \/ Ready(q) \/ ClaimCheck(q)
             \/ ClaimWrite(q) \/ LeaseHeartbeat(q) \/ ReleaseLease(q) \/ Shutdown(q)
             \/ BeginAction(q) \/ CompleteAction(q) \/ Recover(q)
             \/ \E s \in Session : SwitchSession(q, s)
      PROVE  /\ home' = home
             /\ pc[p] = "new" => pc'[p] = "new"
             /\ pc[p] # "new" => pc'[p] # "new"
  BY <1>2 DEF FirstWriteInfo, Heartbeat, PublishEndpoint, ReleaseMark, ReleaseUnlock, Crash, Alive,
              Gone, OpenRuntime, Ready, ClaimCheck, ClaimWrite, LeaseHeartbeat, ReleaseLease,
              Shutdown, BeginAction, CompleteAction, Recover, SwitchSession, TypeOK
<1>3. CASE UNCHANGED vars
  BY <1>3 DEF vars
<1> QED BY <1>1, <1>2, <1>3 DEF Next, Step

\* Only the process that controls a session makes its lease active
\* (_claim_execution_lease and its heartbeat).
LEMMA LeaseWriters ==
  ASSUME TypeOK, [Next]_vars, NEW s \in Session, lease'[s].state = "active", lease'[s] # lease[s]
  PROVE  \E p \in Proc : /\ pc[p] \in Controlling /\ sess[p] = s
                         /\ lease'[s].worker = p
<1>1. ASSUME NEW p \in Proc, ClaimWrite(p) \/ LeaseHeartbeat(p)
      PROVE  pc[p] \in Controlling /\ sess[p] = s /\ lease'[s].worker = p
  <2>1. SetLease(p, "active") /\ pc[p] \in Controlling
    BY <1>1 DEF ClaimWrite, LeaseHeartbeat, Controlling
  <2> QED BY <2>1 DEF SetLease, TypeOK
<1>2. ASSUME NEW p \in Proc, SetLease(p, "boundary") \/ SetLease(p, "released")
      PROVE  FALSE
  BY <1>2 DEF SetLease, TypeOK
<1>3. ASSUME NEW p \in Proc, ReleaseLease(p) \/ CloseRuntime(p) PROVE FALSE
  BY <1>2, <1>3 DEF ReleaseLease, CloseRuntime
<1>4. ASSUME NEW p \in Proc,
             \/ FirstWriteInfo(p) \/ Heartbeat(p) \/ PublishEndpoint(p) \/ ReleaseMark(p)
             \/ ReleaseUnlock(p) \/ Crash(p) \/ OpenRuntime(p) \/ Ready(p) \/ ClaimCheck(p)
             \/ BeginAction(p) \/ CompleteAction(p) \/ Recover(p)
             \/ \E t \in Session : Acquire(p, t) \/ Attach(p, t)
      PROVE  lease' = lease
  BY <1>4 DEF FirstWriteInfo, Heartbeat, PublishEndpoint, ReleaseMark, ReleaseUnlock, Crash,
              OpenRuntime, Ready, ClaimCheck, BeginAction, CompleteAction, Recover, Acquire, Attach
<1>5. PICK p \in Proc : Step(p)
  BY DEF Next, vars
<1>6. ASSUME NEW t \in Session, SwitchSession(p, t) \/ Shutdown(p) PROVE CloseRuntime(p)
  BY <1>6 DEF SwitchSession, Shutdown
<1> QED BY <1>1, <1>3, <1>4, <1>5, <1>6 DEF Step

\* Without session switching the worker of an active lease locked its session.
LEMMA LeasePlacedStep ==
  ASSUME ~SessionSwitching, IInv, LeasePlaced, [Next]_vars
  PROVE  LeasePlaced'
<1> SUFFICES ASSUME NEW s \in Session, lease'[s].state = "active"
             PROVE  /\ lease'[s].worker \in Proc
                    /\ pc'[lease'[s].worker] # "new"
                    /\ home'[lease'[s].worker] = s
  BY DEF LeasePlaced
<1>1. TypeOK
  BY DEF IInv
<1>2. CASE lease'[s] = lease[s]
  <2>1. /\ lease[s].worker \in Proc
        /\ pc[lease[s].worker] # "new"
        /\ home[lease[s].worker] = s
    BY <1>2 DEF LeasePlaced
  <2> QED BY <1>1, <1>2, <2>1, HomeKept
<1>3. CASE lease'[s] # lease[s]
  <2>1. PICK p \in Proc : pc[p] \in Controlling /\ sess[p] = s /\ lease'[s].worker = p
    BY <1>1, <1>3, LeaseWriters
  <2>2. pc[p] # "new" /\ home[p] = s
    BY <2>1 DEF IInv, BoundSession, Controlling
  <2> QED BY <1>1, <2>1, <2>2, HomeKept
<1> QED BY <1>2, <1>3

\* Whoever opens a runtime holds the lock of its session, so no active lease
\* there belongs to another live process (_live_foreign_execution_lease).
LEMMA NeverForeignStep ==
  ASSUME ~SessionSwitching, IInv, LeasePlaced, NeverForeign, [Next]_vars
  PROVE  NeverForeign'
<1>1. ASSUME NEW p \in Proc, OpenRuntime(p) PROVE NeverForeign'
  <2>1. pc[p] = "opening" /\ Alive(p) /\ sess[p] = home[p] /\ sess[p] \in Session
    BY <1>1 DEF OpenRuntime, IInv, BoundSession, Controlling, Alive, Gone
  <2>2. ~LiveForeign(p, sess[p])
    <3> SUFFICES ASSUME LiveForeign(p, sess[p]) PROVE FALSE
      OBVIOUS
    <3>1. /\ lease[sess[p]].worker \in Proc
          /\ home[lease[sess[p]].worker] = sess[p]
          /\ lease[sess[p]].worker # p
          /\ Alive(lease[sess[p]].worker)
      BY <2>1 DEF LiveForeign, LeasePlaced
    <3> QED BY <2>1, <3>1, OneLiveHolder
  <2>3. foreign' = [foreign EXCEPT ![p] = FALSE]
    <3>1. (row[sess[p]] /\ LiveForeign(p, sess[p])) = FALSE
      BY <2>2
    <3>2. foreign' = [foreign EXCEPT ![p] = row[sess[p]] /\ LiveForeign(p, sess[p])]
      BY <1>1 DEF OpenRuntime
    <3> QED BY <3>1, <3>2
  <2> QED BY <2>3 DEF NeverForeign, IInv, TypeOK
<1>2. ASSUME NEW p \in Proc,
             \/ FirstWriteInfo(p) \/ Heartbeat(p) \/ PublishEndpoint(p) \/ ReleaseMark(p)
             \/ ReleaseUnlock(p) \/ Crash(p) \/ Ready(p) \/ ClaimCheck(p)
             \/ ClaimWrite(p) \/ LeaseHeartbeat(p) \/ ReleaseLease(p) \/ Shutdown(p)
             \/ BeginAction(p) \/ CompleteAction(p) \/ Recover(p)
             \/ \E t \in Session : Acquire(p, t) \/ Attach(p, t) \/ SwitchSession(p, t)
      PROVE  foreign' = foreign
  BY <1>2 DEF FirstWriteInfo, Heartbeat, PublishEndpoint, ReleaseMark, ReleaseUnlock, Crash, Ready,
              ClaimCheck, ClaimWrite, LeaseHeartbeat, ReleaseLease, Shutdown, BeginAction,
              CompleteAction, Recover, Acquire, Attach, SwitchSession
<1>3. CASE UNCHANGED vars
  BY <1>3 DEF vars, NeverForeign
<1>4. CASE foreign' = foreign
  BY <1>4 DEF NeverForeign
<1> QED BY <1>1, <1>2, <1>3, <1>4 DEF Next, Step

\* Start-up ends with a recovery (AgentRuntime.__init__).
LEMMA EntersStarted ==
  ASSUME TypeOK, [Next]_vars, NEW p \in Proc, pc[p] \notin Started, pc'[p] \in Started, ~foreign[p]
  PROVE  \A q \in Proc : action'[q] # "running"
<1>1. CASE Recover(p)
  BY <1>1 DEF Recover, RecoverInflight
<1>2. ASSUME NEW q \in Proc, q # p, Step(q) PROVE pc'[p] = pc[p]
  BY <1>2 DEF Step, FirstWriteInfo, Heartbeat, PublishEndpoint, ReleaseMark, ReleaseUnlock, Crash,
              OpenRuntime, Recover, Ready, ClaimCheck, ClaimWrite, LeaseHeartbeat, ReleaseLease,
              Shutdown, BeginAction, CompleteAction, Acquire, Attach, SwitchSession, TypeOK
<1>3. ASSUME \/ FirstWriteInfo(p) \/ Heartbeat(p) \/ PublishEndpoint(p) \/ ReleaseMark(p)
             \/ ReleaseUnlock(p) \/ Crash(p) \/ OpenRuntime(p) \/ Ready(p) \/ ClaimCheck(p)
             \/ ClaimWrite(p) \/ LeaseHeartbeat(p) \/ ReleaseLease(p) \/ Shutdown(p)
             \/ BeginAction(p) \/ CompleteAction(p)
             \/ \E t \in Session : Acquire(p, t) \/ Attach(p, t) \/ SwitchSession(p, t)
      PROVE  FALSE
  BY <1>3 DEF FirstWriteInfo, Heartbeat, PublishEndpoint, ReleaseMark, ReleaseUnlock, Crash,
              OpenRuntime, Ready, ClaimCheck, ClaimWrite, LeaseHeartbeat, ReleaseLease, Shutdown,
              BeginAction, CompleteAction, Acquire, Attach, SwitchSession, TypeOK, Started, Controlling
<1>4. PICK q \in Proc : Step(q)
  BY DEF Next, vars
<1> QED BY <1>1, <1>2, <1>3, <1>4 DEF Step

\* Only a crash ends a process without its release.
LEMMA Dies ==
  ASSUME TypeOK, [Next]_vars, NEW q \in Proc, pc[q] # "dead", pc'[q] = "dead"
  PROVE  Crash(q)
<1>1. ASSUME NEW p \in Proc, Crash(p) PROVE p = q
  BY <1>1 DEF Crash, TypeOK
<1>2. ASSUME NEW p \in Proc,
             \/ FirstWriteInfo(p) \/ Heartbeat(p) \/ PublishEndpoint(p) \/ ReleaseMark(p)
             \/ ReleaseUnlock(p) \/ OpenRuntime(p) \/ Ready(p) \/ ClaimCheck(p)
             \/ ClaimWrite(p) \/ LeaseHeartbeat(p) \/ ReleaseLease(p) \/ Shutdown(p)
             \/ BeginAction(p) \/ CompleteAction(p) \/ Recover(p)
             \/ \E t \in Session : Acquire(p, t) \/ Attach(p, t) \/ SwitchSession(p, t)
      PROVE  FALSE
  BY <1>2 DEF FirstWriteInfo, Heartbeat, PublishEndpoint, ReleaseMark, ReleaseUnlock, OpenRuntime,
              Ready, ClaimCheck, ClaimWrite, LeaseHeartbeat, ReleaseLease, Shutdown, BeginAction,
              CompleteAction, Recover, Acquire, Attach, SwitchSession, TypeOK
<1>3. PICK p \in Proc : Step(p)
  BY DEF Next, vars
<1> QED BY <1>1, <1>2, <1>3 DEF Step

\* Work starts only after what an earlier owner of the session left running has
\* been marked uncertain, for any number of launchers, sessions and crashes,
\* without session switching.  The lock keeps the lease check of the start-up
\* from taking a dead or released worker for a live one; no later crash leaves
\* more work in the same session, because its owner is the one that works.
THEOREM RecoveryBeforeWork == ~SessionSwitching /\ Spec => []RecoveredBeforeWork
<1> SUFFICES ASSUME ~SessionSwitching PROVE Spec => []RecoveredBeforeWork
  OBVIOUS
<1> DEFINE CInv == LeasePlaced /\ NeverForeign /\ RecoveredBeforeWork
<1>1. Init => CInv
  BY DEF Init, LeasePlaced, NeverForeign, RecoveredBeforeWork, NoLease, Started, Controlling
<1>2. IInv /\ RecoveredBeforeWork /\ NeverForeign /\ [Next]_vars => RecoveredBeforeWork'
  <2> SUFFICES ASSUME IInv, RecoveredBeforeWork, NeverForeign, [Next]_vars,
                      NEW p \in Proc, NEW q \in Proc,
                      pc'[p] \in Started, pc'[q] = "dead", home'[q] = home'[p]
               PROVE  action'[q] # "running"
    BY DEF RecoveredBeforeWork
  <2>1. TypeOK
    BY DEF IInv
  <2>2. pc[p] # "new" /\ pc[q] # "new" /\ home[q] = home[p]
    BY <2>1, HomeKept DEF Started, Controlling
  <2>3. CASE pc[p] \notin Started
    BY <2>1, <2>3, EntersStarted DEF NeverForeign
  <2>4. CASE pc[p] \in Started /\ pc[q] = "dead"
    <3>1. action[q] # "running"
      BY <2>2, <2>4 DEF RecoveredBeforeWork
    <3> QED BY <2>1, <2>4, <3>1, ActionWriters
  <2>5. CASE pc[p] \in Started /\ pc[q] # "dead"
    <3>1. Crash(q)
      BY <2>1, <2>5, Dies
    <3>2. Alive(q) /\ Alive(p)
      BY <2>5, <3>1 DEF Crash, Alive, Gone, Started, Controlling
    <3>3. p = q
      BY <2>2, <3>2, OneLiveHolder
    <3> QED BY <3>3 DEF Started, Controlling
  <2> QED BY <2>3, <2>4, <2>5
<1>3. IInv /\ CInv /\ [Next]_vars => CInv'
  BY <1>2, LeasePlacedStep, NeverForeignStep
<1> QED BY Inductive, <1>1, <1>3, PTL DEF Spec
=============================================================================
