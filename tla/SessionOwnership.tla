-------------------------- MODULE SessionOwnership --------------------------
(***************************************************************************)
(* Who controls a durable session.  A launcher takes an OS lock on its     *)
(* session (session_owner.py), describes itself in a sidecar file, builds  *)
(* an AgentRuntime on the workspace's shared SQLite store, recovers the    *)
(* work a crashed process left behind, and executes actions under the      *)
(* cooperative execution lease kept in the session row (runtime.py).       *)
(*                                                                         *)
(* A member of Proc is one process incarnation: it is launched once and a  *)
(* restart is another member.  All processes share one host, so process    *)
(* liveness decides whether a lease is live and the expiry is not needed.  *)
(***************************************************************************)
EXTENDS Naturals

CONSTANTS
    Proc,            \* process incarnations
    Session,         \* durable sessions of one workspace
    NoProc,          \* no lock holder / no lease worker
    NoSession,       \* the process has not chosen a session
    SessionSwitching \* whether the interactive "switch session" command is used

ASSUME NoProcAssumption == NoProc \notin Proc
ASSUME NoSessionAssumption == NoSession \notin Session
ASSUME SwitchingAssumption == SessionSwitching \in BOOLEAN

VARIABLES
    pc,       \* where each process is in cli.main
    home,     \* the session whose owner lock the process took
    sess,     \* the session its AgentRuntime is bound to
    flock,    \* the OS lock of each session
    web,      \* whether the in-memory owner info carries the Web endpoint
    sidecar,  \* the owner description file of each session
    row,      \* whether the session's workflow_sessions row exists
    lease,    \* the execution lease inside that row
    foreign,  \* AgentRuntime._foreign_execution_owner_live
    action,   \* status of the process's latest row of the action journal
    target    \* the owner whose endpoint a refused launcher was shown

vars == <<pc, home, sess, flock, web, sidecar, row, lease, foreign, action, target>>

\* Positions after which the process holds no lock and no runtime.
Gone == {"new", "done", "dead"}

\* The runtime exists (or is being built) on sess[p].
Controlling == {"opening", "recovering", "recovered", "idle", "claiming", "exec", "acting"}

\* The runtime's start-up is over.
Started == Controlling \ {"opening", "recovering"}

PCs == Gone \cup Controlling \cup {"locked", "releasing", "unlinking"}

NoFile == [owner |-> NoProc, web |-> FALSE]

NoLease == [worker |-> NoProc, state |-> "none"]

Alive(p) == pc[p] \notin Gone

TypeOK ==
    /\ pc \in [Proc -> PCs]
    /\ home \in [Proc -> Session \cup {NoSession}]
    /\ sess \in [Proc -> Session \cup {NoSession}]
    /\ flock \in [Session -> Proc \cup {NoProc}]
    /\ web \in [Proc -> BOOLEAN]
    /\ sidecar \in [Session -> [owner : Proc \cup {NoProc}, web : BOOLEAN]]
    /\ row \in [Session -> BOOLEAN]
    /\ lease \in [Session -> [worker : Proc \cup {NoProc},
                              state : {"none", "active", "boundary", "released"}]]
    /\ foreign \in [Proc -> BOOLEAN]
    /\ action \in [Proc -> {"none", "running", "completed", "uncertain"}]
    /\ target \in [Proc -> Proc \cup {NoProc}]

Init ==
    /\ pc = [p \in Proc |-> "new"]
    /\ home = [p \in Proc |-> NoSession]
    /\ sess = [p \in Proc |-> NoSession]
    /\ flock = [s \in Session |-> NoProc]
    /\ web = [p \in Proc |-> FALSE]
    /\ sidecar = [s \in Session |-> NoFile]
    /\ row = [s \in Session |-> FALSE]
    /\ lease = [s \in Session |-> NoLease]
    /\ foreign = [p \in Proc |-> FALSE]
    /\ action = [p \in Proc |-> "none"]
    /\ target = [p \in Proc |-> NoProc]

-----------------------------------------------------------------------------
(* session_owner.py *)

\* Mutant of TryLock: the lock is taken without LOCK_NB failing.
Mut_TryLock(s) == flock[s] \in Proc \cup {NoProc}

TryLock(s) == flock[s] = NoProc

\* SessionOwnerLease.acquire succeeds: the lock is taken and the heartbeat
\* thread started before the sidecar is first written.
Acquire(p, s) ==
    /\ pc[p] = "new"
    /\ TryLock(s)
    /\ pc' = [pc EXCEPT ![p] = "locked"]
    /\ home' = [home EXCEPT ![p] = s]
    /\ flock' = [flock EXCEPT ![s] = p]
    /\ UNCHANGED <<sess, web, sidecar, row, lease, foreign, action, target>>

\* The lock is held elsewhere: main reads the sidecar, shows its endpoint when
\* it has one, and exits.
Attach(p, s) ==
    /\ pc[p] = "new"
    /\ ~TryLock(s)
    /\ pc' = [pc EXCEPT ![p] = "done"]
    /\ target' = [target EXCEPT ![p] = IF sidecar[s].web THEN sidecar[s].owner ELSE NoProc]
    /\ UNCHANGED <<home, sess, flock, web, sidecar, row, lease, foreign, action>>

\* _write_info: an atomic replace that is silently skipped on an OS error.
WriteInfo(p, w) ==
    \/ sidecar' = [sidecar EXCEPT ![home[p]] = [owner |-> p, web |-> w]]
    \/ UNCHANGED sidecar

\* The first write, then main goes on to build the runtime on that session.
FirstWriteInfo(p) ==
    /\ pc[p] = "locked"
    /\ WriteInfo(p, FALSE)
    /\ pc' = [pc EXCEPT ![p] = "opening"]
    /\ sess' = [sess EXCEPT ![p] = home[p]]
    /\ UNCHANGED <<home, flock, web, row, lease, foreign, action, target>>

\* One turn of _heartbeat_loop: nothing once released.
Heartbeat(p) ==
    /\ Alive(p)
    /\ pc[p] \notin {"unlinking"}
    /\ WriteInfo(p, web[p])
    /\ UNCHANGED <<pc, home, sess, flock, web, row, lease, foreign, action, target>>

\* set_web_endpoint, which main calls once its Web server listens.
PublishEndpoint(p) ==
    /\ pc[p] = "recovered"
    /\ ~web[p]
    /\ web' = [web EXCEPT ![p] = TRUE]
    /\ WriteInfo(p, TRUE)
    /\ pc' = [pc EXCEPT ![p] = "idle"]
    /\ UNCHANGED <<home, sess, flock, row, lease, foreign, action, target>>

\* release, first half: mark released and write the sidecar a last time.
ReleaseMark(p) ==
    /\ pc[p] = "releasing"
    /\ WriteInfo(p, web[p])
    /\ pc' = [pc EXCEPT ![p] = "unlinking"]
    /\ UNCHANGED <<home, sess, flock, web, row, lease, foreign, action, target>>

\* Mutant of ReleaseUnlock: the sidecar is not removed.
Mut_ReleaseUnlock(p) ==
    /\ pc[p] = "unlinking"
    /\ flock' = [flock EXCEPT ![home[p]] = NoProc]
    /\ pc' = [pc EXCEPT ![p] = "done"]
    /\ UNCHANGED <<home, sess, web, sidecar, row, lease, foreign, action, target>>

\* release, second half: remove the sidecar only if it is ours, then unlock
\* (the unlink itself is taken to succeed).
ReleaseUnlock(p) ==
    /\ pc[p] = "unlinking"
    /\ sidecar' = [sidecar EXCEPT ![home[p]] = IF @.owner = p THEN NoFile ELSE @]
    /\ flock' = [flock EXCEPT ![home[p]] = NoProc]
    /\ pc' = [pc EXCEPT ![p] = "done"]
    /\ UNCHANGED <<home, sess, web, row, lease, foreign, action, target>>

\* The process dies; the OS closes the descriptor that holds the lock.
Crash(p) ==
    /\ Alive(p)
    /\ pc' = [pc EXCEPT ![p] = "dead"]
    /\ flock' = [s \in Session |-> IF flock[s] = p THEN NoProc ELSE flock[s]]
    /\ UNCHANGED <<home, sess, web, sidecar, row, lease, foreign, action, target>>

-----------------------------------------------------------------------------
(* runtime.py: construction, recovery, execution lease *)

\* Mutant of LiveForeign: a crashed process's lease still counts.
Mut_LiveForeign(p, s) == lease[s].state = "active" /\ lease[s].worker # p

\* _live_foreign_execution_lease on one host: another worker's active lease
\* counts while its process lives, whatever its expiry.
LiveForeign(p, s) ==
    /\ lease[s].state = "active"
    /\ lease[s].worker # p
    /\ Alive(lease[s].worker)

\* AgentRuntime.__init__ reads the session row; a new row is created without
\* looking for a live owner.
OpenRuntime(p) ==
    /\ pc[p] = "opening"
    /\ foreign' = [foreign EXCEPT ![p] = row[sess[p]] /\ LiveForeign(p, sess[p])]
    /\ row' = [row EXCEPT ![sess[p]] = TRUE]
    /\ pc' = [pc EXCEPT ![p] = "recovering"]
    /\ UNCHANGED <<home, sess, flock, web, sidecar, lease, action, target>>

\* store.recover_inflight: every running action of the workspace, whichever
\* session it belongs to, becomes uncertain.
RecoverInflight ==
    action' = [q \in Proc |-> IF action[q] = "running" THEN "uncertain" ELSE action[q]]

Recover(p) ==
    /\ pc[p] = "recovering"
    /\ IF foreign[p] THEN UNCHANGED action ELSE RecoverInflight
    /\ pc' = [pc EXCEPT ![p] = "recovered"]
    /\ UNCHANGED <<home, sess, flock, web, sidecar, row, lease, foreign, target>>

\* After a session switch the Web endpoint is already published.
Ready(p) ==
    /\ pc[p] = "recovered"
    /\ web[p]
    /\ pc' = [pc EXCEPT ![p] = "idle"]
    /\ UNCHANGED <<home, sess, flock, web, sidecar, row, lease, foreign, action, target>>

SetLease(p, st) == lease' = [lease EXCEPT ![sess[p]] = [worker |-> p, state |-> st]]

\* _claim_execution_lease reads the lease in one transaction ...
ClaimCheck(p) ==
    /\ pc[p] = "idle"
    /\ ~LiveForeign(p, sess[p])
    /\ pc' = [pc EXCEPT ![p] = "claiming"]
    /\ UNCHANGED <<home, sess, flock, web, sidecar, row, lease, foreign, action, target>>

\* ... and writes it in the next one.
ClaimWrite(p) ==
    /\ pc[p] = "claiming"
    /\ SetLease(p, "active")
    /\ pc' = [pc EXCEPT ![p] = "exec"]
    /\ UNCHANGED <<home, sess, flock, web, sidecar, row, foreign, action, target>>

\* The heartbeat thread of continue_until_boundary rewrites the lease.
LeaseHeartbeat(p) ==
    /\ pc[p] \in {"exec", "acting"}
    /\ SetLease(p, "active")
    /\ UNCHANGED <<pc, home, sess, flock, web, sidecar, row, foreign, action, target>>

\* begin_action journals the action before its side effect happens.
BeginAction(p) ==
    /\ pc[p] = "exec"
    /\ action[p] # "uncertain"
    /\ action' = [action EXCEPT ![p] = "running"]
    /\ pc' = [pc EXCEPT ![p] = "acting"]
    /\ UNCHANGED <<home, sess, flock, web, sidecar, row, lease, foreign, target>>

\* complete_action refuses a row that is no longer running.
CompleteAction(p) ==
    /\ pc[p] = "acting"
    /\ action' = [action EXCEPT ![p] = IF @ = "running" THEN "completed" ELSE @]
    /\ pc' = [pc EXCEPT ![p] = "exec"]
    /\ UNCHANGED <<home, sess, flock, web, sidecar, row, lease, foreign, target>>

\* _release_execution_lease at a boundary overwrites whatever lease is there;
\* continue_until_boundary also runs it when the goal is not running and this
\* worker never claimed the lease.
ReleaseLease(p) ==
    /\ pc[p] \in {"idle", "exec"}
    /\ SetLease(p, "boundary")
    /\ pc' = [pc EXCEPT ![p] = "idle"]
    /\ UNCHANGED <<home, sess, flock, web, sidecar, row, foreign, action, target>>

\* AgentRuntime.close gives up only a lease this worker wrote.
CloseRuntime(p) ==
    IF lease[sess[p]].worker = p THEN SetLease(p, "released") ELSE UNCHANGED lease

\* cli.switch_session closes the runtime and builds one on another saved
\* session; the owner lock of that session is not taken.
SwitchSession(p, t) ==
    /\ SessionSwitching
    /\ pc[p] = "idle"
    /\ row[t]
    /\ CloseRuntime(p)
    /\ sess' = [sess EXCEPT ![p] = t]
    /\ pc' = [pc EXCEPT ![p] = "opening"]
    /\ UNCHANGED <<home, flock, web, sidecar, row, foreign, action, target>>

\* The finally clause of cli.main closes the runtime, then releases the lock.
Shutdown(p) ==
    /\ pc[p] = "idle"
    /\ CloseRuntime(p)
    /\ pc' = [pc EXCEPT ![p] = "releasing"]
    /\ UNCHANGED <<home, sess, flock, web, sidecar, row, foreign, action, target>>

-----------------------------------------------------------------------------

Step(p) ==
    \/ FirstWriteInfo(p) \/ Heartbeat(p) \/ PublishEndpoint(p)
    \/ ReleaseMark(p) \/ ReleaseUnlock(p) \/ Crash(p)
    \/ OpenRuntime(p) \/ Recover(p) \/ Ready(p)
    \/ ClaimCheck(p) \/ ClaimWrite(p) \/ LeaseHeartbeat(p) \/ ReleaseLease(p)
    \/ BeginAction(p) \/ CompleteAction(p) \/ Shutdown(p)
    \/ \E s \in Session : Acquire(p, s) \/ Attach(p, s) \/ SwitchSession(p, s)

Next == \E p \in Proc : Step(p)

Spec == Init /\ [][Next]_vars

-----------------------------------------------------------------------------
(* Properties *)

\* Two launchers never control the same session at the same time
\* (session_owner.py, module docstring): no two processes have a runtime on it.
OneControllerPerSession ==
    \A p, q \in Proc :
        pc[p] \in Controlling /\ pc[q] \in Controlling /\ sess[p] = sess[q] => p = q

\* Crash recovery marks only crash-window work: while a process lives, no
\* action it is carrying out is declared uncertain behind its back
\* (StateStore.recover_inflight).
LiveWorkNotRecovered ==
    \A p \in Proc : pc[p] = "acting" => action[p] = "running"

\* A sidecar names the current lock holder or a process that died without
\* releasing: an orderly release never leaves its endpoint behind for a later
\* launcher to attach to (SessionOwnerLease.release).
SidecarHonest ==
    \A s \in Session :
        \/ sidecar[s] = NoFile
        \/ sidecar[s].owner = flock[s]
        \/ pc[sidecar[s].owner] = "dead"

\* Start-up recovery comes before work: a runtime that finished its start-up
\* finds no action of an earlier owner of its session still marked running, for
\* whatever lease that owner left behind (AgentRuntime.__init__ skips
\* recover_inflight when it takes a lease for a live one).
RecoveredBeforeWork ==
    \A p, q \in Proc :
        pc[p] \in Started /\ pc[q] = "dead" /\ home[q] = home[p] => action[q] # "running"

\* The row of an action that is being carried out turns uncertain only when a
\* live process recovers that locked another session (recover_inflight selects
\* the whole workspace): launchers of one session, session switching included,
\* never take each other's work for the leavings of a crash.
RecoveredByOtherHome ==
    [][\A p \in Proc :
        pc[p] = "acting" /\ action[p] = "running" /\ action'[p] = "uncertain" =>
            \E q \in Proc :
                /\ pc[q] = "recovering" /\ ~foreign[q]
                /\ home[q] \in Session /\ home[q] # home[p]]_vars
=============================================================================
