------------------------------- MODULE UltraNode ------------------------------
(***************************************************************************)
(* The quality pipeline of one Ultra work node (UltraOrchestrator.         *)
(* _execute_node): a candidate is produced or kept, the harness gates and  *)
(* the reviewers judge it, a failed verdict is repaired by whoever owns it *)
(* (the test contract, the infrastructure, or the coder), and a candidate  *)
(* that passed is published.  An execution may be interrupted between any  *)
(* two steps and the node executed again, with what its last result        *)
(* package says.                                                           *)
(*                                                                         *)
(* The bytes of the candidate are abstracted to what the gates know of     *)
(* them; whoever is asked to write is taken to change them.                *)
(***************************************************************************)
EXTENDS QualityRound

CONSTANTS
    Shapes,   \* the kinds of node considered
    Finding,  \* what a failed gate complains of
    MaxFixes, \* UltraConfig.max_fix_attempts
    MaxRuns   \* bound on the executions of the node

\* Who owns a failed gate; the infrastructure is a tool or the environment.
Kind        == {"application", "contract", "infrastructure"}
Fingerprint == Kind \X Finding

ASSUME ShapesAssumption ==
    Shapes \subseteq [sort : {"leaf", "component", "parent"}, writes : BOOLEAN,
                      verifyOnly : BOOLEAN, enforced : BOOLEAN]
ASSUME NodeBoundsAssumption == MaxFixes \in Nat \ {0} /\ MaxRuns \in Nat

VARIABLES
    shape,    \* contract of the node and policy of the goal
    pc,       \* the next step of the execution, "idle" outside one
    loop,     \* the repair loop the execution is in
    repairs,  \* verification_repairs
    retries,  \* infrastructure_retries
    fixes,    \* fixes
    counts,   \* failure_counts
    asked,    \* reviewers that have answered
    gate,     \* the QualityGateResultV1 to act on
    status,   \* work_nodes.status
    prior,    \* what the saved result package asks of the next execution
    runs,     \* executions so far
    rev,      \* parity of the changes of the candidate's bytes
    clean,    \* the harness gates passed on the present bytes
    accepted, \* a sound gate passed on them ("exact") or on what they were published from
    owner     \* who owns the failure that was last found in the present bytes

loops  == <<loop, repairs, retries, fixes, counts>>
bytes  == <<rev, clean, accepted>>
saved  == <<status, prior>>
vars   == <<roundVars, shape, pc, loops, asked, gate, saved, runs, bytes, owner>>

NoGate == [passed |-> FALSE, kind |-> "application", finding |-> "none"]

Status == {"queued", "running", "revision_required", "failed", "completed"}

Step == {"candidate", "gates", "review", "propose", "vote", "collect", "judge", "publish",
         "validate", "memory"}

TypeOK ==
    /\ RoundTypeOK
    /\ shape \in Shapes
    /\ pc \in Step \cup {"idle"}
    /\ loop \in {"contract", "infrastructure", "fix"}
    /\ repairs \in 0 .. 2 /\ retries \in 0 .. 2 /\ fixes \in 0 .. MaxFixes
    /\ counts \in [Fingerprint -> 0 .. 2]
    /\ asked \in 0 .. Reviewers - 1
    /\ gate \in [passed : BOOLEAN, kind : Kind, finding : Finding] \cup {NoGate}
    /\ status \in Status
    /\ prior \in {"none", "verify", "implement"}
    /\ runs \in 0 .. MaxRuns
    /\ rev \in {0, 1} /\ clean \in BOOLEAN /\ accepted \in {"no", "exact", "derived"}
    /\ owner \in {"nobody", "product", "harness"}

Fresh == [f \in Fingerprint |-> 0]

Init ==
    /\ ballot = [r \in Reviewer |-> NoVote] /\ cast = {} /\ round = "none"
    /\ shape \in Shapes
    /\ pc = "idle" /\ asked = 0
    /\ loop = "contract" /\ repairs = 0 /\ retries = 0 /\ fixes = 0 /\ counts = Fresh
    /\ gate = NoGate
    /\ status = "queued" /\ prior = "none" /\ runs = 0
    /\ rev = 0 /\ clean = FALSE /\ accepted = "no"
    /\ owner = "nobody"

\* The execution is over: its local variables are gone.
Leave ==
    /\ pc' = "idle" /\ asked' = 0
    /\ loop' = "contract" /\ repairs' = 0 /\ retries' = 0 /\ fixes' = 0
    /\ counts' = Fresh
    /\ gate' = NoGate

-------------------------------------------------------------------------------
(* The candidate.                                                          *)

Mut_VerifyOnly == shape.verifyOnly

\* The contract, or the failure the last result package recorded, asks for
\* verification without a new mutation.
VerifyOnly == shape.verifyOnly \/ prior = "verify"

\* A model with write tools is invoked, or an accepted package written back.
Write(left) ==
    /\ rev' = 1 - rev
    /\ clean' = FALSE
    /\ accepted' = left
    /\ owner' = "nobody"

Execute ==
    /\ pc = "idle" /\ status # "completed" /\ runs < MaxRuns
    /\ pc' = "candidate" /\ status' = "running" /\ runs' = runs + 1
    /\ UNCHANGED <<roundVars, shape, loops, asked, gate, prior, bytes, owner>>

KeepCandidate ==
    /\ pc = "candidate"
    /\ VerifyOnly /\ shape.sort # "parent"
    /\ pc' = "gates"
    /\ UNCHANGED <<roundVars, shape, loops, asked, gate, saved, runs, bytes, owner>>

\* The coder implements, the integrator assembles a parent, or a package that
\* passed before is restored.
Produce ==
    /\ pc = "candidate"
    /\ ~VerifyOnly \/ shape.sort = "parent"
    /\ Write("no")
    /\ pc' = "gates"
    /\ UNCHANGED <<roundVars, shape, loops, asked, gate, saved, runs>>

-------------------------------------------------------------------------------
(* The gate: harness checks, then reviewers, then consensus.               *)

\* Some harness gate applies: materialization, artifacts, package consumption.
HasGate == shape.sort = "component" \/ shape.writes

HarnessPasses ==
    /\ pc = "gates"
    /\ clean' = TRUE
    /\ pc' = "review"
    /\ UNCHANGED <<roundVars, shape, loops, asked, gate, saved, runs, rev, accepted, owner>>

\* Nobody is asked about a candidate the harness rejects; the rejection names
\* no failure kind, so it is the candidate's.
HarnessFails ==
    /\ pc = "gates" /\ HasGate
    /\ \E f \in Finding : gate' = [passed |-> FALSE, kind |-> "application", finding |-> f]
    /\ clean' = FALSE /\ accepted' = "no" /\ owner' = "product"
    /\ pc' = "judge"
    /\ UNCHANGED <<roundVars, shape, loops, asked, saved, runs, rev>>

\* The specialists are invoked one after the other, each in a clean context.
Review ==
    /\ pc = "review"
    /\ \E a \in Answer : ballot' = [ballot EXCEPT ![asked + 1] = VoteOf(a, shape.enforced)]
    /\ \/ asked + 1 < Reviewers /\ asked' = asked + 1 /\ UNCHANGED pc
       \/ asked + 1 = Reviewers /\ asked' = 0 /\ pc' = "propose"
    /\ UNCHANGED <<cast, round, shape, loops, gate, saved, runs, bytes, owner>>

Propose ==
    /\ pc = "propose"
    /\ OpenRound
    /\ pc' = IF Voters = {} THEN "collect" ELSE "vote"
    /\ UNCHANGED <<shape, loops, asked, gate, saved, runs, bytes, owner>>

SubmitVote ==
    /\ pc = "vote"
    /\ \E r \in Reviewer : CastVote(r)
    /\ pc' = IF VotingOver(cast', round') THEN "collect" ELSE "vote"
    /\ UNCHANGED <<shape, loops, asked, gate, saved, runs, bytes, owner>>

Mut_GatePassed(veto, tests) == IF round = "none" THEN tests ELSE round = "accepted"

\* Failed evidence of the harness vetoes; then the consensus decides, or, when
\* nobody voted, the test and the harness's answers, which all passed.
GatePassed(veto, tests) ==
    ~veto /\ IF round = "none" THEN tests ELSE round = "accepted"

\* The owner of a failed gate, by the failure kinds its responses carry.
FailureKind(kinds) ==
    IF "application" \in kinds THEN "application"
    ELSE IF "contract" \in kinds THEN "contract"
    ELSE IF "infrastructure" \in kinds THEN "infrastructure"
    ELSE "application"

Collect ==
    /\ pc = "collect"
    /\ LET weighed == IF Decisive = {} THEN Voters = {} ELSE Outcome(Decisive) = "accepted" IN
       \E veto, tests \in BOOLEAN, kinds \in SUBSET Kind, f \in Finding :
        /\ gate' = [passed |-> GatePassed(veto, tests), kind |-> FailureKind(kinds), finding |-> f]
        /\ accepted' = IF weighed /\ ~veto /\ (Voters = {} => tests) THEN "exact" ELSE "no"
        /\ owner' = IF GatePassed(veto, tests) THEN "nobody"
                    ELSE IF kinds = {} \/ "application" \in kinds THEN "product" ELSE "harness"
    /\ ClearRound
    /\ pc' = "judge"
    /\ UNCHANGED <<shape, loops, asked, saved, runs, rev, clean>>

-------------------------------------------------------------------------------
(* What follows from the verdict.                                          *)

fingerprint == <<gate.kind, gate.finding>>

WantsRepair == loop = "contract" /\ gate.kind = "contract" /\ repairs < 2

WantsRetry ==
    loop # "fix" /\ ~WantsRepair /\ gate.kind = "infrastructure" /\ retries < 2

Mut_Exhausted == fixes = MaxFixes

\* The same failure survived two mutations, or the attempts are used up.
Exhausted == fixes = MaxFixes \/ counts[fingerprint] + 1 >= 3

WantsFix == ~WantsRepair /\ ~WantsRetry /\ gate.kind = "application" /\ ~Exhausted

\* The tester may replace its browser scenarios; a repair that changes nothing
\* or weakens them ends the loop.  The harness gates are not run again.
RepairContract ==
    /\ pc = "judge" /\ ~gate.passed /\ WantsRepair
    /\ \/ /\ pc' = "review" /\ repairs' = repairs + 1 /\ UNCHANGED loop
          /\ gate' = NoGate
       \/ /\ loop' = "infrastructure" /\ repairs' = 0 /\ UNCHANGED pc
          /\ UNCHANGED gate
    /\ UNCHANGED <<roundVars, shape, retries, fixes, counts, asked, saved, runs, bytes, owner>>

Mut_CountRetry == UNCHANGED retries

CountRetry == retries' = retries + 1

RetryInfrastructure ==
    /\ pc = "judge" /\ ~gate.passed /\ WantsRetry
    /\ loop' = "infrastructure" /\ repairs' = 0 /\ CountRetry
    /\ pc' = "review"
    /\ gate' = NoGate
    /\ UNCHANGED <<roundVars, shape, fixes, counts, asked, saved, runs, bytes, owner>>

Mut_AfterFix == "review"

\* Every gate is run again on the fixed candidate.
AfterFix == "gates"

Fix ==
    /\ pc = "judge" /\ ~gate.passed /\ WantsFix
    /\ loop' = "fix" /\ repairs' = 0 /\ retries' = 0
    /\ fixes' = fixes + 1
    /\ counts' = [counts EXCEPT ![fingerprint] = @ + 1]
    /\ Write("no")
    /\ pc' = AfterFix
    /\ gate' = NoGate
    /\ UNCHANGED <<roundVars, shape, asked, saved, runs>>

\* The harness writes the replan of a failure it owns; otherwise a planner does.
GiveUp ==
    /\ pc = "judge" /\ ~gate.passed /\ ~WantsRepair /\ ~WantsRetry /\ ~WantsFix
    /\ prior' \in IF gate.kind = "application" THEN {"verify", "implement"} ELSE {"verify"}
    /\ status' = "revision_required"
    /\ Leave
    /\ UNCHANGED <<roundVars, shape, runs, bytes, owner>>

\* A parent and a materialized component publish the candidate as it is.
Pass ==
    /\ pc = "judge" /\ gate.passed
    /\ pc' = IF shape.sort = "leaf" THEN "publish" ELSE "validate"
    /\ UNCHANGED <<roundVars, shape, loops, asked, gate, saved, runs, bytes, owner>>

\* The integrator of a leaf has write tools.
Publish ==
    /\ pc = "publish"
    /\ Write("derived")
    /\ pc' = "validate"
    /\ UNCHANGED <<roundVars, shape, loops, asked, gate, saved, runs>>

\* The publication gate validates the artifacts of a node that writes some.
Validate ==
    /\ pc = "validate"
    /\ clean' = (clean \/ shape.writes)
    /\ pc' = "memory"
    /\ UNCHANGED <<roundVars, shape, loops, asked, gate, saved, runs, rev, accepted, owner>>

RejectPublication ==
    /\ pc = "validate" /\ shape.writes
    /\ clean' = FALSE
    /\ status' = "revision_required" /\ prior' = "none"
    /\ Leave
    /\ UNCHANGED <<roundVars, shape, runs, rev, accepted, owner>>

\* Memory write-back, then the result package with the publisher's verdict.
Finish ==
    /\ pc = "memory"
    /\ status' \in {"completed", "failed"}
    /\ prior' = "none"
    /\ Leave
    /\ UNCHANGED <<roundVars, shape, runs, bytes, owner>>

\* An invocation raises, the run is cancelled, or the process dies: no result
\* package is saved, and who owned the last failure is forgotten.
Interrupt ==
    /\ pc # "idle"
    /\ owner' = "nobody"
    /\ ClearRound
    /\ Leave
    /\ UNCHANGED <<shape, saved, runs, bytes>>

Pipeline ==
    \/ KeepCandidate \/ Produce
    \/ HarnessPasses \/ HarnessFails \/ Review \/ Propose \/ SubmitVote \/ Collect
    \/ RepairContract \/ RetryInfrastructure \/ Fix \/ GiveUp
    \/ Pass \/ Publish \/ Validate \/ RejectPublication \/ Finish

Next == Execute \/ Pipeline \/ Interrupt

\* The worker thread of the node keeps running.
Spec == Init /\ [][Next]_vars /\ WF_vars(Pipeline)

-------------------------------------------------------------------------------

\* Bytes whose last failure belongs to the test contract, a tool or the
\* environment are not rewritten: neither by the fix loop of the execution that
\* met it, nor, after the result package is saved, by the next execution
\* (verification_only).  The integrator of a parent is invoked all the same.
MutationOwned ==
    [][rev' # rev /\ owner = "harness" => pc = "candidate" /\ shape.sort = "parent"]_vars

\* What a completed node leaves behind passed every harness gate that applies to
\* it, and a quality gate without veto whose confidences accept: on these very
\* bytes, or, for a leaf, on those its integrator started from.
CompletedWasAccepted ==
    status = "completed" =>
        /\ HasGate => clean
        /\ accepted = "exact" \/ (accepted = "derived" /\ shape.sort = "leaf")

\* While reviewers judge a candidate, the harness evidence they are given (and
\* that the repair loops reuse without running the gates again) is about the
\* bytes as they are.
EvidenceIsCurrent == pc \in {"review", "propose", "vote", "collect"} /\ HasGate => clean

\* An execution ends: every repair loop is bounded.
NodeEnds == pc # "idle" ~> pc = "idle"

===============================================================================
