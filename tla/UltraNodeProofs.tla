---------------------------- MODULE UltraNodeProofs ---------------------------
(***************************************************************************)
(* For every number of reviewers, every confidence scale, every kind of    *)
(* node and every bound on fixes and executions: a consensus round counts  *)
(* every decisive vote, reviewers are given current evidence, a failure    *)
(* that the harness owns rewrites nothing, and a completed node holds what *)
(* its gates accepted.                                                     *)
(***************************************************************************)
EXTENDS UltraNode, FiniteSetTheorems, TLAPS

(* A round exists only while it is voted on and collected; without one     *)
(* nobody votes.                                                           *)
RoundPlaced ==
  /\ round # "none" => pc \in {"vote", "collect"}
  /\ pc = "vote" => round # "none"
  /\ pc = "collect" /\ round = "none" => Voters = {}

(* What the verdict at hand says about the present bytes.                  *)
VerdictAtHand ==
  pc = "judge" =>
    /\ gate \in [passed : BOOLEAN, kind : Kind, finding : Finding]
    /\ gate.passed => accepted = "exact" /\ owner = "nobody"
    /\ HasGate => clean \/ (gate.kind = "application" /\ ~gate.passed)
    /\ owner = "harness" => gate.kind # "application"

(* A candidate on its way out is nobody's failure.                         *)
OnItsWay ==
  /\ pc \in {"publish", "validate", "memory"} => owner = "nobody"
  /\ pc = "publish" => shape.sort = "leaf" /\ accepted = "exact"
  /\ pc = "validate" =>
       \/ accepted = "exact" /\ (HasGate => clean)
       \/ accepted = "derived" /\ shape.sort = "leaf"
  /\ pc = "memory" =>
       /\ HasGate => clean
       /\ accepted = "exact" \/ (accepted = "derived" /\ shape.sort = "leaf")

(* Between executions the saved package remembers a harness-owned failure. *)
FailureRemembered == pc \in {"idle", "candidate"} /\ owner = "harness" => prior = "verify"

DoneIsIdle == status = "completed" => pc = "idle"

NodeInv ==
  /\ TypeOK /\ RoundPlaced /\ EveryVoteCounts /\ VerdictAtHand /\ EvidenceIsCurrent
  /\ OnItsWay /\ FailureRemembered /\ DoneIsIdle /\ CompletedWasAccepted

USE RoundAssumption, ShapesAssumption, NodeBoundsAssumption

(* A vote record is a vote.                                                *)
LEMMA VoteType ==
  ASSUME NEW a \in Answer, NEW e \in BOOLEAN
  PROVE  VoteOf(a, e) \in Vote
<1>1. NoVote \in Vote
  BY DEF NoVote, Vote, Verdict
<1>2. [verdict |-> "abstain", weight |-> 0] \in Vote
  BY DEF Vote, Verdict
<1>3. a.weight \in 0 .. MaxWeight
  BY DEF Answer
<1>4. [verdict |-> IF a.says = "fail" THEN "reject" ELSE "accept", weight |-> a.weight] \in Vote
  BY <1>3 DEF Vote, Verdict
<1> QED BY <1>1, <1>2, <1>4 DEF VoteOf

LEMMA OutcomeType == ASSUME NEW S PROVE Outcome(S) \in Closed
BY DEF Outcome, Closed

LEMMA ReviewersFinite == IsFiniteSet(Reviewer)
BY FS_Interval DEF Reviewer

(* A round that a vote closes has counted every decisive vote.             *)
LEMMA TallyCounts ==
  ASSUME NEW S, S \subseteq Reviewer, NEW v \in S, v \in Voters, Tally(S) # "open"
  PROVE  Decisive # {} /\ Decisive \subseteq S /\ Tally(S) = Outcome(Decisive)
<1>1. IsFiniteSet(Decisive) /\ IsFiniteSet(Voters) /\ IsFiniteSet(S \cap Decisive)
  <2>1. Decisive \subseteq Reviewer /\ Voters \subseteq Reviewer /\ S \cap Decisive \subseteq Reviewer
    BY DEF Decisive, Voters
  <2> QED BY <2>1, ReviewersFinite, FS_Subset
<1>2. /\ Cardinality(Decisive) \in Nat /\ Cardinality(Voters) \in Nat
      /\ Cardinality(S \cap Decisive) \in Nat
  BY <1>1, FS_CardinalityType
<1>3. ~(Cardinality(S \cap Decisive) < Quorum) /\ Tally(S) = Outcome(S \cap Decisive)
  BY DEF Tally
<1>4. Decisive # {}
  <2> SUFFICES ASSUME Decisive = {} PROVE FALSE
    OBVIOUS
  <2>1. Cardinality(S \cap Decisive) = 0
    <3>1. S \cap Decisive = {}
      OBVIOUS
    <3> QED BY <3>1, FS_EmptySet
  <2>2. Cardinality(Voters) # 0
    BY <1>1, FS_EmptySet
  <2> QED BY <2>1, <2>2, <1>2, <1>3 DEF Quorum
<1>5. S \cap Decisive = Decisive
  <2>1. Cardinality(S \cap Decisive) >= Cardinality(Decisive)
    BY <1>2, <1>3, <1>4 DEF Quorum
  <2>2. Cardinality(S \cap Decisive) <= Cardinality(Decisive)
        /\ (Cardinality(S \cap Decisive) = Cardinality(Decisive) => S \cap Decisive = Decisive)
    BY <1>1, FS_Subset
  <2> QED BY <2>1, <2>2, <1>2
<1> QED BY <1>3, <1>4, <1>5

LEMMA OutcomeFrame ==
  ASSUME ballot' = ballot
  PROVE  /\ Decisive' = Decisive /\ Voters' = Voters
         /\ Outcome(Decisive)' = Outcome(Decisive)
BY DEF Outcome, Score, Decisive, Voters

(* Every step keeps the types.                                            *)
LEMMA TypeStep ==
  ASSUME NodeInv, [Next]_vars
  PROVE  (TypeOK)'
<1>1. CASE Execute
  BY <1>1 DEF NodeInv, Execute, roundVars, loops, bytes, saved, TypeOK, RoundTypeOK,
      NoGate, Fresh, Step, Status
<1>2. CASE KeepCandidate
  BY <1>2 DEF NodeInv, KeepCandidate, roundVars, loops, bytes, saved, TypeOK,
      RoundTypeOK, NoGate, Fresh, Step, Status
<1>3. CASE Produce
  <2>1. rev' \in {0, 1}
    BY <1>3 DEF Produce, Write, NodeInv, TypeOK
  <2>2. clean' \in BOOLEAN /\ accepted' \in {"no", "exact", "derived"}
    BY <1>3 DEF Produce, Write
  <2> QED BY <1>3, <2>1, <2>2 DEF NodeInv, Produce, Write, TypeOK, RoundTypeOK, Step,
      roundVars, loops, bytes, saved
<1>4. CASE HarnessPasses
  BY <1>4 DEF NodeInv, HarnessPasses, roundVars, loops, bytes, saved, TypeOK,
      RoundTypeOK, NoGate, Fresh, Step, Status
<1>5. CASE HarnessFails
  <2>1. gate' \in [passed : BOOLEAN, kind : Kind, finding : Finding]
    BY <1>5 DEF HarnessFails, Kind
  <2>2. clean' \in BOOLEAN
    BY <1>5 DEF HarnessFails
  <2> QED BY <1>5, <2>1, <2>2 DEF NodeInv, HarnessFails, TypeOK, RoundTypeOK, Step,
      roundVars, loops, bytes, saved
<1>6. CASE Review
  <2>1. PICK a \in Answer : ballot' = [ballot EXCEPT ![asked + 1] = VoteOf(a, shape.enforced)]
    BY <1>6 DEF Review
  <2>2. shape.enforced \in BOOLEAN
    BY DEF NodeInv, TypeOK
  <2>3. ballot' \in [Reviewer -> Vote]
    BY <2>1, <2>2, VoteType DEF NodeInv, TypeOK, RoundTypeOK
  <2>4. asked' \in 0 .. Reviewers - 1
    BY <1>6 DEF Review, NodeInv, TypeOK
  <2> QED BY <1>6, <2>3, <2>4 DEF NodeInv, Review, TypeOK, RoundTypeOK, Step, roundVars,
      loops, bytes, saved
<1>7. CASE Propose
  BY <1>7 DEF NodeInv, Propose, OpenRound, roundVars, loops, bytes, saved, TypeOK,
      RoundTypeOK, NoGate, Fresh, Step, Status
<1>8. CASE SubmitVote
  <2>1. PICK r \in Reviewer : CastVote(r)
    BY <1>8 DEF SubmitVote
  <2>2. cast' \subseteq Reviewer
    BY <2>1 DEF CastVote, NodeInv, TypeOK, RoundTypeOK
  <2>3. round' \in Closed \cup {"none", "open"}
    BY <2>1, OutcomeType DEF CastVote, Tally
  <2>4. ballot' = ballot
    BY <2>1 DEF CastVote
  <2> QED BY <1>8, <2>2, <2>3, <2>4 DEF NodeInv, SubmitVote, TypeOK, RoundTypeOK,
      NoGate, Fresh, Step, Status, roundVars, loops, bytes, saved
<1>9. CASE Collect
  <2>1. ballot' \in [Reviewer -> Vote]
    <3>1. NoVote \in Vote
      BY DEF NoVote, Vote, Verdict
    <3> QED BY <1>9, <3>1 DEF Collect, ClearRound
  <2> QED BY <1>9, <2>1 DEF NodeInv, Collect, ClearRound, FailureKind, Kind, GatePassed,
      TypeOK, RoundTypeOK, NoGate, Fresh, Step, Status, roundVars, loops, bytes, saved
<1>10. CASE RepairContract
  BY <1>10 DEF NodeInv, RepairContract, WantsRepair, roundVars, loops, bytes, saved,
      TypeOK, RoundTypeOK, NoGate, Fresh, Step, Status
<1>11. CASE RetryInfrastructure
  BY <1>11 DEF NodeInv, RetryInfrastructure, WantsRetry, CountRetry, roundVars, loops,
      bytes, saved, TypeOK, RoundTypeOK, NoGate, Fresh, Step, Status
<1>12. CASE Fix
  <2>1. fingerprint \in Fingerprint
    BY <1>12 DEF Fix, NodeInv, VerdictAtHand, fingerprint, Fingerprint
  <2>2. counts' \in [Fingerprint -> 0 .. 2]
    <3>1. counts[fingerprint] \in 0 .. 2 /\ counts[fingerprint] + 1 < 3
      BY <1>12, <2>1 DEF Fix, WantsFix, Exhausted, NodeInv, TypeOK
    <3> QED BY <1>12, <2>1, <3>1 DEF Fix, NodeInv, TypeOK
  <2>3. fixes' \in 0 .. MaxFixes
    BY <1>12 DEF Fix, WantsFix, Exhausted, NodeInv, TypeOK
  <2>4. rev' \in {0, 1}
    BY <1>12 DEF Fix, Write, NodeInv, TypeOK
  <2>6. clean' \in BOOLEAN /\ accepted' \in {"no", "exact", "derived"}
    BY <1>12 DEF Fix, Write
  <2>5. repairs' \in 0 .. 2 /\ retries' \in 0 .. 2 /\ gate' = NoGate
    BY <1>12 DEF Fix
  <2> QED BY <1>12, <2>2, <2>3, <2>4, <2>5, <2>6 DEF NodeInv, Fix, Write, AfterFix,
      TypeOK, RoundTypeOK, Step, roundVars, loops, bytes, saved
<1>13. CASE GiveUp
  BY <1>13 DEF NodeInv, GiveUp, Leave, roundVars, loops, bytes, saved, TypeOK,
      RoundTypeOK, NoGate, Fresh, Step, Status
<1>14. CASE Pass
  BY <1>14 DEF NodeInv, Pass, roundVars, loops, bytes, saved, TypeOK, RoundTypeOK,
      NoGate, Fresh, Step, Status
<1>15. CASE Publish
  <2>1. rev' \in {0, 1}
    BY <1>15 DEF Publish, Write, NodeInv, TypeOK
  <2>2. clean' \in BOOLEAN /\ accepted' \in {"no", "exact", "derived"}
    BY <1>15 DEF Publish, Write
  <2> QED BY <1>15, <2>1, <2>2 DEF NodeInv, Publish, Write, TypeOK, RoundTypeOK, Step,
      roundVars, loops, bytes, saved
<1>16. CASE Validate
  <2>1. clean' \in BOOLEAN
    BY <1>16 DEF Validate
  <2> QED BY <1>16, <2>1 DEF NodeInv, Validate, TypeOK, RoundTypeOK, NoGate, Fresh,
      Step, Status, roundVars, loops, bytes, saved
<1>17. CASE RejectPublication
  <2>1. clean' \in BOOLEAN
    BY <1>17 DEF RejectPublication
  <2> QED BY <1>17, <2>1 DEF NodeInv, RejectPublication, Leave, TypeOK, RoundTypeOK,
      NoGate, Fresh, Step, Status, roundVars, loops, bytes, saved
<1>18. CASE Finish
  BY <1>18 DEF NodeInv, Finish, Leave, roundVars, loops, bytes, saved, TypeOK,
      RoundTypeOK, NoGate, Fresh, Step, Status
<1>19. CASE Interrupt
  <2>1. ballot' \in [Reviewer -> Vote]
    <3>1. NoVote \in Vote
      BY DEF NoVote, Vote, Verdict
    <3> QED BY <1>19, <3>1 DEF Interrupt, ClearRound
  <2> QED BY <1>19, <2>1 DEF NodeInv, Interrupt, ClearRound, Leave, TypeOK, RoundTypeOK,
      NoGate, Fresh, Step, Status, roundVars, loops, bytes, saved
<1>20. CASE UNCHANGED vars
  BY <1>20 DEF NodeInv, vars, roundVars, loops, bytes, saved, TypeOK, RoundTypeOK,
      NoGate, Fresh, Step, Status
<1> QED BY <1>1, <1>2, <1>3, <1>4, <1>5, <1>6, <1>7, <1>8, <1>9, <1>10, <1>11, <1>12,
    <1>13, <1>14, <1>15, <1>16, <1>17, <1>18, <1>19, <1>20 DEF Next, Pipeline

(* Rounds stay in their place and count every vote.                        *)
LEMMA RoundStep ==
  ASSUME NodeInv, [Next]_vars
  PROVE  (RoundPlaced /\ EveryVoteCounts)'
<1>1. CASE Execute
  <2>1. UNCHANGED roundVars
    BY <1>1 DEF Execute
  <2>2. EveryVoteCounts'
    BY <2>1, OutcomeFrame DEF NodeInv, EveryVoteCounts, roundVars
  <2>3. RoundPlaced'
    BY <1>1, <2>1, OutcomeFrame DEF NodeInv, RoundPlaced, Execute, roundVars
  <2> QED BY <2>2, <2>3
<1>2. CASE KeepCandidate
  <2>1. UNCHANGED roundVars
    BY <1>2 DEF KeepCandidate
  <2>2. EveryVoteCounts'
    BY <2>1, OutcomeFrame DEF NodeInv, EveryVoteCounts, roundVars
  <2>3. RoundPlaced'
    BY <1>2, <2>1, OutcomeFrame DEF NodeInv, RoundPlaced, KeepCandidate, roundVars
  <2> QED BY <2>2, <2>3
<1>3. CASE Produce
  <2>1. UNCHANGED roundVars
    BY <1>3 DEF Produce
  <2>2. EveryVoteCounts'
    BY <2>1, OutcomeFrame DEF NodeInv, EveryVoteCounts, roundVars
  <2>3. RoundPlaced'
    BY <1>3, <2>1, OutcomeFrame DEF NodeInv, RoundPlaced, Produce, Write, roundVars
  <2> QED BY <2>2, <2>3
<1>4. CASE HarnessPasses
  <2>1. UNCHANGED roundVars
    BY <1>4 DEF HarnessPasses
  <2>2. EveryVoteCounts'
    BY <2>1, OutcomeFrame DEF NodeInv, EveryVoteCounts, roundVars
  <2>3. RoundPlaced'
    BY <1>4, <2>1, OutcomeFrame DEF NodeInv, RoundPlaced, HarnessPasses, roundVars
  <2> QED BY <2>2, <2>3
<1>5. CASE HarnessFails
  <2>1. UNCHANGED roundVars
    BY <1>5 DEF HarnessFails
  <2>2. EveryVoteCounts'
    BY <2>1, OutcomeFrame DEF NodeInv, EveryVoteCounts, roundVars
  <2>3. RoundPlaced'
    BY <1>5, <2>1, OutcomeFrame DEF NodeInv, RoundPlaced, HarnessFails, HasGate,
        roundVars
  <2> QED BY <2>2, <2>3
<1>6. CASE Review
  BY <1>6 DEF NodeInv, Review, RoundPlaced, EveryVoteCounts, Closed
<1>7. CASE Propose
  <2>1. round' \in {"none", "open"} /\ (round' = "none" <=> Voters = {}) /\ Voters' = Voters
    BY <1>7, OutcomeFrame DEF Propose, OpenRound
  <2> QED BY <1>7, <2>1 DEF NodeInv, Propose, RoundPlaced, EveryVoteCounts, Closed
<1>8. CASE SubmitVote
  <2>1. PICK r \in Reviewer : CastVote(r)
    BY <1>8 DEF SubmitVote
  <2>2. cast' = cast \cup {r} /\ round' = Tally(cast \cup {r}) /\ ballot' = ballot /\ r \in Voters
    BY <2>1 DEF CastVote
  <2>3. round' \in Closed => Decisive # {} /\ Decisive \subseteq cast' /\ round' = Outcome(Decisive)
    <3>1. cast \cup {r} \subseteq Reviewer
      BY DEF NodeInv, TypeOK, RoundTypeOK
    <3>2. round' \in Closed => Tally(cast \cup {r}) # "open"
      BY <2>2 DEF Closed
    <3> QED BY <2>2, <3>1, <3>2, TallyCounts
  <2>4. EveryVoteCounts'
    BY <2>2, <2>3, OutcomeFrame DEF EveryVoteCounts
  <2>5. round' # "none"
    BY <2>2, OutcomeType DEF Tally, Closed
  <2> QED BY <1>8, <2>4, <2>5 DEF SubmitVote, RoundPlaced
<1>9. CASE Collect
  BY <1>9 DEF Collect, ClearRound, RoundPlaced, EveryVoteCounts, Closed
<1>10. CASE RepairContract
  <2>1. UNCHANGED roundVars
    BY <1>10 DEF RepairContract
  <2>2. EveryVoteCounts'
    BY <2>1, OutcomeFrame DEF NodeInv, EveryVoteCounts, roundVars
  <2>3. RoundPlaced'
    BY <1>10, <2>1, OutcomeFrame DEF NodeInv, RoundPlaced, RepairContract, WantsRepair,
        roundVars
  <2> QED BY <2>2, <2>3
<1>11. CASE RetryInfrastructure
  <2>1. UNCHANGED roundVars
    BY <1>11 DEF RetryInfrastructure
  <2>2. EveryVoteCounts'
    BY <2>1, OutcomeFrame DEF NodeInv, EveryVoteCounts, roundVars
  <2>3. RoundPlaced'
    BY <1>11, <2>1, OutcomeFrame DEF NodeInv, RoundPlaced, RetryInfrastructure,
        WantsRetry, CountRetry, roundVars
  <2> QED BY <2>2, <2>3
<1>12. CASE Fix
  <2>1. UNCHANGED roundVars
    BY <1>12 DEF Fix
  <2>2. EveryVoteCounts'
    BY <2>1, OutcomeFrame DEF NodeInv, EveryVoteCounts, roundVars
  <2>3. RoundPlaced'
    BY <1>12, <2>1, OutcomeFrame DEF NodeInv, RoundPlaced, Fix, WantsFix, WantsRepair,
        WantsRetry, Exhausted, Write, AfterFix, roundVars
  <2> QED BY <2>2, <2>3
<1>13. CASE GiveUp
  <2>1. UNCHANGED roundVars
    BY <1>13 DEF GiveUp
  <2>2. EveryVoteCounts'
    BY <2>1, OutcomeFrame DEF NodeInv, EveryVoteCounts, roundVars
  <2>3. RoundPlaced'
    BY <1>13, <2>1, OutcomeFrame DEF NodeInv, RoundPlaced, GiveUp, Leave, roundVars
  <2> QED BY <2>2, <2>3
<1>14. CASE Pass
  <2>1. UNCHANGED roundVars
    BY <1>14 DEF Pass
  <2>2. EveryVoteCounts'
    BY <2>1, OutcomeFrame DEF NodeInv, EveryVoteCounts, roundVars
  <2>3. RoundPlaced'
    BY <1>14, <2>1, OutcomeFrame DEF NodeInv, RoundPlaced, Pass, roundVars
  <2> QED BY <2>2, <2>3
<1>15. CASE Publish
  <2>1. UNCHANGED roundVars
    BY <1>15 DEF Publish
  <2>2. EveryVoteCounts'
    BY <2>1, OutcomeFrame DEF NodeInv, EveryVoteCounts, roundVars
  <2>3. RoundPlaced'
    BY <1>15, <2>1, OutcomeFrame DEF NodeInv, RoundPlaced, Publish, Write, roundVars
  <2> QED BY <2>2, <2>3
<1>16. CASE Validate
  <2>1. UNCHANGED roundVars
    BY <1>16 DEF Validate
  <2>2. EveryVoteCounts'
    BY <2>1, OutcomeFrame DEF NodeInv, EveryVoteCounts, roundVars
  <2>3. RoundPlaced'
    BY <1>16, <2>1, OutcomeFrame DEF NodeInv, RoundPlaced, Validate, HasGate, roundVars
  <2> QED BY <2>2, <2>3
<1>17. CASE RejectPublication
  <2>1. UNCHANGED roundVars
    BY <1>17 DEF RejectPublication
  <2>2. EveryVoteCounts'
    BY <2>1, OutcomeFrame DEF NodeInv, EveryVoteCounts, roundVars
  <2>3. RoundPlaced'
    BY <1>17, <2>1, OutcomeFrame DEF NodeInv, RoundPlaced, RejectPublication, Leave,
        roundVars
  <2> QED BY <2>2, <2>3
<1>18. CASE Finish
  <2>1. UNCHANGED roundVars
    BY <1>18 DEF Finish
  <2>2. EveryVoteCounts'
    BY <2>1, OutcomeFrame DEF NodeInv, EveryVoteCounts, roundVars
  <2>3. RoundPlaced'
    BY <1>18, <2>1, OutcomeFrame DEF NodeInv, RoundPlaced, Finish, Leave, roundVars
  <2> QED BY <2>2, <2>3
<1>19. CASE Interrupt
  BY <1>19 DEF Interrupt, ClearRound, Leave, RoundPlaced, EveryVoteCounts, Closed
<1>20. CASE UNCHANGED vars
  BY <1>20, OutcomeFrame DEF NodeInv, vars, roundVars, RoundPlaced, EveryVoteCounts
<1> QED BY <1>1, <1>2, <1>3, <1>4, <1>5, <1>6, <1>7, <1>8, <1>9, <1>10, <1>11, <1>12,
    <1>13, <1>14, <1>15, <1>16, <1>17, <1>18, <1>19, <1>20 DEF Next, Pipeline

(* A verdict is about the bytes as they are, and so is the evidence.       *)
LEMMA VerdictStep ==
  ASSUME NodeInv, [Next]_vars
  PROVE  (VerdictAtHand /\ EvidenceIsCurrent)'
<1>1. CASE Execute
  BY <1>1 DEF NodeInv, Execute, roundVars, loops, bytes, saved, TypeOK, VerdictAtHand,
      EvidenceIsCurrent, HasGate
<1>2. CASE KeepCandidate
  BY <1>2 DEF NodeInv, KeepCandidate, roundVars, loops, bytes, saved, TypeOK,
      VerdictAtHand, EvidenceIsCurrent, HasGate
<1>3. CASE Produce
  BY <1>3 DEF NodeInv, Produce, Write, roundVars, loops, bytes, saved, TypeOK,
      VerdictAtHand, EvidenceIsCurrent, HasGate
<1>4. CASE HarnessPasses
  BY <1>4 DEF NodeInv, HarnessPasses, roundVars, loops, bytes, saved, TypeOK,
      VerdictAtHand, EvidenceIsCurrent, HasGate
<1>5. CASE HarnessFails
  <2>1. PICK f \in Finding : gate' = [passed |-> FALSE, kind |-> "application", finding |-> f]
    BY <1>5 DEF HarnessFails
  <2>2. gate' \in [passed : BOOLEAN, kind : Kind, finding : Finding]
    BY <2>1 DEF Kind
  <2> QED BY <1>5, <2>1, <2>2 DEF HarnessFails, VerdictAtHand, EvidenceIsCurrent
<1>6. CASE Review
  BY <1>6 DEF NodeInv, Review, roundVars, loops, bytes, saved, TypeOK, VerdictAtHand,
      EvidenceIsCurrent, HasGate
<1>7. CASE Propose
  BY <1>7 DEF NodeInv, Propose, OpenRound, roundVars, loops, bytes, saved, TypeOK,
      VerdictAtHand, EvidenceIsCurrent, HasGate
<1>8. CASE SubmitVote
  BY <1>8 DEF NodeInv, SubmitVote, CastVote, roundVars, loops, bytes, saved, TypeOK,
      VerdictAtHand, EvidenceIsCurrent, HasGate
<1>9. CASE Collect
  <2>1. PICK veto \in BOOLEAN, tests \in BOOLEAN, kinds \in SUBSET Kind, f \in Finding :
          /\ gate' = [passed |-> GatePassed(veto, tests), kind |-> FailureKind(kinds), finding |-> f]
          /\ accepted' = IF (IF Decisive = {} THEN Voters = {} ELSE Outcome(Decisive) = "accepted")
                            /\ ~veto /\ (Voters = {} => tests)
                         THEN "exact" ELSE "no"
          /\ owner' = IF GatePassed(veto, tests) THEN "nobody"
                      ELSE IF kinds = {} \/ "application" \in kinds THEN "product" ELSE "harness"
    BY <1>9 DEF Collect
  <2>2. GatePassed(veto, tests) \in BOOLEAN
    BY DEF GatePassed
  <2>3. FailureKind(kinds) \in Kind
    BY DEF FailureKind, Kind
  <2>4. gate' \in [passed : BOOLEAN, kind : Kind, finding : Finding]
    BY <2>1, <2>2, <2>3
  <2>5. GatePassed(veto, tests) => accepted' = "exact" /\ owner' = "nobody"
    <3>1. CASE round = "none"
      BY <1>9, <2>1, <3>1 DEF Collect, GatePassed, NodeInv, RoundPlaced, Voters,
          Decisive
    <3>2. CASE round # "none"
      BY <1>9, <2>1, <3>2 DEF GatePassed, NodeInv, EveryVoteCounts, Closed, Voters,
          Decisive
    <3> QED BY <3>1, <3>2
  <2>6. owner' = "harness" => FailureKind(kinds) # "application"
    BY <2>1 DEF FailureKind, Kind
  <2>7. HasGate' => clean'
    BY <1>9 DEF Collect, NodeInv, EvidenceIsCurrent, HasGate
  <2>8. gate'.passed = GatePassed(veto, tests) /\ gate'.kind = FailureKind(kinds)
    BY <2>1
  <2> QED BY <1>9, <2>4, <2>5, <2>6, <2>7, <2>8 DEF Collect, VerdictAtHand,
      EvidenceIsCurrent
<1>10. CASE RepairContract
  BY <1>10 DEF NodeInv, RepairContract, WantsRepair, roundVars, loops, bytes, saved,
      TypeOK, VerdictAtHand, EvidenceIsCurrent, HasGate
<1>11. CASE RetryInfrastructure
  BY <1>11 DEF NodeInv, RetryInfrastructure, WantsRetry, CountRetry, roundVars, loops,
      bytes, saved, TypeOK, VerdictAtHand, EvidenceIsCurrent, HasGate
<1>12. CASE Fix
  BY <1>12 DEF NodeInv, Fix, WantsFix, WantsRepair, WantsRetry, Exhausted, Write,
      AfterFix, roundVars, loops, bytes, saved, TypeOK, VerdictAtHand,
      EvidenceIsCurrent, HasGate
<1>13. CASE GiveUp
  BY <1>13 DEF NodeInv, GiveUp, Leave, roundVars, loops, bytes, saved, TypeOK,
      VerdictAtHand, EvidenceIsCurrent, HasGate
<1>14. CASE Pass
  BY <1>14 DEF NodeInv, Pass, roundVars, loops, bytes, saved, TypeOK, VerdictAtHand,
      EvidenceIsCurrent, HasGate
<1>15. CASE Publish
  BY <1>15 DEF NodeInv, Publish, Write, roundVars, loops, bytes, saved, TypeOK,
      VerdictAtHand, EvidenceIsCurrent, HasGate
<1>16. CASE Validate
  BY <1>16 DEF NodeInv, Validate, HasGate, roundVars, loops, bytes, saved, TypeOK,
      VerdictAtHand, EvidenceIsCurrent, HasGate
<1>17. CASE RejectPublication
  BY <1>17 DEF NodeInv, RejectPublication, Leave, roundVars, loops, bytes, saved,
      TypeOK, VerdictAtHand, EvidenceIsCurrent, HasGate
<1>18. CASE Finish
  BY <1>18 DEF NodeInv, Finish, Leave, roundVars, loops, bytes, saved, TypeOK,
      VerdictAtHand, EvidenceIsCurrent, HasGate
<1>19. CASE Interrupt
  BY <1>19 DEF NodeInv, Interrupt, Leave, ClearRound, roundVars, loops, bytes, saved,
      TypeOK, VerdictAtHand, EvidenceIsCurrent, HasGate
<1>20. CASE UNCHANGED vars
  BY <1>20 DEF NodeInv, vars, roundVars, loops, bytes, saved, TypeOK, VerdictAtHand,
      EvidenceIsCurrent, HasGate
<1> QED BY <1>1, <1>2, <1>3, <1>4, <1>5, <1>6, <1>7, <1>8, <1>9, <1>10, <1>11, <1>12,
    <1>13, <1>14, <1>15, <1>16, <1>17, <1>18, <1>19, <1>20 DEF Next, Pipeline

(* What an execution leaves behind.                                        *)
LEMMA OutcomeStep ==
  ASSUME NodeInv, [Next]_vars
  PROVE  (OnItsWay /\ FailureRemembered /\ DoneIsIdle /\ CompletedWasAccepted)'
<1>1. CASE Execute
  BY <1>1 DEF NodeInv, Execute, roundVars, loops, bytes, saved, TypeOK, VerdictAtHand,
      OnItsWay, FailureRemembered, DoneIsIdle, CompletedWasAccepted, HasGate
<1>2. CASE KeepCandidate
  BY <1>2 DEF NodeInv, KeepCandidate, roundVars, loops, bytes, saved, TypeOK,
      VerdictAtHand, OnItsWay, FailureRemembered, DoneIsIdle, CompletedWasAccepted,
      HasGate
<1>3. CASE Produce
  BY <1>3 DEF NodeInv, Produce, Write, roundVars, loops, bytes, saved, TypeOK,
      VerdictAtHand, OnItsWay, FailureRemembered, DoneIsIdle, CompletedWasAccepted,
      HasGate, VerifyOnly
<1>4. CASE HarnessPasses
  BY <1>4 DEF NodeInv, HarnessPasses, roundVars, loops, bytes, saved, TypeOK,
      VerdictAtHand, OnItsWay, FailureRemembered, DoneIsIdle, CompletedWasAccepted,
      HasGate
<1>5. CASE HarnessFails
  BY <1>5 DEF NodeInv, HarnessFails, HasGate, roundVars, loops, bytes, saved, TypeOK,
      VerdictAtHand, OnItsWay, FailureRemembered, DoneIsIdle, CompletedWasAccepted,
      HasGate
<1>6. CASE Review
  BY <1>6 DEF NodeInv, Review, roundVars, loops, bytes, saved, TypeOK, VerdictAtHand,
      OnItsWay, FailureRemembered, DoneIsIdle, CompletedWasAccepted, HasGate
<1>7. CASE Propose
  BY <1>7 DEF NodeInv, Propose, OpenRound, roundVars, loops, bytes, saved, TypeOK,
      VerdictAtHand, OnItsWay, FailureRemembered, DoneIsIdle, CompletedWasAccepted,
      HasGate
<1>8. CASE SubmitVote
  BY <1>8 DEF NodeInv, SubmitVote, CastVote, roundVars, loops, bytes, saved, TypeOK,
      VerdictAtHand, OnItsWay, FailureRemembered, DoneIsIdle, CompletedWasAccepted,
      HasGate
<1>9. CASE Collect
  BY <1>9 DEF NodeInv, Collect, ClearRound, roundVars, loops, bytes, saved, TypeOK,
      VerdictAtHand, OnItsWay, FailureRemembered, DoneIsIdle, CompletedWasAccepted,
      HasGate
<1>10. CASE RepairContract
  BY <1>10 DEF NodeInv, RepairContract, WantsRepair, roundVars, loops, bytes, saved,
      TypeOK, VerdictAtHand, OnItsWay, FailureRemembered, DoneIsIdle,
      CompletedWasAccepted, HasGate
<1>11. CASE RetryInfrastructure
  BY <1>11 DEF NodeInv, RetryInfrastructure, WantsRetry, CountRetry, roundVars, loops,
      bytes, saved, TypeOK, VerdictAtHand, OnItsWay, FailureRemembered, DoneIsIdle,
      CompletedWasAccepted, HasGate
<1>12. CASE Fix
  BY <1>12 DEF NodeInv, Fix, WantsFix, WantsRepair, WantsRetry, Exhausted, Write,
      AfterFix, roundVars, loops, bytes, saved, TypeOK, VerdictAtHand, OnItsWay,
      FailureRemembered, DoneIsIdle, CompletedWasAccepted, HasGate
<1>13. CASE GiveUp
  BY <1>13 DEF NodeInv, GiveUp, Leave, roundVars, loops, bytes, saved, TypeOK,
      VerdictAtHand, OnItsWay, FailureRemembered, DoneIsIdle, CompletedWasAccepted,
      HasGate
<1>14. CASE Pass
  BY <1>14 DEF NodeInv, Pass, roundVars, loops, bytes, saved, TypeOK, VerdictAtHand,
      OnItsWay, FailureRemembered, DoneIsIdle, CompletedWasAccepted, HasGate
<1>15. CASE Publish
  BY <1>15 DEF NodeInv, Publish, Write, roundVars, loops, bytes, saved, TypeOK,
      VerdictAtHand, OnItsWay, FailureRemembered, DoneIsIdle, CompletedWasAccepted,
      HasGate
<1>16. CASE Validate
  BY <1>16 DEF NodeInv, Validate, HasGate, roundVars, loops, bytes, saved, TypeOK,
      VerdictAtHand, OnItsWay, FailureRemembered, DoneIsIdle, CompletedWasAccepted,
      HasGate
<1>17. CASE RejectPublication
  BY <1>17 DEF NodeInv, RejectPublication, Leave, roundVars, loops, bytes, saved,
      TypeOK, VerdictAtHand, OnItsWay, FailureRemembered, DoneIsIdle,
      CompletedWasAccepted, HasGate
<1>18. CASE Finish
  BY <1>18 DEF NodeInv, Finish, Leave, roundVars, loops, bytes, saved, TypeOK,
      VerdictAtHand, OnItsWay, FailureRemembered, DoneIsIdle, CompletedWasAccepted,
      HasGate
<1>19. CASE Interrupt
  BY <1>19 DEF NodeInv, Interrupt, Leave, ClearRound, roundVars, loops, bytes, saved,
      TypeOK, VerdictAtHand, OnItsWay, FailureRemembered, DoneIsIdle,
      CompletedWasAccepted, HasGate
<1>20. CASE UNCHANGED vars
  BY <1>20 DEF NodeInv, vars, roundVars, loops, bytes, saved, TypeOK, VerdictAtHand,
      OnItsWay, FailureRemembered, DoneIsIdle, CompletedWasAccepted, HasGate
<1> QED BY <1>1, <1>2, <1>3, <1>4, <1>5, <1>6, <1>7, <1>8, <1>9, <1>10, <1>11, <1>12,
    <1>13, <1>14, <1>15, <1>16, <1>17, <1>18, <1>19, <1>20 DEF Next, Pipeline

LEMMA NodeInitial == Init => NodeInv
<1> SUFFICES ASSUME Init PROVE NodeInv
  OBVIOUS
<1>1. ballot \in [Reviewer -> Vote]
  <2>1. NoVote \in Vote
    BY DEF NoVote, Vote, Verdict
  <2> QED BY <2>1 DEF Init
<1>2. counts \in [Fingerprint -> 0 .. 2]
  BY DEF Init, Fresh
<1>3. clean \in BOOLEAN
  BY DEF Init
<1>4. TypeOK
  BY <1>1, <1>2, <1>3 DEF Init, TypeOK, RoundTypeOK, Step, Status
<1> QED BY <1>4 DEF Init, NodeInv, RoundPlaced, EveryVoteCounts, Closed, VerdictAtHand,
    EvidenceIsCurrent,
                    OnItsWay, FailureRemembered, DoneIsIdle, CompletedWasAccepted

LEMMA NodeStep == NodeInv /\ [Next]_vars => NodeInv'
BY TypeStep, RoundStep, VerdictStep, OutcomeStep DEF NodeInv

LEMMA NodeInvariant == Spec => []NodeInv
BY NodeInitial, NodeStep, PTL DEF Spec

(* The state of the pipeline and of its consensus round keeps its types;   *)
(* in particular every repair counter stays within its bound.              *)
THEOREM TypeCorrect == Spec => []TypeOK
<1>1. NodeInv => TypeOK
  BY DEF NodeInv
<1> QED BY NodeInvariant, <1>1, PTL

(* Whatever the reviewers answer, and however many vote, abstain or are    *)
(* unreachable, a closed round counted every decisive vote                 *)
(* (record_quality_consensus and tally_consensus_round).                   *)
THEOREM RoundsCountEveryVote == Spec => []EveryVoteCounts
<1>1. NodeInv => EveryVoteCounts
  BY DEF NodeInv
<1> QED BY NodeInvariant, <1>1, PTL

(* The harness evidence under review is about the present bytes, in every  *)
(* round of every repair loop of _execute_node.                            *)
THEOREM ReviewsSeeCurrentEvidence == Spec => []EvidenceIsCurrent
<1>1. NodeInv => EvidenceIsCurrent
  BY DEF NodeInv
<1> QED BY NodeInvariant, <1>1, PTL

(* A completed node holds what a sound gate accepted (_execute_node up to  *)
(* the result package).                                                    *)
THEOREM CompletedNodesWereAccepted == Spec => []CompletedWasAccepted
<1>1. NodeInv => CompletedWasAccepted
  BY DEF NodeInv
<1> QED BY NodeInvariant, <1>1, PTL

(* A failure owned by the test contract or the infrastructure never leads  *)
(* to a rewrite, within an execution or after its package was saved.       *)
THEOREM HarnessFailuresRewriteNothing == Spec => MutationOwned
<1> DEFINE A == rev' # rev /\ owner = "harness" => pc = "candidate" /\ shape.sort = "parent"
<1>1. NodeInv /\ [Next]_vars => [A]_vars
  <2> SUFFICES ASSUME NodeInv, Next PROVE A
    OBVIOUS
  <2>1. CASE Execute
    BY <2>1 DEF Execute, NodeInv, bytes
  <2>2. CASE KeepCandidate
    BY <2>2 DEF KeepCandidate, NodeInv, bytes
  <2>3. CASE Produce
    BY <2>3 DEF Produce, Write, VerifyOnly, FailureRemembered, NodeInv, bytes
  <2>4. CASE HarnessPasses
    BY <2>4 DEF HarnessPasses, NodeInv, bytes
  <2>5. CASE HarnessFails
    BY <2>5 DEF HarnessFails, NodeInv, bytes
  <2>6. CASE Review
    BY <2>6 DEF Review, NodeInv, bytes
  <2>7. CASE Propose
    BY <2>7 DEF Propose, NodeInv, bytes
  <2>8. CASE SubmitVote
    BY <2>8 DEF SubmitVote, NodeInv, bytes
  <2>9. CASE Collect
    BY <2>9 DEF Collect, NodeInv, bytes
  <2>10. CASE RepairContract
    BY <2>10 DEF RepairContract, NodeInv, bytes
  <2>11. CASE RetryInfrastructure
    BY <2>11 DEF RetryInfrastructure, NodeInv, bytes
  <2>12. CASE Fix
    BY <2>12 DEF Fix, WantsFix, VerdictAtHand, NodeInv, bytes
  <2>13. CASE GiveUp
    BY <2>13 DEF GiveUp, NodeInv, bytes
  <2>14. CASE Pass
    BY <2>14 DEF Pass, NodeInv, bytes
  <2>15. CASE Publish
    BY <2>15 DEF Publish, OnItsWay, NodeInv, bytes
  <2>16. CASE Validate
    BY <2>16 DEF Validate, NodeInv, bytes
  <2>17. CASE RejectPublication
    BY <2>17 DEF RejectPublication, NodeInv, bytes
  <2>18. CASE Finish
    BY <2>18 DEF Finish, NodeInv, bytes
  <2>19. CASE Interrupt
    BY <2>19 DEF Interrupt, NodeInv, bytes
  <2> QED BY <2>1, <2>2, <2>3, <2>4, <2>5, <2>6, <2>7, <2>8, <2>9, <2>10, <2>11, <2>12,
      <2>13, <2>14, <2>15, <2>16, <2>17, <2>18, <2>19 DEF Next, Pipeline
<1> QED BY <1>1, NodeInvariant, PTL DEF Spec, MutationOwned

===============================================================================
