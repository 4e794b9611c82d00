----------------------------- MODULE QualityRound -----------------------------
(***************************************************************************)
(* The consensus round behind one quality gate of an Ultra node: what a    *)
(* reviewer's answer is worth as a vote (ultra.py), the round that is      *)
(* opened for it (ultra_session.py, swarm_coordinator.py), and the rows of *)
(* consensus_rounds and consensus_votes with their tally after every vote  *)
(* (store.py).                                                             *)
(*                                                                         *)
(* A confidence is a number of 0..MaxWeight instead of a float of 0..1.    *)
(***************************************************************************)
EXTENDS Naturals, FiniteSets, Functions

CONSTANTS
    Reviewers, \* how many specialist reviewers a gate asks
    MaxWeight  \* the highest confidence

ASSUME RoundAssumption == Reviewers \in Nat \ {0} /\ MaxWeight \in Nat \ {0}

VARIABLES
    ballot, \* the vote record made of each reviewer's answer
    cast,   \* the reviewers whose row is in consensus_votes
    round   \* consensus_rounds.status, or "none": no round

roundVars == <<ballot, cast, round>>

Reviewer == 1 .. Reviewers
Verdict  == {"accept", "reject", "abstain", "none"}
Vote     == [verdict : Verdict, weight : 0 .. MaxWeight]
Closed   == {"accepted", "rejected", "tied"}
NoVote   == [verdict |-> "none", weight |-> 0]

RoundTypeOK ==
    /\ ballot \in [Reviewer -> Vote]
    /\ cast \subseteq Reviewer
    /\ round \in Closed \cup {"none", "open"}

\* A reviewer passes or fails the candidate, returns no verdict at all
\* ("silent", normalized to a pass marked abstained), or its provider emits
\* nothing and the harness answers in its place ("unreachable").  An answer
\* may cite trusted evidence.
Answer == [says : {"pass", "fail", "silent", "unreachable"}, cites : BOOLEAN, weight : 0 .. MaxWeight]

\* With enforcement an answer without evidence is an abstention; the harness's
\* own answers never vote.
VoteOf(a, enforced) ==
    IF a.says = "unreachable" THEN NoVote
    ELSE IF enforced /\ ~a.cites THEN [verdict |-> "abstain", weight |-> 0]
    ELSE [verdict |-> IF a.says = "fail" THEN "reject" ELSE "accept", weight |-> a.weight]

-------------------------------------------------------------------------------

Voters   == {r \in Reviewer : ballot[r].verdict # "none"}
Decisive == {r \in Reviewer : ballot[r].verdict \in {"accept", "reject"}}

Mut_Quorum == (2 * Cardinality(Voters) + 2) \div 3

\* Every voter with an accept or a reject must be counted.
Quorum == IF Decisive = {} THEN Cardinality(Voters) ELSE Cardinality(Decisive)

Score(rows, verdict) ==
    SumFunctionOnSet([r \in Reviewer |-> ballot[r].weight],
                     {r \in rows : ballot[r].verdict = verdict})

\* What the confidences of the given votes decide.
Outcome(rows) ==
    IF Score(rows, "accept") > Score(rows, "reject") THEN "accepted"
    ELSE IF Score(rows, "reject") > Score(rows, "accept") THEN "rejected"
    ELSE "tied"

Tally(rows) ==
    IF Cardinality(rows \cap Decisive) < Quorum THEN "open" ELSE Outcome(rows \cap Decisive)

ClearRound ==
    /\ ballot' = [r \in Reviewer |-> NoVote]
    /\ cast' = {}
    /\ round' = "none"

OpenRound ==
    /\ round = "none"
    /\ round' = IF Voters = {} THEN "none" ELSE "open"
    /\ UNCHANGED <<ballot, cast>>

\* The abstentions are submitted first, then the decisive votes, each in the
\* order of the reviewers; a closed round takes no further vote.
CastVote(r) ==
    /\ round = "open"
    /\ r \in Voters \ cast
    /\ r \in Decisive => Voters \ Decisive \subseteq cast
    /\ \A q \in Voters : (q < r /\ (q \in Decisive <=> r \in Decisive)) => q \in cast
    /\ cast' = cast \cup {r}
    /\ round' = Tally(cast \cup {r})
    /\ UNCHANGED ballot

\* All that could be submitted has been.
VotingOver(rows, status) == status # "open" \/ rows = Voters

-------------------------------------------------------------------------------

\* A round is decided only when every accept and every reject of the reviewers
\* is a row of it, and then by the confidences of all of them: no order of
\* submission, and no abstention, closes it early (record_quality_consensus
\* computes the quorum, tally_consensus_round closes the round).
EveryVoteCounts ==
    round \in Closed => /\ Decisive # {}
                        /\ Decisive \subseteq cast
                        /\ round = Outcome(Decisive)

===============================================================================
