---------------------------- MODULE Positioning ----------------------------
(***************************************************************************)
(* Position sizing of the discretionary strategy (positioning.py,          *)
(* domain/portfolio.py): from a belief to a proposal, an approval and a    *)
(* target portfolio.  Probabilities, returns and correlations are counted  *)
(* in percent, weights in 1/Whole; a proposed weight is a multiple of      *)
(* Quantum.                                                                *)
(***************************************************************************)
EXTENDS Beliefs

CONSTANTS
    Whole, Quantum,
    ObservationCap, EvidenceCap, CoreCap,           \* weights
    MinimumEdge, CorrelationFloor,                  \* percent
    MinimumUpgrade,                                 \* of a strength
    SizingMultiplier                                \* percent

\* PositionPolicy.
PolicyAssumption ==
    /\ Whole \in Nat /\ Quantum \in Nat \ {0}
    /\ {ObservationCap, EvidenceCap, CoreCap} \subseteq Nat
    /\ 0 < ObservationCap /\ ObservationCap <= EvidenceCap /\ EvidenceCap <= CoreCap
    /\ CoreCap <= Whole
    /\ {MinimumEdge, CorrelationFloor} \subseteq 0..100
    /\ MinimumUpgrade \in Nat /\ SizingMultiplier \in Nat \ {0}

NoPrior == [weight |-> 0, stage |-> "NONE", strength |-> 0, hash |-> "NONE", domains |-> {}]

StageRank(stage) ==
    CASE stage = "RADAR" -> 0 [] stage = "HYPOTHESIS" -> 1 [] stage = "WATCHLIST" -> 2
      [] stage = "OBSERVATION" -> 3 [] stage = "EVIDENCE" -> 4 [] stage = "CORE" -> 5
      [] OTHER -> -1

Cap(stage) ==
    CASE stage = "OBSERVATION" -> ObservationCap
      [] stage = "EVIDENCE"    -> EvidenceCap
      [] stage = "CORE"        -> CoreCap
      [] OTHER                 -> 0

SoundExpectation(e) == e.observed <= e.available /\ e.price > 0 /\ e.implied \in 0..100

SoundPayoff(p) == p.upside > 0 /\ p.loss > 0 /\ p.correlation \in 0..100

\* What propose asks of its arguments.
CanPropose(case, asof, expectation) ==
    /\ expectation.case = case.id
    /\ expectation.hypothesis = Fundamental(case)
    /\ expectation.available <= asof

\* Posterior, edge and expected return are kept as multiples of 1/belief.total.
Edge(belief, expectation) == 100 * belief.odds - expectation.implied * belief.total

ExpectedReturn(belief, payoff) ==
    belief.odds * payoff.upside - (belief.total - belief.odds) * payoff.loss

RawWeight(belief, payoff) ==
    (SizingMultiplier * belief.strength * ExpectedReturn(belief, payoff) * Whole)
        \div (belief.total * Unit * Unit * Unit * Unit * Unit * payoff.loss
                * Max({payoff.correlation, CorrelationFloor}))

Eligible(belief, expectation, payoff) ==
    /\ Cap(belief.stage) # 0
    /\ Edge(belief, expectation) >= MinimumEdge * belief.total
    /\ ExpectedReturn(belief, payoff) > 0

\* The raw weight is a quotient by the correlation or its floor.
CanSize(belief, expectation, payoff) ==
    Eligible(belief, expectation, payoff) => Max({payoff.correlation, CorrelationFloor}) > 0

Wanted(belief, expectation, payoff) ==
    IF Eligible(belief, expectation, payoff)
    THEN Min({Cap(belief.stage), RawWeight(belief, payoff)})
    ELSE 0

EvidenceUpgraded(prior, belief) ==
    /\ belief.hash # prior.hash
    /\ StageRank(belief.stage) >= StageRank(prior.stage)
    /\ \/ StageRank(belief.stage) > StageRank(prior.stage)
       \/ belief.strength >= prior.strength + MinimumUpgrade
       \/ prior.domains \subseteq belief.domains /\ prior.domains # belief.domains

AddBlocked(belief, expectation, payoff, prior) ==
    /\ prior # NoPrior
    /\ Wanted(belief, expectation, payoff) > prior.weight
    /\ ~EvidenceUpgraded(prior, belief)

\* Mutant: a refused purchase leaves nothing to hold.
TargetNothing(belief, expectation, payoff, prior) ==
    IF AddBlocked(belief, expectation, payoff, prior) THEN 0
    ELSE (Wanted(belief, expectation, payoff) \div Quantum) * Quantum

Target(belief, expectation, payoff, prior) ==
    LET weight == IF AddBlocked(belief, expectation, payoff, prior) THEN prior.weight
                  ELSE Wanted(belief, expectation, payoff)
    IN  (weight \div Quantum) * Quantum

Action(current, target) ==
    IF current = target THEN IF current > 0 THEN "HOLD" ELSE "WATCH"
    ELSE IF current = 0 THEN "OPEN"
    ELSE IF target = 0 THEN "EXIT"
    ELSE IF target > current THEN "ADD"
    ELSE "REDUCE"

\* propose; the proposal carries what it was made from.
Proposal(case, belief, expectation, payoff, prior) ==
    LET target == Target(belief, expectation, payoff, prior) IN
    [symbol |-> case.symbol, belief |-> belief, expectation |-> expectation, payoff |-> payoff,
     prior |-> prior, target |-> target, action |-> Action(prior.weight, target),
     blocked |-> AddBlocked(belief, expectation, payoff, prior)]

\* AllocationApproval.
CanApprove(proposal, weight, at) ==
    /\ at >= proposal.belief.asof
    /\ weight \in 0..proposal.target

\* build_approved_target_portfolio, and the bound of TargetPortfolio on the weights.
CanBuild(approvals, held, at, release) ==
    /\ \A a, b \in approvals : a.proposal.symbol = b.proposal.symbol => a = b
    /\ held \subseteq {a.proposal.symbol : a \in approvals}
    /\ \A a \in approvals : a.at <= at /\ a.proposal.belief.release = release
    /\ SumOver([a \in approvals |-> a.weight]) <= Whole
=============================================================================
