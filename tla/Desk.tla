-------------------------------- MODULE Desk --------------------------------
(***************************************************************************)
(* The discretionary desk (strategy.py over beliefs.py, calibration.py and *)
(* positioning.py): research cases are opened, evidence and labels         *)
(* archived, cases reviewed, proposals approved by hand and made into a    *)
(* target portfolio, while time, data releases and prices move on.  What a *)
(* review is told of the position held (PriorPositionState) is the weight  *)
(* that the last portfolio and the market left, and the assessment behind  *)
(* the approval.                                                           *)
(***************************************************************************)
EXTENDS Positioning, Sequences

CONSTANTS
    Cases, Evidence, Outcomes,          \* what there may be, by id
    EvidenceBatches, OutcomeBatches,    \* sets of ids that are archived together
    Expectations, Payoffs,
    ApprovedShares,     \* fractions of a proposal, in percent, a person may approve
    Drifts,             \* what the market may do to a weight
    ReleaseDays,        \* on which there may be a new data release
    MaxTime, MaxReviews, MaxApprovals

\* What the value types say of their fields; the rest of their conditions is asked
\* where a value enters.
DeskAssumption ==
    /\ \A c \in DOMAIN Cases :
          Cases[c].id = c /\ IsFiniteSet(DOMAIN Cases[c].hypotheses)
    /\ \A o \in DOMAIN Evidence :
          /\ {"id", "cluster", "family", "falsifies", "bits"} \subseteq DOMAIN Evidence[o]
          /\ Evidence[o].available \in Int
          /\ {"proximity", "reliability", "independence", "timeliness", "gap"}
                = DOMAIN Evidence[o].quality
    /\ \A l \in DOMAIN Outcomes : Outcomes[l].availableAt \in Int
    /\ \A batch \in EvidenceBatches : batch \subseteq DOMAIN Evidence /\ IsFiniteSet(batch)
    /\ \A batch \in OutcomeBatches : batch \subseteq DOMAIN Outcomes /\ IsFiniteSet(batch)
    /\ \A e \in Expectations : e.implied \in Int
    /\ \A p \in Payoffs : {p.upside, p.loss, p.correlation} \subseteq Int
    /\ Drifts \subseteq Int

VARIABLES
    now, release,
    opened,         \* research cases
    archive,        \* evidence observations
    labels,         \* CalibrationLedger._outcomes
    proposals,      \* all that were made
    approvals,      \* which proposal, what weight, when
    prior,          \* by symbol, what the next review is told
    portfolio,      \* the latest target portfolio
    \* History variable: what there was to read at each proposal.
    basis

vars == <<now, release, opened, archive, labels, proposals, approvals, prior, portfolio, basis>>
research == <<opened, archive, labels>>
decisions == <<proposals, approvals, prior, portfolio, basis>>

Symbols == {Cases[c].symbol : c \in DOMAIN Cases}

NoPortfolio == [at |-> 0, release |-> 0, held |-> {}, positions |-> {}]

Init ==
    /\ now = 0 /\ release = 1
    /\ opened = {} /\ archive = {} /\ labels = {}
    /\ proposals = <<>> /\ approvals = {}
    /\ prior = [s \in Symbols |-> NoPrior]
    /\ portfolio = NoPortfolio
    /\ basis = <<>>

\* The next day, with a new data release or without.
Tick ==
    /\ now < MaxTime
    /\ now' = now + 1
    /\ release' \in IF now + 1 \in ReleaseDays THEN {release, release + 1} ELSE {release}
    /\ UNCHANGED <<research, decisions>>

OpenCase(c) ==
    /\ c \notin opened /\ Cases[c].created = now /\ SoundCase(Cases[c])
    /\ opened' = opened \cup {c}
    /\ UNCHANGED <<now, release, archive, labels, decisions>>

\* Evidence is archived once it is collected, whether the time from which it may be
\* used is still to come or long past.
Collect(batch) ==
    /\ batch \cap archive = {}
    /\ \A o \in batch : Evidence[o].collected <= now /\ SoundEvidence(Evidence[o])
    /\ archive' = archive \cup batch
    /\ UNCHANGED <<now, release, opened, labels, decisions>>

\* CalibrationLedger.add, at any time likewise.
Label(batch) ==
    /\ batch \cap labels = {}
    /\ \A l \in batch : SoundOutcome(Outcomes[l])
    /\ labels' = labels \cup batch
    /\ UNCHANGED <<now, release, opened, archive, decisions>>

\* All there is to read; read is such a record, of now or of an earlier time.
Archived == [evidence |-> archive, labels |-> labels]

Observations(case, read) ==
    {Evidence[o] : o \in {e \in read.evidence : Evidence[e].case = case.id}}

Labels(read) == {Outcomes[l] : l \in read.labels}

Belief(case, read, asof, under) ==
    Update(case, Observations(case, read), Labels(read), asof, under)

\* DiscretionaryFundamentalStrategy.review.
Review(case, expectation, payoff) ==
    /\ Len(proposals) < MaxReviews
    /\ now >= case.created /\ \A o \in Observations(case, Archived) : Concerns(o, case)
    /\ SoundExpectation(expectation) /\ SoundPayoff(payoff)
    /\ CanPropose(case, now, expectation)
    /\ LET belief == Belief(case, Archived, now, release) IN
       /\ CanSize(belief, expectation, payoff)
       /\ proposals' = Append(proposals, Proposal(case, belief, expectation, payoff,
                                                  prior[case.symbol]))
    /\ basis' = Append(basis, Archived)
    /\ UNCHANGED <<now, release, research, approvals, prior, portfolio>>

\* approve_allocation, for any proposal there is.
Approve(i, weight) ==
    /\ Cardinality(approvals) < MaxApprovals
    /\ CanApprove(proposals[i], weight, now)
    /\ approvals' = approvals \cup {[of |-> i, weight |-> weight, at |-> now]}
    /\ UNCHANGED <<now, release, research, proposals, prior, portfolio, basis>>

Held == {s \in Symbols : prior[s].weight > 0}

Book(chosen) == {[proposal |-> proposals[a.of], weight |-> a.weight, at |-> a.at] : a \in chosen}

\* The portfolio is traded to: positions have the weights approved.
PriorAfter(s, chosen) ==
    IF \E a \in chosen : proposals[a.of].symbol = s
    THEN LET a == CHOOSE a \in chosen : proposals[a.of].symbol = s
             belief == proposals[a.of].belief
         IN  IF a.weight = 0 THEN NoPrior
             ELSE [weight |-> a.weight, stage |-> belief.stage, strength |-> belief.strength,
                   hash |-> belief.hash, domains |-> belief.domains]
    ELSE prior[s]

Build(chosen) ==
    /\ chosen # {} /\ CanBuild(Book(chosen), Held, now, release)
    /\ portfolio' = [at |-> now, release |-> release, held |-> Held,
                     positions |-> {a \in chosen : a.weight > 0}]
    /\ prior' = [s \in Symbols |-> PriorAfter(s, chosen)]
    /\ UNCHANGED <<now, release, research, proposals, approvals, basis>>

\* Prices move a weight off what was approved, once between two portfolios; what
\* the next review is told is a share of the whole.
Drift(s, by) ==
    /\ prior[s].weight > 0 /\ prior[s].weight % Quantum = 0
    /\ prior[s].weight + by \in 0..Whole
    /\ prior' = [prior EXCEPT ![s].weight = @ + by]
    /\ UNCHANGED <<now, release, research, proposals, approvals, portfolio, basis>>

Next ==
    \/ Tick
    \/ \E c \in DOMAIN Cases : OpenCase(c)
    \/ \E batch \in EvidenceBatches : Collect(batch)
    \/ \E batch \in OutcomeBatches : Label(batch)
    \/ \E c \in opened, e \in Expectations, p \in Payoffs : Review(Cases[c], e, p)
    \/ \E i \in DOMAIN proposals, share \in ApprovedShares :
          Approve(i, (proposals[i].target * share) \div 100)
    \/ \E chosen \in SUBSET approvals : Build(chosen)
    \/ \E s \in Symbols, by \in Drifts : Drift(s, by)

Spec == Init /\ [][Next]_vars

-----------------------------------------------------------------------------

CaseOf(p) == Cases[p.belief.case]

\* What a decision rested on, and the decision again from what can be read now.
Seen(i) == Visible(Observations(CaseOf(proposals[i]), basis[i]), proposals[i].belief.asof)

Again(i) ==
    LET p == proposals[i]
        belief == Belief(CaseOf(p), Archived, p.belief.asof, p.belief.release)
    IN  Proposal(CaseOf(p), belief, p.expectation, p.payoff, p.prior)

\* Archived after the decision although it was available by then: evidence on the
\* case, and measurements of a source and method that the decision relied on.
LateEvidence(i) ==
    {e \in archive \ basis[i].evidence :
        /\ Evidence[e].case = CaseOf(proposals[i]).id
        /\ Evidence[e].available <= proposals[i].belief.asof}

LateLabels(i) ==
    {l \in labels \ basis[i].labels :
        /\ Outcomes[l].availableAt <= proposals[i].belief.asof
        /\ Outcomes[l].layer = Measurement
        /\ \E o \in Seen(i) : Outcomes[l].source = o.source /\ Outcomes[l].method = o.method}

\* discretionary-fundamental.md, 4.4: a decision recomputed at its own time is the
\* proposal that was made, whatever data was released and whatever archived since, as
\* long as nothing was that ought to have been there before.
OnlyLateEntriesChangeReplay ==
    \A i \in DOMAIN proposals :
        LateEvidence(i) = {} /\ LateLabels(i) = {} => Again(i) = proposals[i]

\* What of it counted, by the labels read: evidence of a source without any skill is
\* no evidence.
Counted(i) ==
    {o \in Seen(i) : Quality(o, Labels(basis[i]), proposals[i].belief.asof) > 0}

\* A position in a portfolio rests on two clusters of evidence that counted and is not
\* price, on no falsifier that counted, and is within the cap of its stage; all of that
\* under the portfolio's own data release, and for every symbol that was held.
PositionsAreEarned ==
    /\ \A a \in portfolio.positions :
          LET p == proposals[a.of] IN
          /\ p.belief.release = portfolio.release /\ p.belief.asof <= portfolio.at
          /\ Cardinality(ClustersOf(NonPrice(Counted(a.of)))) >= 2
          /\ \A o \in Counted(a.of) : ~o.falsifies
          /\ a.weight <= Cap(p.belief.stage)
    /\ \A s \in Held :
          \E a \in portfolio.positions : proposals[a.of].symbol = s

\* What is not added to is not sold either: a purchase refused for want of new
\* evidence leaves the position, but for less than one quantum of rounding.
BlockedAddKeepsPosition ==
    \A i \in DOMAIN proposals :
        LET p == proposals[i] IN
        p.blocked => /\ p.target <= p.prior.weight
                     /\ p.prior.weight < p.target + Quantum

\* adr-0003-discretionary-strategy.md:37, "a position is added to only on new
\* operating evidence; a rising price is no reason": where a proposal adds, there
\* is evidence other than price that the earlier decision had not seen.
AddsNeedOperatingEvidence ==
    \A i \in DOMAIN proposals :
        LET p == proposals[i] IN
        p.action = "ADD" => \E o \in NonPrice(Seen(i)) : o.id \notin p.prior.hash.evidence
=============================================================================
