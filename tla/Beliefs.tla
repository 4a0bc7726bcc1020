------------------------------ MODULE Beliefs ------------------------------
(***************************************************************************)
(* Belief revision of the discretionary strategy (models.py,               *)
(* calibration.py, beliefs.py): pure functions of a research case, the     *)
(* archived evidence, the calibration labels and an as-of time.  Shares    *)
(* are counted in 1/Unit and likelihood ratios in powers of two, so that   *)
(* a product of five shares is exact and a logarithm is an integer; texts  *)
(* are counted, and a hash is what goes into it.                           *)
(***************************************************************************)
EXTENDS Integers, FiniteSets, FiniteSetsExt, TLC

CONSTANTS
    Unit,
    MinimumClusters,    \* minimum_non_price_clusters
    PriorWeight         \* of the calibration ledger

BeliefsAssumption ==
    Unit \in Nat \ {0} /\ MinimumClusters \in Nat \ {0, 1} /\ PriorWeight \in Nat \ {0}

HypothesisKinds == {"FUNDAMENTAL", "FLOW_TECHNICAL", "NOISE"}
CausalStages == <<"INDUSTRY_CHANGE", "CUSTOMER_BEHAVIOR", "COMPANY_ORDERS", "REVENUE",
                  "MARGIN", "CASH_FLOW", "SHAREHOLDER_RETURN">>
CoreDomains == {"DEMAND", "MARKET_SHARE", "PROFITABILITY", "CASH_FLOW"}
Measurement == "MEASUREMENT"

\* The sum of the values of f.
SumOver(f) == MapThenSumSet(LAMBDA x : f[x], DOMAIN f)

-----------------------------------------------------------------------------
(* What the value types accept. *)

SoundSignal(signal) == signal.observed <= signal.available

SoundHypothesis(h) == h.falsifiers > 0 /\ h.prior \in 1..100

SoundIndicator(i) == Cardinality(i.clusters) >= 2 /\ i.leadDays >= 0

SoundVariable(v) ==
    /\ Cardinality(DOMAIN v.indicators) >= 2
    /\ \A i \in DOMAIN v.indicators : SoundIndicator(v.indicators[i])
    /\ v.falsifiers > 0

SoundNode(n) == n.unknowns > 0 /\ n.indicators # {}

SoundCase(case) ==
    /\ SoundSignal(case.signal)
    /\ case.signal.symbol = case.symbol /\ case.signal.available <= case.created
    /\ Cardinality(DOMAIN case.variables) = 3
    /\ \A v \in DOMAIN case.variables : SoundVariable(case.variables[v])
    /\ Cardinality(DOMAIN case.hypotheses) = 3
    /\ \A h \in DOMAIN case.hypotheses : SoundHypothesis(case.hypotheses[h])
    /\ {case.hypotheses[h].kind : h \in DOMAIN case.hypotheses} = HypothesisKinds
    /\ SumOver([h \in DOMAIN case.hypotheses |-> case.hypotheses[h].prior]) = 100
    /\ DOMAIN case.chain = DOMAIN CausalStages
    /\ \A n \in DOMAIN case.chain :
          /\ SoundNode(case.chain[n]) /\ case.chain[n].stage = CausalStages[n]
          /\ case.chain[n].indicators \subseteq
                UNION {DOMAIN case.variables[v].indicators : v \in DOMAIN case.variables}

Fundamental(case) ==
    CHOOSE h \in DOMAIN case.hypotheses : case.hypotheses[h].kind = "FUNDAMENTAL"

\* Likelihood ratios from 1/20 to 20 are from -4 to 4 bits.
SoundEvidence(o) ==
    /\ o.observed <= o.published /\ o.published <= o.collected /\ o.collected <= o.available
    /\ o.domains # {} /\ DOMAIN o.bits # {}
    /\ \A h \in DOMAIN o.bits : o.bits[h] \in -4..4
    /\ \A f \in DOMAIN o.quality : o.quality[f] \in 0..Unit

SoundOutcome(l) ==
    /\ l.predictedAt < l.availableAt
    /\ l.predicted \in 0..Unit /\ l.realized \in 0..Unit

\* _validate_observations.
Concerns(o, case) ==
    /\ o.case = case.id /\ o.variable \in DOMAIN case.variables
    /\ DOMAIN o.bits = DOMAIN case.hypotheses

-----------------------------------------------------------------------------
(* CalibrationLedger. *)

OutcomesAsof(labels, asof) == {l \in labels : l.availableAt <= asof}

\* max(0, 1 - 4 * error^2): an even forecast has no skill.
Skill(l) ==
    LET error == l.predicted - l.realized
        skill == Unit - (4 * error * error) \div Unit
    IN  IF skill > 0 THEN skill ELSE 0

\* Only measurements of the same source and method count.
Track(o, labels, asof) ==
    {l \in OutcomesAsof(labels, asof) :
        l.source = o.source /\ l.method = o.method /\ l.layer = Measurement}

Reliability(o, labels, asof) ==
    LET track == Track(o, labels, asof) IN
    (PriorWeight * o.quality.reliability + SumOver([l \in track |-> Skill(l)]))
        \div (PriorWeight + Cardinality(track))

-----------------------------------------------------------------------------
(* BayesianBeliefEngine. *)

\* Mutant: an observation is read as soon as it is in the archive.
VisibleOnceArchived(observations, asof) == {o \in observations : o.collected <= asof + 1}

Visible(observations, asof) == {o \in observations : o.available <= asof}

Quality(o, labels, asof) ==
    o.quality.proximity * Reliability(o, labels, asof) * o.quality.independence
        * o.quality.timeliness * o.quality.gap

\* What still counts, each observation with its effective quality.
Weighed(visible, labels, asof) ==
    {w \in {[item |-> o, weight |-> Quality(o, labels, asof)] : o \in visible} : w.weight > 0}

Effective(weighed) == {w.item : w \in weighed}

ClustersOf(observations) == {o.cluster : o \in observations}

NonPrice(observations) == {o \in observations : o.family # "PRICE"}

Cluster(c, weighed) == {w \in weighed : w.item.cluster = c}

BestWeight(members) == Max({w.weight : w \in members})

\* The quality-weighted average of a cluster's logarithms for a hypothesis, times the
\* cluster's best quality.
ClusterBits(members, h) ==
    (SumOver([w \in members |-> w.item.bits[h] * w.weight]) * BestWeight(members))
        \div (SumOver([w \in members |-> w.weight]) * Unit * Unit * Unit * Unit * Unit)

Bits(weighed, h) ==
    SumOver([c \in ClustersOf(Effective(weighed)) |-> ClusterBits(Cluster(c, weighed), h)])

\* The posterior of a hypothesis is its share of the sum of these odds.
Odds(case, weighed) ==
    LET bits == [h \in DOMAIN case.hypotheses |-> Bits(weighed, h)]
        least == Min({bits[h] : h \in DOMAIN bits})
    IN  [h \in DOMAIN bits |-> case.hypotheses[h].prior * 2 ^ (bits[h] - least)]

\* Mutant: clusters of price evidence count as well.
StageCountingPrices(effective) ==
    IF \E o \in effective : o.falsifies THEN "INVALIDATED"
    ELSE IF Cardinality(ClustersOf(effective)) < MinimumClusters THEN "WATCHLIST"
    ELSE "OBSERVATION"

Stage(effective) ==
    LET nonPrice == Cardinality(ClustersOf(NonPrice(effective)))
        confirmed == {o.maturity : o \in effective}
    IN  IF \E o \in effective : o.falsifies THEN "INVALIDATED"
        ELSE IF effective = {} THEN "RADAR"
        ELSE IF nonPrice = 0 THEN "HYPOTHESIS"
        ELSE IF nonPrice < MinimumClusters THEN "WATCHLIST"
        ELSE IF /\ CoreDomains \subseteq UNION {o.domains : o \in effective}
                /\ "FINANCIAL_CONFIRMED" \in confirmed THEN "CORE"
        ELSE IF confirmed \cap {"OPERATING_CONFIRMED", "FINANCIAL_CONFIRMED"} # {} THEN "EVIDENCE"
        ELSE "OBSERVATION"

\* Average of the best qualities of the non-price clusters, full at four of them.
Strength(weighed) ==
    LET clusters == ClustersOf(NonPrice(Effective(weighed)))
        n == Cardinality(clusters)
    IN  IF n = 0 THEN 0
        ELSE (SumOver([c \in clusters |-> BestWeight(Cluster(c, weighed))]) * Min({n, 4}))
                \div (4 * n)

\* _evidence_hash: method and content go with an observation's id.
EvidenceHash(case, visible, release) ==
    [case |-> case.id, release |-> release, evidence |-> {o.id : o \in visible}]

\* update: snapshot and assessment in one record.
Update(case, observations, labels, asof, release) ==
    LET visible == Visible(observations, asof)
        weighed == Weighed(visible, labels, asof)
        effective == Effective(weighed)
        odds == Odds(case, weighed)
    IN  [case |-> case.id, asof |-> asof, release |-> release,
         odds |-> odds[Fundamental(case)],
         total |-> SumOver(odds),
         stage |-> Stage(effective),
         strength |-> Strength(weighed),
         domains |-> UNION {o.domains : o \in effective},
         hash |-> EvidenceHash(case, visible, release)]
=============================================================================
