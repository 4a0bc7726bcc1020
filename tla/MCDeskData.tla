----------------------------- MODULE MCDeskData -----------------------------
(* Research cases, evidence, labels and expectations for instances of Desk:
   a case x whose evidence grows, is contradicted and whose source is calibrated,
   and a case y, opened later, that is sound from the start. *)
EXTENDS Integers, Sequences

Variables == {"orders", "share", "margin"}

Indicator == [clusters |-> {"c1", "c2"}, leadDays |-> 30]

Hypothesis(kind, prior) == [kind |-> kind, prior |-> prior, falsifiers |-> 1]

Node(stage, v) == [stage |-> stage, unknowns |-> 1, indicators |-> {<<v, 1>>}]

Case(id, created) ==
    [id |-> id, symbol |-> id, created |-> created,
     signal |-> [symbol |-> id, observed |-> 0, available |-> created],
     hypotheses |-> [f |-> Hypothesis("FUNDAMENTAL", 50),
                     t |-> Hypothesis("FLOW_TECHNICAL", 25), n |-> Hypothesis("NOISE", 25)],
     variables |-> [v \in Variables |->
                       [falsifiers |-> 1, indicators |-> [i \in {<<v, 1>>, <<v, 2>>} |-> Indicator]]],
     chain |-> <<Node("INDUSTRY_CHANGE", "orders"), Node("CUSTOMER_BEHAVIOR", "orders"),
                 Node("COMPANY_ORDERS", "orders"), Node("REVENUE", "share"),
                 Node("MARGIN", "margin"), Node("CASH_FLOW", "margin"),
                 Node("SHAREHOLDER_RETURN", "margin")>>]

\* The last three are refused: a chain cut short, priors that do not add up, and a
\* signal that comes after the case.
MCCases ==
    [x |-> Case("x", 0), y |-> Case("y", 1),
     short |-> [Case("short", 0) EXCEPT !.chain = Tail(@)],
     priors |-> [Case("priors", 0) EXCEPT !.hypotheses.n.prior = 20],
     early |-> [Case("early", 0) EXCEPT !.signal.available = 1]]

Observed(id, case, cluster, family, maturity, domains, collected, available, falsifies) ==
    [id |-> id, case |-> case, variable |-> "orders", source |-> id, method |-> "m1",
     family |-> family, cluster |-> cluster, maturity |-> maturity, domains |-> domains,
     observed |-> 0, published |-> 0, collected |-> collected, available |-> available,
     quality |-> [proximity |-> 2, reliability |-> 1, independence |-> 2, timeliness |-> 2,
                  gap |-> 2],
     bits |-> IF falsifies THEN [f |-> -1, t |-> 1, n |-> 1] ELSE [f |-> 2, t |-> 0, n |-> -1],
     falsifies |-> falsifies]

MCEvidence ==
    [customer |-> Observed("customer", "x", "c1", "CUSTOMER", "LEADING", {"DEMAND"}, 0, 1, FALSE),
     rival |-> Observed("rival", "x", "c2", "COMPETITOR", "LEADING", {"MARKET_SHARE"}, 0, 1, FALSE),
     price |-> Observed("price", "x", "c3", "PRICE", "LEADING", {"OTHER"}, 1, 2, FALSE),
     results |-> Observed("results", "x", "c4", "FINANCIAL_RESULT", "FINANCIAL_CONFIRMED",
                          {"PROFITABILITY", "CASH_FLOW"}, 1, 2, FALSE),
     denial |-> Observed("denial", "x", "c1", "CUSTOMER", "OPERATING_CONFIRMED", {"DEMAND"},
                         1, 2, TRUE),
     orders |-> Observed("orders", "y", "c1", "CHANNEL", "OPERATING_CONFIRMED", {"DEMAND"},
                         0, 1, FALSE),
     supply |-> Observed("supply", "y", "c2", "SUPPLIER", "LEADING", {"DEMAND"}, 0, 1, FALSE)]

MCEvidenceBatches ==
    {{"customer", "rival", "orders", "supply"}, {"price", "results", "denial"}}
PriceAfterEntry == {{"customer", "rival"}, {"price"}}

Outcome(id, source, layer, realized) ==
    [id |-> id, source |-> source, method |-> "m1", layer |-> layer, predicted |-> 2,
     realized |-> realized, predictedAt |-> 0, availableAt |-> 2]

\* A measurement that came true, one that did not, and a label of another layer.
MCOutcomes ==
    [l1 |-> Outcome("l1", "customer", "MEASUREMENT", 2),
     l2 |-> Outcome("l2", "denial", "MEASUREMENT", 0),
     l3 |-> Outcome("l3", "rival", "INVESTMENT", 0)]

MCOutcomeBatches == {{"l1", "l2", "l3"}}

Expectation(case, implied, available) ==
    [case |-> case, hypothesis |-> "f", implied |-> implied, price |-> 100,
     observed |-> 0, available |-> available]

\* What the market implies of y is known a day later.
MCExpectations == {Expectation("x", 20, 1), Expectation("y", 20, 2)}

MCDrifts == {-3}

MCPayoffs == {[upside |-> 6, loss |-> 3, correlation |-> 5]}
=============================================================================
