---------------------------- MODULE MCQmtTrading ----------------------------
(* Instance of QmtTrading for TLC. *)
EXTENDS QmtTrading, TLC

CONSTANTS k1, k2

Ask(k, quantity) == [key |-> k, symbol |-> "S", side |-> "BUY", quantity |-> quantity]

MCRequests == {Ask(k, 1) : k \in {k1, k2}}

\* The keys are interchangeable, and all the properties are of single states or steps.
KeySymmetry == Permutations({k1, k2})

Context(published) ==
    [now |-> 10, marketDataAt |-> 9, price |-> 1, dailyVolume |-> 100, suspended |-> FALSE,
     isSt |-> FALSE, account |-> [cash |-> 5, positions |-> [s \in {"S"} |-> 0]],
     dataReleasePublished |-> published]
MCContexts == {Context(TRUE), Context(FALSE)}
=============================================================================
