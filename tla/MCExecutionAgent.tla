-------------------------- MODULE MCExecutionAgent --------------------------
(* Instances of ExecutionAgent for TLC. *)
EXTENDS ExecutionAgent

CONSTANTS k1, k2

\* Two orders, and a request that reuses the key of the first.
MCRequests ==
    {[key |-> k1, symbol |-> "S", side |-> "BUY", quantity |-> 1],
     [key |-> k1, symbol |-> "S", side |-> "BUY", quantity |-> 2],
     [key |-> k2, symbol |-> "S", side |-> "SELL", quantity |-> 1]}

MCContext(published) ==
    [now |-> 10, marketDataAt |-> 9, price |-> 1, dailyVolume |-> 100, suspended |-> FALSE,
     isSt |-> FALSE, account |-> [cash |-> 5, positions |-> [s \in {"S"} |-> 5]],
     dataReleasePublished |-> published]

\* One context that approves and one that refuses.
MCContexts == {MCContext(TRUE), MCContext(FALSE)}
=============================================================================
