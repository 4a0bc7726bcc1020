--------------------------- MODULE MCPaperTrading ---------------------------
(* Instance of PaperTrading for TLC. *)
EXTENDS PaperTrading

CONSTANTS k1, k2, s1

Ask(k, side, quantity) == [key |-> k, symbol |-> s1, side |-> side, quantity |-> quantity]

\* A purchase that takes most of the cash, a sale, and a purchase of another
\* size under the key of the sale.
MCRequests == {Ask(k1, "BUY", 2), Ask(k2, "SELL", 1), Ask(k2, "BUY", 1)}

Quote(published) ==
    [now |-> 10, marketDataAt |-> 9, price |-> 1, dailyVolume |-> 100, suspended |-> FALSE,
     isSt |-> FALSE, dataReleasePublished |-> published]
MCQuotes == {Quote(TRUE), Quote(FALSE)}

MCInitialPositions == [s \in {s1} |-> 1]
=============================================================================
