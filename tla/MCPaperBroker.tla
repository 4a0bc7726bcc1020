--------------------------- MODULE MCPaperBroker ---------------------------
(* Instance of PaperBroker for TLC. *)
EXTENDS PaperBroker

CONSTANTS k1, k2, k3, s1, s2

Ask(k, s, side, quantity) == [key |-> k, symbol |-> s, side |-> side, quantity |-> quantity]

\* A round trip in one symbol, a second symbol, and two requests under one key.
MCRequests ==
    {Ask(k1, s1, "BUY", 2), Ask(k1, s1, "BUY", 1), Ask(k2, s1, "SELL", 1),
     Ask(k2, s1, "SELL", 3), Ask(k3, s2, "BUY", 1), Ask(k3, s2, "SELL", 1)}

MCInitialPositions == [s \in {s1, s2} |-> IF s = s1 THEN 1 ELSE 0]
=============================================================================
