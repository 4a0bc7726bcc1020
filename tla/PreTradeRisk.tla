---------------------------- MODULE PreTradeRisk ----------------------------
(***************************************************************************)
(* PreTradeRiskEngine (portfolio/risk/pretrade.py): the pure check every   *)
(* order passes before it is sent.  Times are numbers, an account is a     *)
(* record of its cash and of its positions by symbol.                      *)
(***************************************************************************)
EXTENDS Integers

CONSTANTS
    MaximumOrderNotional,
    ParticipationNum, ParticipationDen,     \* maximum_volume_participation, a fraction
    MaximumMarketDataAge,
    ForbidSt

ASSUME LimitsAssumption ==
    /\ MaximumOrderNotional \in Nat
    /\ ParticipationNum \in Nat
    /\ ParticipationDen \in Nat \ {0}
    /\ MaximumMarketDataAge \in Nat
    /\ ForbidSt \in BOOLEAN

\* The reasons to refuse request in context; the order is approved if there are none.
RejectReasons(request, context) ==
    LET notional == context.price * request.quantity
        age      == context.now - context.marketDataAt
        When(condition, reason) == IF condition THEN {reason} ELSE {}
    IN  When(~context.dataReleasePublished, "DATA_RELEASE_UNPUBLISHED")
        \cup When(age > MaximumMarketDataAge \/ age < 0, "MARKET_DATA_STALE")
        \cup When(context.suspended, "SECURITY_SUSPENDED")
        \cup When(ForbidSt /\ context.isSt, "SECURITY_ST")
        \cup When(notional > MaximumOrderNotional, "ORDER_NOTIONAL_LIMIT")
        \cup When(\/ context.dailyVolume <= 0
                  \/ request.quantity * ParticipationDen > context.dailyVolume * ParticipationNum,
                  "VOLUME_PARTICIPATION_LIMIT")
        \cup When(request.side = "BUY" /\ notional > context.account.cash, "INSUFFICIENT_CASH")
        \cup When(/\ request.side = "SELL"
                  /\ request.quantity > context.account.positions[request.symbol],
                  "INSUFFICIENT_POSITION")
=============================================================================
