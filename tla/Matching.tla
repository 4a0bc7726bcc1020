------------------------------ MODULE Matching ------------------------------
(***************************************************************************)
(* What an order gets at the open (backtest/matching, backtest/costs):     *)
(* pure functions of the order, the bar, the status and the account.       *)
(* Rates are shares of Base; prices of an execution are counted in         *)
(* 1/Base, money in 1/(Base * Base), so that every product is exact.       *)
(***************************************************************************)
EXTENDS Integers

CONSTANTS
    Base, LotSize,
    Participation,      \* max_volume_participation
    Slippage,
    CommissionRate, MinimumCommission, StampDutyRate, TransferFeeRate

MatchingAssumption ==
    /\ Base \in Nat \ {0} /\ LotSize \in Nat \ {0}
    /\ Participation \in 1..Base /\ Slippage \in 0..(Base - 1)
    /\ {CommissionRate, MinimumCommission, StampDutyRate, TransferFeeRate} \subseteq Nat

Least(a, b) == IF a <= b THEN a ELSE b
Greatest(a, b) == IF a >= b THEN a ELSE b

Money(price, quantity) == price * quantity * Base

Fee(side, price, quantity) ==
    LET notional == price * quantity IN
    Greatest(notional * CommissionRate, MinimumCommission * Base * Base)
      + (IF side = "SELL" THEN notional * StampDutyRate ELSE 0)
      + notional * TransferFeeRate

NoFill == [quantity |-> 0, price |-> 0, fee |-> 0]

\* NextOpenMatcher: no costs and no market constraints.
NextOpen(order, bar, maximum) ==
    [quantity |-> Least(order.quantity - order.filled, maximum),
     price |-> bar.open * Base, fee |-> 0]

Blocked(side, status) ==
    \/ status \in {"unknown", "suspended"}
    \/ side = "BUY" /\ status = "limit_up"
    \/ side = "SELL" /\ status = "limit_down"

Lots(quantity) == (quantity \div LotSize) * LotSize

ExecutionPrice(side, bar) ==
    bar.open * (IF side = "BUY" THEN Base + Slippage ELSE Base - Slippage)

Allowed(order, bar, maximum) ==
    Lots(Least(Least(order.quantity - order.filled, maximum),
               (bar.volume * Participation) \div Base))

\* Mutant: only the price has to be covered.
AffordableBeforeFees(quantity, price, cash) ==
    {n \in 0..quantity : n % LotSize = 0 /\ Money(price, n) <= cash}

\* The numbers of shares, in lots, that cash covers with the fees.
Affordable(quantity, price, cash) ==
    {n \in 0..quantity : /\ n % LotSize = 0
                         /\ Money(price, n) + Fee("BUY", price, n) <= cash}

\* AshareOpenMatcher: whole lots, participation, slippage and fees.
Ashare(order, bar, maximum, cash) ==
    LET side == order.side
        price == ExecutionPrice(side, bar)
        allowed == Allowed(order, bar, maximum)
        affordable == Affordable(allowed, price, cash)
        quantity == IF side = "SELL" THEN allowed
                    ELSE CHOOSE n \in affordable \cup {0} : \A m \in affordable : m <= n
    IN  IF Blocked(side, bar.status) \/ quantity = 0 THEN NoFill
        ELSE [quantity |-> quantity, price |-> price, fee |-> Fee(side, price, quantity)]
=============================================================================
