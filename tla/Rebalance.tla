----------------------------- MODULE Rebalance -----------------------------
(***************************************************************************)
(* From a target portfolio to a position: RebalancePlanner.plan            *)
(* (portfolio/construction/rebalance.py) over what the last account        *)
(* snapshot said, ExecutionOrderStore.approve of the planned orders, and   *)
(* reconcile_accounts (execution/reconciliation/service.py).  Plans may be *)
(* made at any moment and as often as one likes; orders trade in parts and *)
(* may be closed early.  Prices, weights and equity are scaled to integers;*)
(* account and strategy, the same for every key, are left out.             *)
(***************************************************************************)
EXTENDS Integers, FiniteSets, FiniteSetsExt

CONSTANTS
    Symbols,        \* numbers, in their order
    Portfolios,     \* target portfolios: [weights, version]
    Quotes,         \* prices plan may be given, 0 where there is none
    Equity, LotSize,
    Whole,          \* a weight of one
    CashTolerance,
    FirstAccounts,
    MaxDays         \* bound: trade dates

RebalanceAssumption ==
    /\ IsFiniteSet(Symbols) /\ Symbols \subseteq Nat
    /\ Quotes \subseteq [Symbols -> Nat]
    /\ Equity \in Nat \ {0} /\ LotSize \in Nat \ {0} /\ Whole \in Nat \ {0}
    /\ CashTolerance \in Nat /\ MaxDays \in Nat
    /\ \A a \in FirstAccounts :
          DOMAIN a.positions \subseteq Symbols /\ a.positions \in [DOMAIN a.positions -> Nat]

VARIABLES
    day, target, quotes,    \* what is to be reached at which prices
    broker,     \* the broker's account: cash and positions
    local,      \* the last snapshot of it
    orders,     \* ExecutionOrderStore, with what became of each order
    start,      \* history: positions when target and prices were set
    unlearned   \* history: shares traded since the snapshot, net, per symbol

vars == <<day, target, quotes, broker, local, orders, start, unlearned>>

At(positions, s) == IF s \in DOMAIN positions THEN positions[s] ELSE 0

TotalWeight(p) == MapThenSumSet(LAMBDA s : p.weights[s], DOMAIN p.weights)

\* TargetPortfolio: a weight per symbol, of one in all.
SoundPortfolio(p) ==
    /\ DOMAIN p.weights \subseteq Symbols
    /\ \A s \in DOMAIN p.weights : p.weights[s] \in 0..Whole
    /\ TotalWeight(p) <= Whole

Init ==
    /\ day = 1
    /\ target \in {p \in Portfolios : SoundPortfolio(p)} /\ quotes \in Quotes
    /\ broker \in FirstAccounts /\ local = broker
    /\ orders = {}
    /\ start = broker.positions
    /\ unlearned = [s \in Symbols |-> 0]

-----------------------------------------------------------------------------
(* RebalancePlanner.plan. *)

Universe == DOMAIN target.weights \cup DOMAIN local.positions

\* Whole lots, rounded down.
TargetQuantity(s) ==
    IF quotes[s] = 0 THEN 0
    ELSE ((Equity * At(target.weights, s)) \div (Whole * quotes[s] * LotSize)) * LotSize

Delta(s) == TargetQuantity(s) - At(local.positions, s)

\* An order's key is made of its first four fields, its client id of key and version.
OrderFor(s) ==
    [day |-> day, symbol |-> s, side |-> IF Delta(s) > 0 THEN "BUY" ELSE "SELL",
     target |-> TargetQuantity(s), version |-> target.version,
     quantity |-> IF Delta(s) > 0 THEN Delta(s) ELSE -Delta(s),
     filled |-> 0, open |-> TRUE]

Planned == {OrderFor(s) : s \in {u \in Universe : Delta(u) # 0}}

\* Mutant: the key is made of what is left to trade.
SameRemainder(o, p) ==
    /\ o.day = p.day /\ o.symbol = p.symbol /\ o.side = p.side /\ o.quantity = p.quantity

SameKey(o, p) ==
    /\ o.day = p.day /\ o.symbol = p.symbol /\ o.side = p.side /\ o.target = p.target

\* Sales come first.
Precedes(p, q) ==
    \/ p.side = "SELL" /\ q.side = "BUY"
    \/ p.side = q.side /\ p.symbol < q.symbol

\* approve() raises for a known key with another quantity or client id, which ends
\* the caller's loop over the plan; for the same request it changes nothing.
Conflicts(p) ==
    \E o \in orders : SameKey(o, p) /\ (o.quantity # p.quantity \/ o.version # p.version)

Approved ==
    {p \in Planned : /\ \A o \in orders : ~SameKey(o, p)
                     /\ \A q \in Planned : Conflicts(q) => Precedes(p, q)}

Plan ==
    /\ \A s \in Universe : quotes[s] > 0
    /\ Approved # {}
    /\ orders' = orders \cup Approved
    /\ UNCHANGED <<day, target, quotes, broker, local, start, unlearned>>

-----------------------------------------------------------------------------
(* What becomes of an order, and what is learnt of it. *)

Signed(o, n) == IF o.side = "BUY" THEN n ELSE -n

WithShares(positions, s, n) ==
    [u \in DOMAIN positions \cup {s} |-> IF u = s THEN At(positions, s) + n ELSE positions[u]]

Traded(o, n) ==
    [day |-> o.day, symbol |-> o.symbol, side |-> o.side, target |-> o.target,
     version |-> o.version, quantity |-> o.quantity, filled |-> o.filled + n,
     open |-> o.filled + n < o.quantity]

Withdrawn(o) ==
    [day |-> o.day, symbol |-> o.symbol, side |-> o.side, target |-> o.target,
     version |-> o.version, quantity |-> o.quantity, filled |-> o.filled, open |-> FALSE]

Trade(o, n) ==
    /\ o.open /\ n \in 1..(o.quantity - o.filled)
    /\ o.side = "SELL" => n <= At(broker.positions, o.symbol)
    /\ orders' = (orders \ {o}) \cup {Traded(o, n)}
    /\ broker' = [cash |-> broker.cash - Signed(o, n) * quotes[o.symbol],
                  positions |-> WithShares(broker.positions, o.symbol, Signed(o, n))]
    /\ unlearned' = [unlearned EXCEPT ![o.symbol] = @ + Signed(o, n)]
    /\ UNCHANGED <<day, target, quotes, local, start>>

\* Cancelled or rejected with what it has.
Close(o) ==
    /\ o.open
    /\ orders' = (orders \ {o}) \cup {Withdrawn(o)}
    /\ UNCHANGED <<day, target, quotes, broker, local, start, unlearned>>

Snapshot ==
    /\ local # broker
    /\ local' = broker
    /\ unlearned' = [s \in Symbols |-> 0]
    /\ UNCHANGED <<day, target, quotes, broker, orders, start>>

\* ReconciliationDifference; the cash has no symbol.
Cash == [field |-> "cash", symbol |-> -1]
Position(s) == [field |-> "position", symbol |-> s]

\* Mutant: only symbols that both sides know are compared.
DifferencesOfCommon(mine, theirs) ==
    (IF (IF mine.cash > theirs.cash THEN mine.cash - theirs.cash ELSE theirs.cash - mine.cash)
            > CashTolerance THEN {Cash} ELSE {})
    \cup {Position(s) : s \in {u \in DOMAIN mine.positions \cap DOMAIN theirs.positions :
                                        At(mine.positions, u) # At(theirs.positions, u)}}

\* reconcile_accounts.
Differences(mine, theirs) ==
    (IF (IF mine.cash > theirs.cash THEN mine.cash - theirs.cash ELSE theirs.cash - mine.cash)
            > CashTolerance THEN {Cash} ELSE {})
    \cup {Position(s) : s \in {u \in DOMAIN mine.positions \cup DOMAIN theirs.positions :
                                        At(mine.positions, u) # At(theirs.positions, u)}}

\* The next target, prices or day; what is planned for must rest on an account that
\* reconciles, with nothing open at the broker (trading-sop.md, before the open).
Brief(p, q, d) ==
    /\ d \in {day, day + 1} /\ d <= MaxDays
    /\ SoundPortfolio(p)
    /\ Differences(local, broker) = {} /\ \A o \in orders : ~o.open
    /\ day' = d /\ target' = p /\ quotes' = q
    /\ start' = broker.positions
    /\ UNCHANGED <<broker, local, orders, unlearned>>

Next ==
    \/ Plan
    \/ \E o \in orders : Close(o) \/ \E n \in 1..o.quantity : Trade(o, n)
    \/ Snapshot
    \/ \E p \in Portfolios, q \in Quotes, d \in 1..MaxDays : Brief(p, q, d)

Spec == Init /\ [][Next]_vars

-----------------------------------------------------------------------------

Between(x, a, b) == (a <= x /\ x <= b) \/ (b <= x /\ x <= a)

\* However often and from whatever stale snapshot the same target is planned, and
\* however the orders trade, no position goes past it or away from it.
NoOvershoot ==
    \A s \in Symbols :
        At(broker.positions, s) = At(start, s)
        \/ Between(At(broker.positions, s), At(start, s), TargetQuantity(s))

\* reconcile_accounts finds exactly the symbols in which the broker has, net, traded
\* since the snapshot, one that only the broker has heard of included.
DifferencesAreUnlearnedTrades ==
    \A s \in Symbols : Position(s) \in Differences(local, broker) <=> unlearned[s] # 0
=============================================================================
