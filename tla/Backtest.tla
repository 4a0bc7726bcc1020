------------------------------ MODULE Backtest ------------------------------
(***************************************************************************)
(* EventDrivenBacktest.run (backtest/event_engine/engine.py) over its      *)
(* event queue, order book, matcher and ledger.  A session of day d opens  *)
(* at 2d and closes at 2d + 1; an order's id is its place in orders.  Bars *)
(* of a session are taken when it opens; the strategy may ask for anything.*)
(* Closing prices, the equity curve and average costs are left out: no     *)
(* decision of the engine reads them.                                      *)
(***************************************************************************)
EXTENDS Matching, Sequences, Sums

CONSTANTS
    Symbols, Calendars,     \* sequences of trade dates handed to run
    Markets,                \* what a session may bring, per symbol
    Requests, MaxOrders,    \* what the strategy may ask for, how often in all
    InitialCash, Matchers

NoBar == [open |-> 0, volume |-> 0, status |-> "unknown"]

BacktestAssumption ==
    /\ Calendars \subseteq Seq(Nat)
    /\ Markets \subseteq [Symbols -> [open : Nat \ {0}, volume : Nat,
           status : {"normal", "suspended", "limit_up", "limit_down", "unknown"}] \cup {NoBar}]
    /\ Requests \subseteq [symbol : Symbols, side : {"BUY", "SELL"}, quantity : Nat \ {0}]
    /\ InitialCash \in Nat /\ Matchers \subseteq {"ashare", "next_open"} /\ MaxOrders \in Nat

VARIABLES
    matcher, calendar,
    stage,          \* "start", "loop", "done", or why run raised
    queue, clock,   \* scheduled events; time of the last one popped
    market,         \* the bars of the session that is open or just closed
    pending,        \* eligible orders of this open not yet looked at, in book order
    orders,         \* the order book
    cash, position, fills   \* the ledger

vars == <<matcher, calendar, stage, queue, clock, market, pending, orders, cash, position, fills>>
session == <<queue, clock, market>>
ledger == <<cash, position, fills>>

OpenAt(day) == 2 * day
CloseAt(day) == 2 * day + 1

Init ==
    /\ matcher \in Matchers
    /\ calendar \in Calendars
    /\ stage = "start"
    /\ queue = {} /\ clock = -1
    /\ market = [s \in Symbols |-> NoBar]
    /\ pending = {} /\ orders = <<>>
    /\ cash = InitialCash * Base * Base
    /\ position = [s \in Symbols |-> 0]
    /\ fills = <<>>

\* Strictly increasing days are strictly increasing, non-overlapping sessions.
Chronological ==
    \A i \in 1..Len(calendar) : i > 1 => calendar[i - 1] < calendar[i]

SessionEvents ==
    UNION {{[at |-> OpenAt(calendar[i]), priority |-> 10, sequence |-> 2 * i - 1],
            [at |-> CloseAt(calendar[i]), priority |-> 40, sequence |-> 2 * i]}
           : i \in 1..Len(calendar)}

Schedule ==
    /\ stage = "start"
    /\ IF calendar # <<>> /\ Chronological
       THEN stage' = "loop" /\ queue' = SessionEvents
       ELSE stage' = "bad sessions" /\ UNCHANGED queue
    /\ UNCHANGED <<matcher, calendar, clock, market, pending, orders, ledger>>

Before(e, f) ==
    \/ e.at < f.at
    \/ e.at = f.at /\ e.priority < f.priority
    \/ e.at = f.at /\ e.priority = f.priority /\ e.sequence < f.sequence

\* heappop; its refusal of a clock that runs backwards never bites (FillsAreAccepted).
Pops(e) ==
    /\ stage = "loop" /\ pending = {}
    /\ e \in queue /\ \A f \in queue \ {e} : Before(e, f)

Advance(e) ==
    /\ Pops(e)
    /\ queue' = queue \ {e}
    /\ clock' = e.at

Eligible(at) ==
    {i \in 1..Len(orders) : /\ orders[i].status \in {"OPEN", "PARTIALLY_FILLED"}
                            /\ orders[i].submitted < at}

OpenSession(e) ==
    /\ e.priority = 10
    /\ Advance(e)
    /\ market' \in {m \in Markets : \E s \in Symbols : m[s] # NoBar}
    /\ pending' = Eligible(e.at)
    /\ UNCHANGED <<matcher, calendar, stage, orders, ledger>>

\* _maximum_executable: without fees and slippage, and negative when cash is.
Maximum(order) ==
    IF order.side = "SELL" THEN position[order.symbol]
    ELSE cash \div (market[order.symbol].open * Base * Base)

Matched(order) ==
    IF matcher = "ashare"
    THEN Ashare(order, market[order.symbol], Maximum(order), cash)
    ELSE NextOpen(order, market[order.symbol], Maximum(order))

\* OrderBook.validate_fill and PortfolioLedger.validate_fill.
Refused(order, fill) ==
    \/ order.status \notin {"OPEN", "PARTIALLY_FILLED"}
    \/ fill.quantity > order.quantity - order.filled
    \/ clock <= order.submitted
    \/ fills # <<>> /\ clock < fills[Len(fills)].at
    \/ order.side = "BUY" /\ Money(fill.price, fill.quantity) + fill.fee > cash
    \/ order.side = "SELL" /\ fill.quantity > position[order.symbol]

Filled(order, quantity) ==
    [order EXCEPT !.filled = @ + quantity,
                  !.status = IF order.filled + quantity = order.quantity
                             THEN "FILLED" ELSE "PARTIALLY_FILLED"]

\* Mutant: the fee is taken from the cash twice.
BookChargingTwice(order, fill) ==
    LET value == Money(fill.price, fill.quantity) IN
    /\ cash' = cash + (IF order.side = "BUY" THEN -value - fill.fee ELSE value) - fill.fee
    /\ position' = [position EXCEPT ![order.symbol] =
                       IF order.side = "BUY" THEN @ + fill.quantity ELSE @ - fill.quantity]

\* PortfolioLedger.apply_fill: the commission of a small sale may exceed it.
Book(order, fill) ==
    LET value == Money(fill.price, fill.quantity) IN
    /\ cash' = cash + (IF order.side = "BUY" THEN -value ELSE value) - fill.fee
    /\ position' = [position EXCEPT ![order.symbol] =
                       IF order.side = "BUY" THEN @ + fill.quantity ELSE @ - fill.quantity]

ApplyFill(i, fill) ==
    /\ orders' = [orders EXCEPT ![i] = Filled(orders[i], fill.quantity)]
    /\ Book(orders[i], fill)
    /\ fills' = Append(fills, [order |-> i, symbol |-> orders[i].symbol,
                               side |-> orders[i].side, quantity |-> fill.quantity,
                               price |-> fill.price, fee |-> fill.fee, at |-> clock])

\* Mutant: an order with a remainder is looked at again at the same open.
RestAgain(i) ==
    IF /\ market[orders[i].symbol] # NoBar
       /\ Matched(orders[i]).quantity \in 1..(orders[i].quantity - orders[i].filled - 1)
    THEN pending ELSE pending \ {i}

Rest(i) == pending \ {i}

MatchOrder(i) ==
    /\ stage = "loop" /\ \A j \in pending : i <= j
    /\ UNCHANGED <<matcher, calendar, session>>
    /\ LET order == orders[i]
           fill == Matched(order)
       IN  \/ /\ market[order.symbol] = NoBar
              /\ pending' = Rest(i)
              /\ UNCHANGED <<stage, orders, ledger>>
           \/ /\ market[order.symbol] # NoBar
              /\ \/ matcher = "next_open"
                 \/ ~Blocked(order.side, market[order.symbol].status)
              /\ Maximum(order) < 0
              /\ stage' = "negative maximum"
              /\ UNCHANGED <<pending, orders, ledger>>
           \/ /\ market[order.symbol] # NoBar
              /\ \/ Maximum(order) >= 0
                 \/ matcher = "ashare" /\ Blocked(order.side, market[order.symbol].status)
              /\ IF fill.quantity = 0
                 THEN pending' = Rest(i) /\ UNCHANGED <<stage, orders, ledger>>
                 ELSE IF Refused(order, fill)
                 THEN stage' = "fill refused" /\ UNCHANGED <<pending, orders, ledger>>
                 ELSE ApplyFill(i, fill) /\ pending' = Rest(i) /\ UNCHANGED stage

\* PortfolioLedger.snapshot needs a closing price for whatever is held.
Unmarked == \E s \in Symbols : position[s] # 0 /\ market[s] = NoBar

Submit(request, at) ==
    [symbol |-> request.symbol, side |-> request.side, quantity |-> request.quantity,
     submitted |-> at, filled |-> 0, status |-> "OPEN"]

CloseSession(e) ==
    /\ e.priority = 40
    /\ Advance(e)
    /\ IF Unmarked
       THEN stage' = "missing mark price" /\ UNCHANGED orders
       ELSE /\ UNCHANGED stage
            /\ \E n \in 0..(MaxOrders - Len(orders)) : \E asked \in [1..n -> Requests] :
                  orders' = orders \o [k \in 1..n |-> Submit(asked[k], e.at)]
    /\ UNCHANGED <<matcher, calendar, market, pending, ledger>>

Finish ==
    /\ stage = "loop" /\ queue = {} /\ pending = {}
    /\ stage' = "done"
    /\ UNCHANGED <<matcher, calendar, session, pending, orders, ledger>>

Next ==
    \/ Schedule \/ Finish
    \/ \E i \in pending : MatchOrder(i)
    \/ \E e \in queue : OpenSession(e) \/ CloseSession(e)

Spec == Init /\ [][Next]_vars

-----------------------------------------------------------------------------
\* The sum of v[n] over the fills.
Total(v) == SumUpTo(v, Len(fills))

\* What a fill adds to the cash, to the position in s, and to what order i has.
Proceeds(f) ==
    (IF f.side = "BUY" THEN -Money(f.price, f.quantity) ELSE Money(f.price, f.quantity)) - f.fee
Gain(f, s) ==
    IF f.symbol # s THEN 0 ELSE IF f.side = "BUY" THEN f.quantity ELSE -f.quantity
Share(f, i) == IF f.order = i THEN f.quantity ELSE 0

TypeOK ==
    /\ stage \in {"start", "loop", "done", "bad sessions", "negative maximum",
                  "fill refused", "missing mark price"}
    /\ cash \in Int /\ position \in [Symbols -> Nat]
    /\ \A i \in 1..Len(orders) : orders[i].filled \in 0..orders[i].quantity
    /\ pending \subseteq 1..Len(orders)

\* Cash, every position and every order's filled quantity are exactly what the
\* fills add up to: book and ledger never drift apart over a run.
AccountMatchesFills ==
    /\ cash = InitialCash * Base * Base + Total([n \in 1..Len(fills) |-> Proceeds(fills[n])])
    /\ \A s \in Symbols : position[s] = Total([n \in 1..Len(fills) |-> Gain(fills[n], s)])
    /\ \A i \in 1..Len(orders) :
          orders[i].filled = Total([n \in 1..Len(fills) |-> Share(fills[n], i)])

\* What the matcher offers, book and ledger take: the engine's estimate of the
\* largest quantity ignores fees and slippage, yet no run ends in a refused fill;
\* nor does the queue ever hold an event that is earlier than its clock.
FillsAreAccepted ==
    /\ stage # "fill refused"
    /\ \A e \in queue : e.at > clock

\* No order trades on the day whose close produced it, and none trades twice at
\* one open; an order partly filled has to wait for the next one.
TradesAtLaterOpens ==
    \A m \in 1..Len(fills) :
        /\ \E i \in 1..Len(calendar) : fills[m].at = OpenAt(calendar[i])
        /\ fills[m].at > orders[fills[m].order].submitted
        /\ \A n \in 1..(m - 1) : fills[n].order = fills[m].order => fills[n].at < fills[m].at

\* Only the commission of a sale too small to pay it overdraws the account, after
\* which nothing is bought; a run that fails on a negative quantity fails for that.
OnlyCommissionOverdraws ==
    /\ stage = "negative maximum" => cash < 0
    /\ cash < 0 =>
          \E m \in 1..Len(fills) :
              /\ fills[m].side = "SELL"
              /\ fills[m].fee > Money(fills[m].price, fills[m].quantity)
              /\ \A n \in m..Len(fills) : fills[n].side = "SELL"
=============================================================================
