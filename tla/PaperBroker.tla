---------------------------- MODULE PaperBroker ----------------------------
(***************************************************************************)
(* PaperBroker over its PaperBrokerState (execution/paper/broker.py).  An  *)
(* order's id is its place in orders, so Len(orders) is the state's        *)
(* sequence number; Symbol and money are numbers and small sets.           *)
(***************************************************************************)
EXTENDS Integers, Sequences, Sums

CONSTANTS
    Keys, Symbols,
    Requests,           \* broker order requests: [key, symbol, side, quantity]
    Prices,             \* prices set_price may be given
    InitialCash, InitialPositions

ASSUME BrokerAssumption ==
    /\ Requests \subseteq [key : Keys, symbol : Symbols, side : {"BUY", "SELL"},
                           quantity : Nat \ {0}]
    /\ Prices \subseteq Nat \ {0}
    /\ InitialCash \in Nat
    /\ InitialPositions \in [Symbols -> Nat]

VARIABLES
    cash, positions,
    prices,     \* 0 where no price is set
    orders,     \* orders by id, in the order of submission
    index,      \* idempotency_index: order id by key, 0 where there is none
    fills

brokerVars == <<cash, positions, prices, orders, index, fills>>

Order == [id : Nat \ {0}, request : Requests,
          status : {"SUBMITTED", "FILLED", "REJECTED", "CANCELLED"}, filled : Nat]
Fill == [order : Nat \ {0}, symbol : Symbols, side : {"BUY", "SELL"},
         quantity : Nat \ {0}, price : Prices]

TypeOK ==
    /\ cash \in Int
    /\ positions \in [Symbols -> Int]
    /\ prices \in [Symbols -> Prices \cup {0}]
    /\ orders \in Seq(Order)
    /\ index \in [Keys -> 0..Len(orders)]
    /\ fills \in Seq(Fill)

Init ==
    /\ cash = InitialCash
    /\ positions = InitialPositions
    /\ prices = [s \in Symbols |-> 0]
    /\ orders = <<>>
    /\ index = [k \in Keys |-> 0]
    /\ fills = <<>>

SetPrice(s, p) ==
    /\ prices' = [prices EXCEPT ![s] = p]
    /\ UNCHANGED <<cash, positions, orders, index, fills>>

Notional(request) == prices[request.symbol] * request.quantity

\* Mutant: a purchase is not held against the cash.
OutcomeOnCredit(request) ==
    IF prices[request.symbol] = 0 THEN "SUBMITTED"
    ELSE IF request.side = "SELL" /\ request.quantity > positions[request.symbol]
         THEN "REJECTED"
         ELSE "FILLED"

\* What becomes of a new order: without a price it rests, and nothing but a
\* cancellation moves it again; otherwise it is filled or refused at once.
Outcome(request) ==
    IF prices[request.symbol] = 0 THEN "SUBMITTED"
    ELSE IF \/ request.side = "BUY" /\ Notional(request) > cash
            \/ request.side = "SELL" /\ request.quantity > positions[request.symbol]
         THEN "REJECTED"
         ELSE "FILLED"

\* Mutant: the filled quantity is left at its default.
NewOrderUnfilled(request) ==
    [id |-> Len(orders) + 1, request |-> request, status |-> Outcome(request), filled |-> 0]

NewOrder(request) ==
    [id |-> Len(orders) + 1, request |-> request, status |-> Outcome(request),
     filled |-> IF Outcome(request) = "FILLED" THEN request.quantity ELSE 0]

\* Mutant: both sides are booked as purchases.
BookAsBuy(request) ==
    /\ cash' = cash - Notional(request)
    /\ positions' = [positions EXCEPT ![request.symbol] = @ + request.quantity]

\* Cash and positions after request is filled.
Book(request) ==
    IF request.side = "BUY"
    THEN /\ cash' = cash - Notional(request)
         /\ positions' = [positions EXCEPT ![request.symbol] = @ + request.quantity]
    ELSE /\ cash' = cash + Notional(request)
         /\ positions' = [positions EXCEPT ![request.symbol] = @ - request.quantity]

\* Mutant: the idempotency index is not consulted.
ExistingNever(request) == 0

\* The id of the order already placed under the request's key, 0 if there is none.
Existing(request) == index[request.key]

\* The order submit_order returns.
Returned(request) ==
    IF Existing(request) # 0 THEN orders[Existing(request)] ELSE NewOrder(request)

\* The order is stored and indexed, then filled if it can be.
Place(request) ==
    /\ orders' = Append(orders, NewOrder(request))
    /\ index' = [index EXCEPT ![request.key] = Len(orders) + 1]
    /\ IF Outcome(request) = "FILLED"
       THEN /\ Book(request)
            /\ fills' = Append(fills, [order |-> Len(orders) + 1, symbol |-> request.symbol,
                                       side |-> request.side, quantity |-> request.quantity,
                                       price |-> prices[request.symbol]])
       ELSE UNCHANGED <<cash, positions, fills>>
    /\ UNCHANGED prices

\* submit_order: a known key answers with its order and changes nothing.
SubmitOrder(request) ==
    IF Existing(request) # 0 THEN UNCHANGED brokerVars ELSE Place(request)

CancelOrder(id) ==
    /\ orders[id].status = "SUBMITTED"
    /\ orders' = [orders EXCEPT ![id].status = "CANCELLED"]
    /\ UNCHANGED <<cash, positions, prices, index, fills>>

Next ==
    \/ \E s \in Symbols, p \in Prices : SetPrice(s, p)
    \/ \E request \in Requests : SubmitOrder(request)
    \/ \E id \in DOMAIN orders : CancelOrder(id)

Spec == Init /\ [][Next]_brokerVars

-----------------------------------------------------------------------------

\* However the account is traded, it never owes cash or shares.
Solvent == cash >= 0 /\ \A s \in Symbols : positions[s] >= 0

\* status.md:165, "a repeated intent places no second order": a key has at most
\* one order, the one the index names, even when requests under it differ.
OneOrderPerKey ==
    /\ \A id \in DOMAIN orders : index[orders[id].request.key] = id
    /\ \A k \in Keys : index[k] # 0 => orders[index[k]].request.key = k

\* An order is filled in full and recorded by exactly one fill, or not at all.
FillsMatchOrders ==
    /\ \A i \in DOMAIN fills :
          /\ fills[i].order \in DOMAIN orders
          /\ LET order == orders[fills[i].order] IN
             /\ order.status = "FILLED"
             /\ fills[i].symbol = order.request.symbol /\ fills[i].side = order.request.side
             /\ fills[i].quantity = order.request.quantity
    /\ \A i, j \in DOMAIN fills : fills[i].order = fills[j].order => i = j
    /\ \A id \in DOMAIN orders :
          IF orders[id].status = "FILLED"
          THEN /\ orders[id].filled = orders[id].request.quantity
               /\ \E i \in DOMAIN fills : fills[i].order = id
          ELSE orders[id].filled = 0

\* The sum of f[i] over the fills.
SumOfFills(f) == SumUpTo(f, Len(fills))

Signed(fill, x) == IF fill.side = "BUY" THEN x ELSE -x

\* The account can be rebuilt from the fills the broker reports: query_account
\* and query_fills agree, whatever prices moved in between.
AccountExplainedByFills ==
    /\ cash = InitialCash - SumOfFills([i \in DOMAIN fills |->
                                Signed(fills[i], fills[i].price * fills[i].quantity)])
    /\ \A s \in Symbols :
          positions[s] = InitialPositions[s] + SumOfFills([i \in DOMAIN fills |->
                IF fills[i].symbol = s THEN Signed(fills[i], fills[i].quantity) ELSE 0])

\* An order that was filled, refused or cancelled stays as it is, a resting one
\* can only be cancelled, and fills are never taken back.
OrdersOnlyClose ==
    [][/\ \A id \in DOMAIN orders :
            \/ orders'[id] = orders[id]
            \/ /\ orders[id].status = "SUBMITTED"
               /\ orders'[id] = [orders[id] EXCEPT !.status = "CANCELLED"]
       /\ \A i \in DOMAIN fills : fills'[i] = fills[i]]_brokerVars
=============================================================================
