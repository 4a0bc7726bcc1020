-------------------------- MODULE PaperBrokerProofs --------------------------
(***************************************************************************)
(* Safety of the paper broker for any symbols, prices, requests and        *)
(* initial account.  The invariants are inductive together.                *)
(***************************************************************************)
EXTENDS PaperBroker, SumsProofs, SequenceTheorems

IInv == TypeOK /\ Solvent /\ OneOrderPerKey /\ FillsMatchOrders

\* The money changing hands in a priced order is a natural number.
LEMMA NotionalType ==
    ASSUME TypeOK, NEW request \in Requests
    PROVE  /\ prices[request.symbol] \in Nat /\ request.quantity \in Nat \ {0}
           /\ request.symbol \in Symbols /\ request.key \in Keys
           /\ request.side \in {"BUY", "SELL"}
           /\ Notional(request) \in Nat
  <1>1. /\ request.quantity \in Nat \ {0} /\ request.symbol \in Symbols /\ request.key \in Keys
        /\ request.side \in {"BUY", "SELL"}
    BY BrokerAssumption
  <1>2. prices[request.symbol] \in Nat
    <2>1. prices \in [Symbols -> Prices \cup {0}]
      BY DEF TypeOK
    <2>2. Prices \cup {0} \subseteq Nat
      BY BrokerAssumption
    <2> QED
      BY <1>1, <2>1, <2>2
  <1>3. \A m, n \in Nat : m * n \in Nat
    OBVIOUS
  <1> QED
    BY <1>1, <1>2, <1>3 DEF Notional

LEMMA InitEstablishes == Init => IInv
  BY BrokerAssumption DEF Init, IInv, TypeOK, Solvent, OneOrderPerKey, FillsMatchOrders

LEMMA SetPricePreserves ==
    ASSUME IInv, NEW s \in Symbols, NEW p \in Prices, SetPrice(s, p)
    PROVE  IInv'
  BY DEF IInv, TypeOK, Solvent, OneOrderPerKey, FillsMatchOrders, SetPrice

LEMMA CancelOrderPreserves ==
    ASSUME IInv, NEW id \in DOMAIN orders, CancelOrder(id)
    PROVE  IInv'
  <1>1. /\ orders \in Seq(Order) /\ orders[id] \in Order
        /\ DOMAIN orders = 1..Len(orders) /\ id \in 1..Len(orders)
    BY LenProperties, ElementOfSeq DEF IInv, TypeOK
  <1> DEFINE cancelled == [orders[id] EXCEPT !.status = "CANCELLED"]
  <1>2. /\ cancelled \in Order /\ cancelled.request = orders[id].request
        /\ cancelled.status = "CANCELLED" /\ cancelled.filled = orders[id].filled
    BY <1>1 DEF Order
  <1>3. orders' = [orders EXCEPT ![id] = cancelled] /\ orders[id].status = "SUBMITTED"
    BY DEF CancelOrder
  <1>4. /\ orders' \in Seq(Order) /\ Len(orders') = Len(orders) /\ DOMAIN orders' = DOMAIN orders
        /\ orders'[id] = cancelled
        /\ \A j \in DOMAIN orders : j # id => orders'[j] = orders[j]
    BY <1>1, <1>2, <1>3, ExceptSeq, LenProperties
  <1>5. TypeOK' /\ Solvent'
    BY <1>4 DEF IInv, TypeOK, Solvent, CancelOrder
  <1>6. OneOrderPerKey'
    BY <1>1, <1>2, <1>4 DEF IInv, TypeOK, OneOrderPerKey, CancelOrder
  <1>7. FillsMatchOrders'
    BY <1>2, <1>3, <1>4 DEF IInv, FillsMatchOrders, CancelOrder
  <1> QED
    BY <1>5, <1>6, <1>7 DEF IInv

\* A new order takes the next id, and a key without an order.
LEMMA PlacePreserves ==
    ASSUME IInv, NEW request \in Requests, Existing(request) = 0, Place(request)
    PROVE  IInv'
  <1> DEFINE n == Len(orders) + 1
             order == NewOrder(request)
             filled == Outcome(request) = "FILLED"
  <1>1. /\ prices[request.symbol] \in Nat /\ request.quantity \in Nat \ {0}
        /\ request.symbol \in Symbols /\ request.key \in Keys
        /\ request.side \in {"BUY", "SELL"} /\ Notional(request) \in Nat
    BY NotionalType DEF IInv
  <1>2. /\ orders \in Seq(Order) /\ Len(orders) \in Nat /\ n \in Nat \ {0}
        /\ DOMAIN orders = 1..Len(orders)
        /\ fills \in Seq(Fill) /\ Len(fills) \in Nat /\ DOMAIN fills = 1..Len(fills)
    BY LenProperties DEF IInv, TypeOK
  <1>3. Outcome(request) \in {"SUBMITTED", "REJECTED", "FILLED"}
    BY DEF Outcome
  <1>4. /\ order \in Order /\ order.request = request /\ order.status = Outcome(request)
        /\ order.filled = IF filled THEN request.quantity ELSE 0
    BY <1>1, <1>2, <1>3 DEF NewOrder, Order
  <1>5. /\ orders' = Append(orders, order)
        /\ orders' \in Seq(Order) /\ Len(orders') = n
        /\ DOMAIN orders' = 1..n /\ orders'[n] = order
        /\ \A id \in DOMAIN orders : orders'[id] = orders[id]
    <2>1. orders' = Append(orders, order)
      BY DEF Place
    <2> QED
      BY <1>2, <1>4, <2>1, AppendProperties, LenProperties
  <1>6. index' = [index EXCEPT ![request.key] = n] /\ prices' = prices
    BY DEF Place
  <1>7. OneOrderPerKey'
    <2>1. \A id \in DOMAIN orders : orders[id].request.key # request.key
      BY <1>2 DEF IInv, OneOrderPerKey, Existing
    <2>2. \A id \in DOMAIN orders : orders[id].request.key \in Keys
      <3>1. \A id \in DOMAIN orders : orders[id] \in Order
        BY <1>2, ElementOfSeq
      <3> QED
        BY <3>1, BrokerAssumption DEF Order
    <2>3. \A k \in Keys : index[k] # 0 => index[k] \in DOMAIN orders
      BY <1>2 DEF IInv, TypeOK
    <2> QED
      BY <1>1, <1>2, <1>4, <1>5, <1>6, <2>1, <2>2, <2>3 DEF IInv, TypeOK, OneOrderPerKey
  <1>8. index' \in [Keys -> 0..Len(orders')]
    BY <1>1, <1>2, <1>5, <1>6 DEF IInv, TypeOK
  <1>9. CASE ~filled
    <2>1. cash' = cash /\ positions' = positions /\ fills' = fills
      BY <1>9 DEF Place
    <2>2. TypeOK' /\ Solvent'
      BY <1>5, <1>6, <1>8, <2>1 DEF IInv, TypeOK, Solvent
    <2>3. FillsMatchOrders'
      BY <1>2, <1>3, <1>4, <1>5, <1>9, <2>1 DEF IInv, FillsMatchOrders
    <2> QED
      BY <1>7, <2>2, <2>3 DEF IInv
  <1>10. CASE filled
    <2> DEFINE fill == [order |-> n, symbol |-> request.symbol, side |-> request.side,
                        quantity |-> request.quantity, price |-> prices[request.symbol]]
    <2>1. prices[request.symbol] \in Prices
      BY <1>1, <1>10 DEF Outcome, IInv, TypeOK
    <2>2. fill \in Fill
      BY <1>1, <1>2, <2>1 DEF Fill
    <2>3. fills' = Append(fills, fill) /\ Book(request)
      BY <1>10 DEF Place
    <2>4. /\ fills' \in Seq(Fill) /\ DOMAIN fills' = 1..(Len(fills) + 1)
          /\ fills'[Len(fills) + 1] = fill
          /\ \A i \in DOMAIN fills : fills'[i] = fills[i]
      BY <1>2, <2>2, <2>3, AppendProperties, LenProperties
    <2>5. /\ cash' \in Int /\ cash' >= 0
          /\ positions' \in [Symbols -> Int]
          /\ \A s \in Symbols : positions'[s] >= 0
      <3>1. CASE request.side = "BUY"
        <4>1. Notional(request) <= cash
          BY <1>1, <1>10, <3>1 DEF Outcome, IInv, TypeOK
        <4>2. /\ cash' = cash - Notional(request)
              /\ positions' = [positions EXCEPT ![request.symbol] =
                                  positions[request.symbol] + request.quantity]
          BY <1>1, <2>3, <3>1 DEF Book, IInv, TypeOK
        <4> QED
          BY <1>1, <4>1, <4>2 DEF IInv, TypeOK, Solvent
      <3>2. CASE request.side = "SELL"
        <4>1. request.quantity <= positions[request.symbol]
          BY <1>1, <1>10, <3>2 DEF Outcome, IInv, TypeOK
        <4>2. /\ cash' = cash + Notional(request)
              /\ positions' = [positions EXCEPT ![request.symbol] =
                                  positions[request.symbol] - request.quantity]
          BY <1>1, <2>3, <3>2 DEF Book, IInv, TypeOK
        <4> QED
          BY <1>1, <4>1, <4>2 DEF IInv, TypeOK, Solvent
      <3> QED
        BY <1>1, <3>1, <3>2
    <2>6. TypeOK' /\ Solvent'
      BY <1>5, <1>6, <1>8, <2>4, <2>5 DEF IInv, TypeOK, Solvent
    <2>7. FillsMatchOrders'
      <3>1. \A i \in DOMAIN fills : fills[i].order \in DOMAIN orders /\ fills[i].order # n
        BY <1>2 DEF IInv, FillsMatchOrders
      <3>2. \A i \in DOMAIN fills' :
              /\ fills'[i].order \in DOMAIN orders'
              /\ orders'[fills'[i].order].status = "FILLED"
              /\ fills'[i].symbol = orders'[fills'[i].order].request.symbol
              /\ fills'[i].side = orders'[fills'[i].order].request.side
              /\ fills'[i].quantity = orders'[fills'[i].order].request.quantity
        <4>1. ASSUME NEW i \in DOMAIN fills
              PROVE  /\ fills'[i].order \in DOMAIN orders'
                     /\ orders'[fills'[i].order].status = "FILLED"
                     /\ fills'[i].symbol = orders'[fills'[i].order].request.symbol
                     /\ fills'[i].side = orders'[fills'[i].order].request.side
                     /\ fills'[i].quantity = orders'[fills'[i].order].request.quantity
          BY <1>2, <1>5, <2>4, <3>1 DEF IInv, FillsMatchOrders
        <4>2. fills'[Len(fills) + 1] = fill /\ orders'[n] = order /\ n \in DOMAIN orders'
          BY <1>2, <1>5, <2>4
        <4> QED
          BY <1>2, <1>4, <1>10, <2>4, <4>1, <4>2
      <3>3. \A i, j \in DOMAIN fills' : fills'[i].order = fills'[j].order => i = j
        BY <1>2, <2>4, <3>1 DEF IInv, FillsMatchOrders
      <3>4. \A id \in DOMAIN orders' :
              IF orders'[id].status = "FILLED"
              THEN /\ orders'[id].filled = orders'[id].request.quantity
                   /\ \E i \in DOMAIN fills' : fills'[i].order = id
              ELSE orders'[id].filled = 0
        <4>1. ASSUME NEW id \in DOMAIN orders
              PROVE  IF orders'[id].status = "FILLED"
                     THEN /\ orders'[id].filled = orders'[id].request.quantity
                          /\ \E i \in DOMAIN fills' : fills'[i].order = id
                     ELSE orders'[id].filled = 0
          <5>1. orders'[id] = orders[id]
            BY <1>5
          <5>2. (\E i \in DOMAIN fills : fills[i].order = id)
                    => \E i \in DOMAIN fills' : fills'[i].order = id
            <6>1. DOMAIN fills \subseteq DOMAIN fills'
              BY <1>2, <2>4
            <6> QED
              BY <2>4, <6>1
          <5> QED
            BY <5>1, <5>2 DEF IInv, FillsMatchOrders
        <4>2. /\ orders'[n].status = "FILLED" /\ orders'[n].filled = orders'[n].request.quantity
              /\ Len(fills) + 1 \in DOMAIN fills' /\ fills'[Len(fills) + 1].order = n
          BY <1>2, <1>4, <1>5, <1>10, <2>4
        <4> QED
          BY <1>2, <1>5, <4>1, <4>2
      <3> QED
        BY <3>2, <3>3, <3>4 DEF FillsMatchOrders
    <2> QED
      BY <1>7, <2>6, <2>7 DEF IInv
  <1> QED
    BY <1>9, <1>10

\* Submitting under a known key changes nothing.
LEMMA SubmitOrderPreserves ==
    ASSUME IInv, NEW request \in Requests, SubmitOrder(request)
    PROVE  IInv'
  <1>1. CASE Existing(request) = 0
    BY <1>1, PlacePreserves DEF SubmitOrder
  <1>2. CASE Existing(request) # 0
    BY <1>2
    DEF SubmitOrder, brokerVars, IInv, TypeOK, Solvent, OneOrderPerKey, FillsMatchOrders
  <1> QED
    BY <1>1, <1>2

\* The broker's invariant.
THEOREM Invariance == Spec => []IInv
  <1>1. IInv /\ [Next]_brokerVars => IInv'
    <2>1. IInv /\ UNCHANGED brokerVars => IInv'
      BY DEF IInv, TypeOK, Solvent, OneOrderPerKey, FillsMatchOrders, brokerVars
    <2> QED
      BY <2>1, SetPricePreserves, SubmitOrderPreserves, CancelOrderPreserves DEF Next
  <1> QED
    BY InitEstablishes, <1>1, PTL DEF Spec

\* Type correctness of the broker's state.
THEOREM TypeCorrect == Spec => []TypeOK
  BY Invariance, PTL DEF IInv

\* The account never owes cash or shares.
THEOREM AlwaysSolvent == Spec => []Solvent
  BY Invariance, PTL DEF IInv

\* A key has at most one order, the one the index names.
THEOREM OneOrderEach == Spec => []OneOrderPerKey
  BY Invariance, PTL DEF IInv

\* Fills and filled orders correspond one to one.
THEOREM FillsCorrespond == Spec => []FillsMatchOrders
  BY Invariance, PTL DEF IInv

\* Orders only close and fills are never taken back.
THEOREM ClosedForGood == Spec => OrdersOnlyClose
  <1> DEFINE Closes ==
        /\ \A id \in DOMAIN orders :
            \/ orders'[id] = orders[id]
            \/ /\ orders[id].status = "SUBMITTED"
               /\ orders'[id] = [orders[id] EXCEPT !.status = "CANCELLED"]
        /\ \A i \in DOMAIN fills : fills'[i] = fills[i]
  <1>1. IInv /\ [Next]_brokerVars => [Closes]_brokerVars
    <2>1. SUFFICES ASSUME IInv, Next PROVE Closes
      OBVIOUS
    <2>2. CASE \E s \in Symbols, p \in Prices : SetPrice(s, p)
      BY <2>2 DEF SetPrice
    <2>3. CASE \E id \in DOMAIN orders : CancelOrder(id)
      <3>1. PICK id \in DOMAIN orders : CancelOrder(id)
        BY <2>3
      <3> QED
        BY <3>1 DEF CancelOrder
    <2>4. CASE \E request \in Requests : SubmitOrder(request)
      <3>1. PICK request \in Requests : SubmitOrder(request)
        BY <2>4
      <3>2. CASE Existing(request) # 0
        BY <3>1, <3>2 DEF SubmitOrder, brokerVars
      <3>3. CASE Existing(request) = 0
        <4>1. Place(request)
          BY <3>1, <3>3 DEF SubmitOrder
        <4>2. \A id \in DOMAIN orders : orders'[id] = orders[id]
          BY <4>1, LenProperties DEF Place, IInv, TypeOK
        <4>3. \A i \in DOMAIN fills : fills'[i] = fills[i]
          <5>1. CASE Outcome(request) # "FILLED"
            BY <4>1, <5>1 DEF Place
          <5>2. CASE Outcome(request) = "FILLED"
            <6>1. PICK fill : fills' = Append(fills, fill)
              BY <4>1, <5>2 DEF Place
            <6> QED
              BY <6>1, LenProperties DEF IInv, TypeOK
          <5> QED
            BY <5>1, <5>2
        <4> QED
          BY <4>2, <4>3
      <3> QED
        BY <3>2, <3>3
    <2> QED
      BY <2>1, <2>2, <2>3, <2>4 DEF Next
  <1> QED
    BY Invariance, <1>1, PTL DEF Spec, OrdersOnlyClose

-----------------------------------------------------------------------------
(* The account and the fills. *)

Paid == [i \in DOMAIN fills |-> Signed(fills[i], fills[i].price * fills[i].quantity)]
Bought(s) ==
    [i \in DOMAIN fills |-> IF fills[i].symbol = s THEN Signed(fills[i], fills[i].quantity) ELSE 0]

LEMMA SignedType ==
    ASSUME NEW fill
    PROVE  /\ \A x \in Int : Signed(fill, x) = IF fill.side = "BUY" THEN x ELSE 0 - x
           /\ \A x \in Int : Signed(fill, x) \in Int
  BY DEF Signed

\* What is summed up are integers.
LEMMA FlowTypes ==
    ASSUME TypeOK
    PROVE  /\ Len(fills) \in Nat /\ DOMAIN fills = 1..Len(fills)
           /\ \A i \in 1..Len(fills) : Paid[i] \in Int
           /\ \A s : \A i \in 1..Len(fills) : Bought(s)[i] \in Int
           /\ SumOfFills(Paid) \in Int /\ \A s : SumOfFills(Bought(s)) \in Int
  <1>1. /\ Len(fills) \in Nat /\ DOMAIN fills = 1..Len(fills)
        /\ \A i \in 1..Len(fills) : fills[i] \in Fill
    BY LenProperties, ElementOfSeq DEF TypeOK
  <1>2. \A i \in 1..Len(fills) :
           fills[i].price \in Nat /\ fills[i].quantity \in Nat
    BY <1>1, BrokerAssumption DEF Fill
  <1>3. \A m, n \in Nat : m * n \in Int
    OBVIOUS
  <1>4. \A i \in 1..Len(fills) : Paid[i] \in Int
    BY <1>1, <1>2, <1>3, SignedType DEF Paid
  <1>5. \A s : \A i \in 1..Len(fills) : Bought(s)[i] \in Int
    <2> SUFFICES ASSUME NEW s, NEW i \in 1..Len(fills)
                 PROVE  Bought(s)[i] \in Int
      OBVIOUS
    <2>1. fills[i].quantity \in Int
      BY <1>2
    <2>2. Signed(fills[i], fills[i].quantity) \in Int
      BY <2>1, SignedType
    <2>3. Bought(s)[i] = IF fills[i].symbol = s THEN Signed(fills[i], fills[i].quantity) ELSE 0
      BY <1>1 DEF Bought
    <2> QED
      BY <2>2, <2>3
  <1>6. SumOfFills(Paid) \in Int
    BY <1>1, <1>4, SumIsInteger DEF SumOfFills
  <1>7. \A s : SumOfFills(Bought(s)) \in Int
    BY <1>1, <1>5, SumIsInteger DEF SumOfFills
  <1> QED
    BY <1>1, <1>4, <1>5, <1>6, <1>7

\* One more fill adds what it moved, for whatever is summed up of each fill.
LEMMA FillAdds ==
    ASSUME TypeOK, TypeOK', NEW fill, fills' = Append(fills, fill)
    PROVE  /\ SumOfFills(Paid)' =
                  SumOfFills(Paid) + Signed(fill, fill.price * fill.quantity)
           /\ \A s : SumOfFills(Bought(s))' = SumOfFills(Bought(s))
                  + (IF fill.symbol = s THEN Signed(fill, fill.quantity) ELSE 0)
  <1> DEFINE n == Len(fills)
  <1>1. /\ n \in Nat /\ DOMAIN fills = 1..n /\ Len(fills') = n + 1
        /\ DOMAIN fills' = 1..(n + 1) /\ fills'[n + 1] = fill
        /\ \A i \in 1..n : fills'[i] = fills[i]
    BY LenProperties DEF TypeOK
  <1>2. /\ \A i \in 1..n : Paid'[i] = Paid[i]
        /\ Paid'[n + 1] = Signed(fill, fill.price * fill.quantity)
    BY <1>1 DEF Paid, Signed
  <1>3. SumUpTo(Paid', n + 1) = SumUpTo(Paid, n) + Signed(fill, fill.price * fill.quantity)
    BY <1>1, <1>2, SumExtended
  <1>4. ASSUME NEW s
        PROVE  SumUpTo(Bought(s)', n + 1)
               = SumUpTo(Bought(s), n) + (IF fill.symbol = s THEN Signed(fill, fill.quantity) ELSE 0)
    <2>1. /\ \A i \in 1..n : Bought(s)'[i] = Bought(s)[i]
          /\ Bought(s)'[n + 1] = IF fill.symbol = s THEN Signed(fill, fill.quantity) ELSE 0
      BY <1>1 DEF Bought, Signed
    <2> QED
      BY <1>1, <2>1, SumExtended
  <1> QED
    BY <1>1, <1>3, <1>4 DEF SumOfFills

Explained ==
    /\ cash = InitialCash - SumOfFills(Paid)
    /\ \A s \in Symbols : positions[s] = InitialPositions[s] + SumOfFills(Bought(s))

LEMMA InitExplains == Init => Explained
  <1> SUFFICES ASSUME Init PROVE Explained
    OBVIOUS
  <1>1. SumOfFills(Paid) = 0 /\ \A s : SumOfFills(Bought(s)) = 0
    BY SumOfNone DEF Init, SumOfFills
  <1>2. InitialCash \in Int /\ \A s \in Symbols : InitialPositions[s] \in Int
    BY BrokerAssumption
  <1> QED
    BY <1>1, <1>2 DEF Init, Explained

LEMMA UnchangedExplains ==
    ASSUME Explained, UNCHANGED <<cash, positions, fills>>
    PROVE  Explained'
  BY DEF Explained, SumOfFills, Paid, Bought, Signed

LEMMA PlaceExplains ==
    ASSUME IInv, IInv', Explained, NEW request \in Requests, Place(request)
    PROVE  Explained'
  <1>1. CASE Outcome(request) # "FILLED"
    BY <1>1, UnchangedExplains DEF Place
  <1>2. CASE Outcome(request) = "FILLED"
    <2> DEFINE fill == [order |-> Len(orders) + 1, symbol |-> request.symbol,
                        side |-> request.side, quantity |-> request.quantity,
                        price |-> prices[request.symbol]]
    <2>1. Book(request) /\ fills' = Append(fills, fill)
      BY <1>2 DEF Place
    <2>2. /\ request.symbol \in Symbols /\ request.quantity \in Int
          /\ request.side \in {"BUY", "SELL"} /\ Notional(request) \in Int
      BY NotionalType DEF IInv
    <2>3. /\ SumOfFills(Paid) \in Int /\ \A s : SumOfFills(Bought(s)) \in Int
          /\ cash \in Int /\ InitialCash \in Int
          /\ positions \in [Symbols -> Int] /\ InitialPositions \in [Symbols -> Int]
      <3>1. TypeOK
        BY DEF IInv
      <3>2. cash \in Int /\ positions \in [Symbols -> Int]
        BY <3>1 DEF TypeOK
      <3> QED
        BY <3>1, <3>2, FlowTypes, BrokerAssumption
    <2>4. fill.price * fill.quantity = Notional(request)
      BY DEF Notional
    <2>5. /\ SumOfFills(Paid)' = SumOfFills(Paid) + Signed(fill, Notional(request))
          /\ \A s : SumOfFills(Bought(s))' = SumOfFills(Bought(s))
                 + (IF fill.symbol = s THEN Signed(fill, fill.quantity) ELSE 0)
      BY <2>1, <2>4, FillAdds DEF IInv
    <2>6. /\ fill.side = request.side /\ fill.symbol = request.symbol
          /\ fill.quantity = request.quantity
      OBVIOUS
    <2> HIDE DEF fill
    <2>7. cash' = InitialCash - SumOfFills(Paid)'
      <3>1. cash' = cash - Signed(fill, Notional(request))
        <4>1. Signed(fill, Notional(request))
              = IF request.side = "BUY" THEN Notional(request) ELSE 0 - Notional(request)
          BY <2>2, <2>6, SignedType
        <4>2. cash' = IF request.side = "BUY" THEN cash - Notional(request)
                      ELSE cash + Notional(request)
          BY <2>1 DEF Book
        <4> QED
          BY <2>2, <2>3, <4>1, <4>2
      <3>2. Signed(fill, Notional(request)) \in Int
        BY <2>2, SignedType
      <3> QED
        BY <2>3, <2>5, <3>1, <3>2 DEF Explained
    <2>8. ASSUME NEW s \in Symbols
          PROVE  positions'[s] = InitialPositions[s] + SumOfFills(Bought(s))'
      <3>1. positions'[s] = positions[s]
                + (IF fill.symbol = s THEN Signed(fill, fill.quantity) ELSE 0)
        <4>1. Signed(fill, fill.quantity)
              = IF request.side = "BUY" THEN request.quantity ELSE 0 - request.quantity
          BY <2>2, <2>6, SignedType
        <4>2. positions'[s] =
                 IF s # request.symbol THEN positions[s]
                 ELSE IF request.side = "BUY" THEN positions[s] + request.quantity
                 ELSE positions[s] - request.quantity
          BY <2>1, <2>2, <2>3 DEF Book
        <4>3. positions[s] \in Int
          BY <2>3
        <4> QED
          BY <2>2, <2>6, <4>1, <4>2, <4>3
      <3>2. Signed(fill, fill.quantity) \in Int
        BY <2>2, <2>6, SignedType
      <3> QED
        BY <2>3, <2>5, <3>1, <3>2 DEF Explained
    <2> QED
      BY <2>7, <2>8 DEF Explained
  <1> QED
    BY <1>1, <1>2

\* Cash and positions are the initial ones and what the fills moved: the account can
\* be rebuilt from the fills, in whatever order requests and prices came.
THEOREM AccountExplained == Spec => []AccountExplainedByFills
  <1>1. IInv /\ IInv' /\ Explained /\ [Next]_brokerVars => Explained'
    <2> SUFFICES ASSUME IInv, IInv', Explained, [Next]_brokerVars
                 PROVE  Explained'
      OBVIOUS
    <2>1. CASE UNCHANGED <<cash, positions, fills>>
      BY <2>1, UnchangedExplains
    <2>2. CASE \E request \in Requests : Place(request)
      BY <2>2, PlaceExplains
    <2>3. \/ UNCHANGED <<cash, positions, fills>>
          \/ \E request \in Requests : Place(request)
      BY DEF Next, brokerVars, SetPrice, CancelOrder, SubmitOrder
    <2> QED
      BY <2>1, <2>2, <2>3
  <1>2. Explained => AccountExplainedByFills
    BY DEF Explained, AccountExplainedByFills, Paid, Bought
  <1> QED
    BY Invariance, InitExplains, <1>1, <1>2, PTL DEF Spec
=============================================================================
