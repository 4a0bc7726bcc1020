------------------------- MODULE PaperTradingProofs -------------------------
(***************************************************************************)
(* Agent and paper broker together implement OnceOnlyOrders, for any keys, *)
(* requests, prices, quotes and initial account, and with the agent dying  *)
(* at any step.                                                            *)
(***************************************************************************)
EXTENDS PaperTrading, SequenceTheorems, FiniteSetTheorems, TLAPS

\* A known key stands for a request of its own; a run works on known keys.
AgentInv ==
    /\ records \in [Keys -> Agent!Record]
    /\ reply \in Broker!Order \cup {NoOrder}
    /\ todo \subseteq Agent!Known
    /\ stage \in {"submit", "mark"} => current \in Agent!Known
    /\ \A k \in Agent!Known : records[k].request \in Requests /\ records[k].request.key = k

\* The broker's orders are those approved, one for each key at most.
BrokerInv ==
    /\ orders \in Seq(Broker!Order)
    /\ index \in [Keys -> 0..Len(orders)]
    /\ Broker!OneOrderPerKey
    /\ \A id \in DOMAIN orders :
          /\ orders[id].id = id
          /\ orders[id].request.key \in Agent!Known
          /\ orders[id].request = records[orders[id].request.key].request

\* What the agent holds or has written down is the order the index names.
AnswerInv ==
    /\ stage = "mark" => /\ reply \in Broker!Order
                         /\ index[current] # 0 /\ reply.id = index[current]
    /\ \A k \in Keys : records[k].status = "SUBMITTED" =>
          index[k] # 0 /\ records[k].order.id = index[k]

IInv == AgentInv /\ BrokerInv /\ AnswerInv

LEMMA InitEstablishes == Init => IInv
  <1> SUFFICES ASSUME Init PROVE IInv
    OBVIOUS
  <1>1. /\ records = [k \in Keys |-> Agent!Absent] /\ Agent!Absent \in Agent!Record
        /\ stage = "idle" /\ todo = {} /\ reply = NoOrder
        /\ orders = <<>> /\ index = [k \in Keys |-> 0]
    BY DEF Init, Agent!Init, Broker!Init, Agent!Absent, Agent!Record, Agent!Settled
  <1>2. \A k \in Keys : records[k].status = "ABSENT"
    BY <1>1 DEF Agent!Absent
  <1>3. AgentInv
    BY <1>1, <1>2 DEF AgentInv, Agent!Known
  <1>4. BrokerInv
    BY <1>1 DEF BrokerInv, Broker!OneOrderPerKey
  <1>5. AnswerInv
    BY <1>1, <1>2 DEF AnswerInv
  <1> QED
    BY <1>3, <1>4, <1>5 DEF IInv

LEMMA KnownIsFinite == Cardinality(Agent!Known) \in Nat
  BY TradingAssumption, FS_Subset, FS_CardinalityType DEF Agent!Known

-----------------------------------------------------------------------------
(* Steps of the agent that leave the broker alone. *)

LEMMA ApprovePreserves ==
    ASSUME IInv, NEW request \in Requests, Agent!Approve(request), UNCHANGED brokerVars
    PROVE  IInv'
  <1> DEFINE k == request.key
             new == [status |-> "APPROVED", request |-> request, order |-> NoOrder,
                     position |-> Cardinality(Agent!Known) + 1]
  <1>1. /\ k \in Keys /\ k \notin Agent!Known
        /\ records' = [records EXCEPT ![k] = new] /\ new \in Agent!Record
        /\ stage' = stage /\ todo' = todo /\ current' = current /\ reply' = reply
    BY TradingAssumption, KnownIsFinite
    DEF Agent!Approve, Agent!Known, Agent!Record, Agent!runVars, Agent!Cardinality, Cardinality
  <1>2. /\ records' \in [Keys -> Agent!Record] /\ records'[k] = new
        /\ \A j \in Keys : j # k => records'[j] = records[j]
        /\ Agent!Known' = Agent!Known \cup {k}
    BY <1>1 DEF IInv, AgentInv, Agent!Known
  <1>3. orders' = orders /\ index' = index
    BY DEF brokerVars
  <1>4. AgentInv'
    BY <1>1, <1>2 DEF IInv, AgentInv, Agent!Known
  <1>5. BrokerInv'
    BY <1>1, <1>2, <1>3 DEF IInv, BrokerInv, Broker!OneOrderPerKey, Agent!Known
  <1>6. AnswerInv'
    BY <1>1, <1>2, <1>3 DEF IInv, AnswerInv
  <1> QED
    BY <1>4, <1>5, <1>6 DEF IInv

\* Steps that write no record, broker order or answer.
LEMMA QuietPreserves ==
    ASSUME IInv, records' = records, orders' = orders, index' = index,
           \/ /\ todo' = todo /\ current' = current /\ reply' = reply /\ stage' = stage
           \/ /\ stage' \in {"idle", "check"} /\ todo' \subseteq Agent!Known
              /\ reply' \in {reply, NoOrder}
           \/ /\ stage' = "submit" /\ current' \in todo /\ todo' = todo /\ reply' = reply
    PROVE  IInv'
  <1>1. AgentInv'
    BY DEF IInv, AgentInv, Agent!Known
  <1>2. BrokerInv'
    BY DEF IInv, BrokerInv, Broker!OneOrderPerKey, Agent!Known
  <1>3. AnswerInv'
    BY DEF IInv, AnswerInv
  <1> QED
    BY <1>1, <1>2, <1>3 DEF IInv

\* A known record is given another status, and the run leaves that key behind.
LEMMA MarkPreserves ==
    ASSUME IInv, NEW k \in Agent!Known, NEW status \in Agent!Settled,
           NEW order \in Broker!Order \cup {NoOrder},
           records' = [records EXCEPT ![k].status = status, ![k].order = order],
           status = "SUBMITTED" => index[k] # 0 /\ order.id = index[k],
           orders' = orders, index' = index,
           stage' = "check", todo' \subseteq todo, reply' \in {reply, NoOrder}
    PROVE  IInv'
  <1>1. k \in Keys /\ records[k] \in Agent!Record
    BY DEF IInv, AgentInv, Agent!Known
  <1> DEFINE new == [[records[k] EXCEPT !.status = status] EXCEPT !.order = order]
  <1>2. /\ new \in Agent!Record /\ new.status = status /\ new.order = order
        /\ new.request = records[k].request
    BY <1>1 DEF Agent!Record, Agent!Settled
  <1>3. /\ records' \in [Keys -> Agent!Record] /\ records'[k] = new
        /\ \A j \in Keys : j # k => records'[j] = records[j]
    BY <1>1, <1>2 DEF IInv, AgentInv
  <1>4. Agent!Known' = Agent!Known
    BY <1>1, <1>2, <1>3 DEF Agent!Known, Agent!Settled
  <1>5. \A j \in Keys : records'[j].request = records[j].request
    BY <1>1, <1>2, <1>3
  <1>6. AgentInv'
    BY <1>3, <1>4, <1>5 DEF IInv, AgentInv, Agent!Known
  <1>7. BrokerInv'
    BY <1>4, <1>5 DEF IInv, BrokerInv, Broker!OneOrderPerKey, Agent!Known
  <1>8. AnswerInv'
    BY <1>1, <1>2, <1>3 DEF IInv, AnswerInv
  <1> QED
    BY <1>6, <1>7, <1>8 DEF IInv

-----------------------------------------------------------------------------
(* Steps of the broker. *)

\* A cancellation keeps the order's id and request.
LEMMA CancelPreserves ==
    ASSUME IInv, NEW id \in DOMAIN orders, Broker!CancelOrder(id), UNCHANGED agentVars
    PROVE  IInv'
  <1>1. /\ orders \in Seq(Broker!Order) /\ orders[id] \in Broker!Order
        /\ DOMAIN orders = 1..Len(orders)
    BY LenProperties, ElementOfSeq DEF IInv, BrokerInv
  <1> DEFINE cancelled == [orders[id] EXCEPT !.status = "CANCELLED"]
  <1>2. /\ cancelled \in Broker!Order /\ cancelled.request = orders[id].request
        /\ cancelled.id = orders[id].id
    BY <1>1 DEF Broker!Order
  <1>3. orders' = [orders EXCEPT ![id] = cancelled] /\ index' = index
    BY DEF Broker!CancelOrder
  <1>4. /\ orders' \in Seq(Broker!Order) /\ Len(orders') = Len(orders)
        /\ DOMAIN orders' = DOMAIN orders /\ orders'[id] = cancelled
        /\ \A j \in DOMAIN orders : j # id => orders'[j] = orders[j]
    BY <1>1, <1>2, <1>3, ExceptSeq, LenProperties
  <1>5. \A j \in DOMAIN orders : orders'[j].request = orders[j].request
                                 /\ orders'[j].id = orders[j].id
    BY <1>2, <1>4
  <1>6. AgentInv' /\ AnswerInv'
    BY <1>3 DEF IInv, AgentInv, AnswerInv, Agent!Known, agentVars
  <1>7. BrokerInv'
    BY <1>1, <1>3, <1>4, <1>5 DEF IInv, BrokerInv, Broker!OneOrderPerKey, Agent!Known, agentVars
  <1> QED
    BY <1>6, <1>7 DEF IInv

\* What a submission puts at the broker: nothing for a key already there, else
\* one order more.
LEMMA SubmissionPlaces ==
    ASSUME IInv, Submit
    PROVE  LET request == records[current].request
               n       == Len(orders) + 1
           IN  /\ current \in Agent!Known /\ current \in Keys
               /\ request \in Requests /\ request.key = current
               /\ reply' = Broker!Returned(request)
               /\ \/ /\ index[current] # 0 /\ reply' = orders[index[current]]
                     /\ orders' = orders /\ index' = index
                  \/ /\ index[current] = 0
                     /\ reply' = Broker!NewOrder(request)
                     /\ orders' = Append(orders, Broker!NewOrder(request))
                     /\ index' = [index EXCEPT ![current] = n]
  <1> DEFINE request == records[current].request
  <1>1. /\ current \in Agent!Known /\ current \in Keys
        /\ request \in Requests /\ request.key = current
    BY DEF IInv, AgentInv, Agent!Known, Submit
  <1>2. Broker!SubmitOrder(request) /\ reply' = Broker!Returned(request)
    BY DEF Submit, Agent!SubmitReturns
  <1>3. CASE index[current] # 0
    BY <1>1, <1>2, <1>3
    DEF Broker!SubmitOrder, Broker!Returned, Broker!Existing, Broker!brokerVars
  <1>4. CASE index[current] = 0
    BY <1>1, <1>2, <1>4
    DEF Broker!SubmitOrder, Broker!Returned, Broker!Existing, Broker!Place
  <1> QED
    BY <1>1, <1>2, <1>3, <1>4

LEMMA NewOrderType ==
    ASSUME orders \in Seq(Broker!Order), NEW request \in Requests
    PROVE  /\ Broker!NewOrder(request) \in Broker!Order
           /\ Broker!NewOrder(request).id = Len(orders) + 1
           /\ Broker!NewOrder(request).request = request
  <1>1. Broker!Outcome(request) \in {"SUBMITTED", "REJECTED", "FILLED"}
    BY DEF Broker!Outcome
  <1>2. request.quantity \in Nat /\ Len(orders) + 1 \in Nat \ {0}
    BY TradingAssumption, LenProperties
  <1> QED
    BY <1>1, <1>2 DEF Broker!NewOrder, Broker!Order

LEMMA SubmitPreserves ==
    ASSUME IInv, Submit
    PROVE  IInv'
  <1> DEFINE request == records[current].request
             n       == Len(orders) + 1
             order   == Broker!NewOrder(request)
  <1>1. /\ current \in Agent!Known /\ current \in Keys
        /\ request \in Requests /\ request.key = current
    BY SubmissionPlaces
  <1>2. /\ records' = records /\ todo' = todo /\ current' = current /\ stage' = "mark"
    BY DEF Submit, Agent!SubmitReturns, Agent!storeVars
  <1>3. /\ orders \in Seq(Broker!Order) /\ DOMAIN orders = 1..Len(orders) /\ Len(orders) \in Nat
        /\ index \in [Keys -> 0..Len(orders)]
    BY LenProperties DEF IInv, BrokerInv
  <1>4. CASE /\ index[current] # 0 /\ reply' = orders[index[current]]
             /\ orders' = orders /\ index' = index
    <2>1. index[current] \in DOMAIN orders
      BY <1>1, <1>3, <1>4
    <2>2. reply' \in Broker!Order /\ reply'.id = index[current]
      BY <1>3, <1>4, <2>1, ElementOfSeq DEF IInv, BrokerInv
    <2>3. AgentInv'
      BY <1>1, <1>2, <2>2 DEF IInv, AgentInv, Agent!Known
    <2>4. BrokerInv'
      BY <1>2, <1>4 DEF IInv, BrokerInv, Broker!OneOrderPerKey, Agent!Known
    <2>5. AnswerInv'
      BY <1>2, <1>4, <2>2 DEF IInv, AnswerInv
    <2> QED
      BY <2>3, <2>4, <2>5 DEF IInv
  <1>5. CASE /\ index[current] = 0 /\ reply' = order
             /\ orders' = Append(orders, order)
             /\ index' = [index EXCEPT ![current] = n]
    <2>1. order \in Broker!Order /\ order.id = n /\ order.request = request
      BY <1>1, <1>3, NewOrderType
    <2>2. /\ orders' \in Seq(Broker!Order) /\ Len(orders') = n /\ DOMAIN orders' = 1..n
          /\ orders'[n] = order /\ \A id \in DOMAIN orders : orders'[id] = orders[id]
      BY <1>3, <1>5, <2>1, AppendProperties, LenProperties
    <2>3. /\ index' \in [Keys -> 0..Len(orders')] /\ index'[current] = n /\ n # 0
          /\ \A k \in Keys : k # current => index'[k] = index[k]
      BY <1>1, <1>3, <1>5, <2>2
    <2>4. \A id \in DOMAIN orders : orders[id].request.key # current
      BY <1>3, <1>5 DEF IInv, BrokerInv, Broker!OneOrderPerKey
    <2>5. AgentInv'
      BY <1>1, <1>2, <1>5, <2>1 DEF IInv, AgentInv, Agent!Known
    <2>6. Broker!OneOrderPerKey'
      <3>1. \A id \in DOMAIN orders' : index'[orders'[id].request.key] = id
        <4>1. ASSUME NEW id \in DOMAIN orders
              PROVE  index'[orders'[id].request.key] = id
          <5>1. orders[id].request.key \in Keys /\ index[orders[id].request.key] = id
            BY DEF IInv, BrokerInv, Broker!OneOrderPerKey, Agent!Known
          <5> QED
            BY <2>2, <2>3, <2>4, <5>1
        <4>2. index'[orders'[n].request.key] = n
          BY <1>1, <2>1, <2>2, <2>3
        <4> QED
          BY <1>3, <2>2, <4>1, <4>2
      <3>2. \A k \in Keys : index'[k] # 0 => orders'[index'[k]].request.key = k
        <4>1. ASSUME NEW k \in Keys, k # current, index[k] # 0
              PROVE  orders'[index'[k]].request.key = k
          BY <1>3, <2>2, <2>3, <4>1 DEF IInv, BrokerInv, Broker!OneOrderPerKey
        <4> QED
          BY <1>1, <2>1, <2>2, <2>3, <4>1
      <3> QED
        BY <3>1, <3>2 DEF Broker!OneOrderPerKey
    <2>7. BrokerInv'
      <3>1. Agent!Known' = Agent!Known
        BY <1>2 DEF Agent!Known
      <3>2. \A id \in DOMAIN orders' :
              /\ orders'[id].id = id /\ orders'[id].request.key \in Agent!Known
              /\ orders'[id].request = records[orders'[id].request.key].request
        <4>1. ASSUME NEW id \in DOMAIN orders
              PROVE  /\ orders'[id].id = id /\ orders'[id].request.key \in Agent!Known
                     /\ orders'[id].request = records[orders'[id].request.key].request
          BY <2>2 DEF IInv, BrokerInv
        <4>2. /\ orders'[n].id = n /\ orders'[n].request.key \in Agent!Known
              /\ orders'[n].request = records[orders'[n].request.key].request
          BY <1>1, <2>1, <2>2
        <4> QED
          BY <1>3, <2>2, <4>1, <4>2
      <3> QED
        BY <1>2, <2>2, <2>3, <2>6, <3>1, <3>2 DEF BrokerInv
    <2>8. AnswerInv'
      BY <1>2, <1>5, <2>1, <2>3 DEF IInv, AnswerInv
    <2> QED
      BY <2>5, <2>7, <2>8 DEF IInv
  <1> QED
    BY <1>4, <1>5, SubmissionPlaces

-----------------------------------------------------------------------------
(* The invariant of the composition. *)

LEMMA CheckPreserves ==
    ASSUME IInv, NEW k \in Keys, NEW quote \in Quotes, Agent!Check(k, Context(quote)),
           UNCHANGED brokerVars
    PROVE  IInv'
  <1>1. /\ k \in todo /\ k \in Agent!Known /\ stage = "check"
        /\ orders' = orders /\ index' = index /\ reply' = reply
    BY DEF IInv, AgentInv, Agent!Check, Agent!IsFirst, brokerVars
  <1>2. CASE Agent!RejectReasons(records[k].request, Context(quote)) = {}
    BY <1>1, <1>2, QuietPreserves DEF Agent!Check, Agent!storeVars
  <1>3. CASE Agent!RejectReasons(records[k].request, Context(quote)) # {}
    <2>1. records' = [records EXCEPT ![k].status = "FAILED"]
      BY <1>3 DEF Agent!Check, Agent!MarkAs
    <2>2. records[k] \in Agent!Record /\ k \in Keys
      BY DEF IInv, AgentInv
    <2>3. records' = [records EXCEPT ![k].status = "FAILED", ![k].order = records[k].order]
      BY <2>1, <2>2 DEF IInv, AgentInv, Agent!Record
    <2>4. records[k].order \in Broker!Order \cup {NoOrder}
      BY <2>2 DEF Agent!Record
    <2> QED
      BY <1>1, <1>3, <2>3, <2>4, MarkPreserves DEF Agent!Check, Agent!Settled
  <1> QED
    BY <1>2, <1>3

LEMMA SubmitFailsPreserves ==
    ASSUME IInv, SubmitFails
    PROVE  IInv'
  <1>1. /\ current \in Agent!Known /\ orders' = orders /\ index' = index
        /\ records' = [records EXCEPT ![current].status = "UNKNOWN"]
        /\ stage' = "check" /\ todo' = todo \ {current} /\ reply' = reply
    BY DEF IInv, AgentInv, SubmitFails, Agent!SubmitRaises, Agent!MarkAs, brokerVars
  <1>2. records[current] \in Agent!Record /\ current \in Keys
    BY <1>1 DEF IInv, AgentInv, Agent!Known
  <1>3. records' = [records EXCEPT ![current].status = "UNKNOWN",
                                   ![current].order = records[current].order]
    BY <1>1, <1>2 DEF IInv, AgentInv, Agent!Record
  <1>4. records[current].order \in Broker!Order \cup {NoOrder}
    BY <1>2 DEF Agent!Record
  <1> QED
    BY <1>1, <1>3, <1>4, MarkPreserves DEF Agent!Settled

LEMMA MarkSubmittedPreserves ==
    ASSUME IInv, Agent!MarkSubmitted, UNCHANGED brokerVars
    PROVE  IInv'
  <1>1. /\ stage = "mark" /\ current \in Agent!Known /\ orders' = orders /\ index' = index
        /\ records' = [records EXCEPT ![current].status = "SUBMITTED", ![current].order = reply]
        /\ stage' = "check" /\ todo' = todo \ {current} /\ reply' = NoOrder
    BY DEF IInv, AgentInv, Agent!MarkSubmitted, brokerVars
  <1>2. reply \in Broker!Order /\ index[current] # 0 /\ reply.id = index[current]
    BY <1>1 DEF IInv, AnswerInv
  <1> QED
    BY <1>1, <1>2, MarkPreserves DEF Agent!Settled

\* RunOnce, the steps that leave a run, and the kill switch write nothing.
LEMMA OtherAgentStepsPreserve ==
    ASSUME IInv, UNCHANGED brokerVars,
           \/ Agent!RunOnce \/ Agent!ContextRaises \/ Agent!Finish \/ Agent!Abort
           \/ Agent!OperatorActivates \/ Agent!Reset
           \/ \E stale, drawdown \in BOOLEAN : Agent!Evaluate(stale, drawdown)
    PROVE  IInv'
  <1>1. orders' = orders /\ index' = index
    BY DEF brokerVars
  <1>2. CASE Agent!RunOnce
    <2>1. Agent!Pending \subseteq Agent!Known
      BY DEF Agent!Pending, Agent!Known
    <2> QED
      BY <1>1, <1>2, <2>1, QuietPreserves DEF Agent!RunOnce, Agent!storeVars
  <1>3. CASE Agent!ContextRaises \/ Agent!Finish \/ Agent!Abort
    BY <1>1, <1>3, QuietPreserves
    DEF Agent!ContextRaises, Agent!Finish, Agent!Abort, Agent!Idle, Agent!storeVars
  <1>4. CASE \/ Agent!OperatorActivates \/ Agent!Reset
             \/ \E stale, drawdown \in BOOLEAN : Agent!Evaluate(stale, drawdown)
    <2>1. /\ records' = records /\ todo' = todo /\ current' = current /\ reply' = reply
          /\ stage' = stage
      BY <1>4
      DEF Agent!OperatorActivates, Agent!Reset, Agent!Evaluate, Agent!Activate,
          Agent!storeVars, Agent!runVars
    <2> QED
      BY <1>1, <2>1, QuietPreserves
  <1> QED
    BY <1>2, <1>3, <1>4

LEMMA NextPreserves ==
    ASSUME IInv, [Next]_vars
    PROVE  IInv'
  <1>1. CASE RunStep
    BY <1>1, OtherAgentStepsPreserve, MarkSubmittedPreserves, CheckPreserves, SubmitPreserves,
       SubmitFailsPreserves
    DEF RunStep, Check
  <1>2. CASE Restart
    BY <1>2, OtherAgentStepsPreserve DEF Restart
  <1>3. CASE Agent!Surroundings /\ UNCHANGED brokerVars
    BY <1>3, OtherAgentStepsPreserve, ApprovePreserves DEF Agent!Surroundings
  <1>4. CASE /\ \E s \in Symbols, p \in Prices : Broker!SetPrice(s, p)
             /\ UNCHANGED agentVars
    BY <1>4, QuietPreserves DEF Broker!SetPrice, agentVars
  <1>5. CASE /\ \E id \in DOMAIN orders : Broker!CancelOrder(id)
             /\ UNCHANGED agentVars
    BY <1>5, CancelPreserves
  <1>6. CASE UNCHANGED vars
    BY <1>6, QuietPreserves DEF vars, agentVars, brokerVars
  <1> QED
    BY <1>1, <1>2, <1>3, <1>4, <1>5, <1>6 DEF Next, Surroundings

\* The invariant of agent and broker together.
THEOREM Invariance == Spec => []IInv
  BY InitEstablishes, NextPreserves, PTL DEF Spec

\* Every SUBMITTED record carries the broker's order for what was approved.
THEOREM SubmittedAsApproved == Spec => []SubmittedIsPlaced
  <1>1. IInv => SubmittedIsPlaced
    <2>1. SUFFICES ASSUME IInv, NEW k \in Keys, records[k].status = "SUBMITTED"
                   PROVE  /\ records[k].order.id = index[k]
                          /\ orders[index[k]].request = records[k].request
      BY DEF SubmittedIsPlaced
    <2>2. index[k] # 0 /\ records[k].order.id = index[k]
      BY <2>1 DEF IInv, AnswerInv
    <2>3. index[k] \in DOMAIN orders
      BY <2>1, <2>2, LenProperties DEF IInv, BrokerInv
    <2>4. orders[index[k]].request.key = k
      BY <2>1, <2>2 DEF IInv, BrokerInv, Broker!OneOrderPerKey
    <2> QED
      BY <2>1, <2>2, <2>3, <2>4 DEF IInv, BrokerInv
  <1> QED
    BY <1>1, Invariance, PTL

-----------------------------------------------------------------------------
(* The refinement. *)

\* With one order per key, an order sequence o indexed by i holds one order for
\* a key with an index and none for another.
LEMMA CountPlaced ==
    ASSUME NEW o, NEW i, NEW k \in Keys,
           i \in [Keys -> 0..Len(o)], o \in Seq(Broker!Order),
           \A id \in DOMAIN o : i[o[id].request.key] = id,
           \A j \in Keys : i[j] # 0 => o[i[j]].request.key = j
    PROVE  Cardinality({id \in DOMAIN o : o[id].request.key = k}) = IF i[k] = 0 THEN 0 ELSE 1
  <1>0. DOMAIN o = 1..Len(o) /\ Len(o) \in Nat
    BY LenProperties
  <1>1. CASE i[k] = 0
    <2>1. {id \in DOMAIN o : o[id].request.key = k} = {}
      BY <1>0, <1>1
    <2> QED
      BY <1>1, <2>1, FS_EmptySet
  <1>2. CASE i[k] # 0
    <2>1. {id \in DOMAIN o : o[id].request.key = k} = {i[k]}
      BY <1>0, <1>2
    <2> QED
      BY <1>2, <2>1, FS_Singleton
  <1> QED
    BY <1>1, <1>2

Placed == [k \in Keys |-> Cardinality({id \in DOMAIN orders : orders[id].request.key = k})]

LEMMA PlacedByIndex ==
    ASSUME IInv, IInv'
    PROVE  /\ \A k \in Keys : Placed[k] = IF index[k] = 0 THEN 0 ELSE 1
           /\ \A k \in Keys : Placed'[k] = IF index'[k] = 0 THEN 0 ELSE 1
  <1>1. /\ index \in [Keys -> 0..Len(orders)] /\ orders \in Seq(Broker!Order)
        /\ \A id \in DOMAIN orders : index[orders[id].request.key] = id
        /\ \A j \in Keys : index[j] # 0 => orders[index[j]].request.key = j
    BY DEF IInv, BrokerInv, Broker!OneOrderPerKey
  <1>2. /\ index' \in [Keys -> 0..Len(orders')] /\ orders' \in Seq(Broker!Order)
        /\ \A id \in DOMAIN orders' : index'[orders'[id].request.key] = id
        /\ \A j \in Keys : index'[j] # 0 => orders'[index'[j]].request.key = j
    BY DEF IInv, BrokerInv, Broker!OneOrderPerKey
  <1>3. \A k \in Keys : Cardinality({id \in DOMAIN orders : orders[id].request.key = k})
                            = IF index[k] = 0 THEN 0 ELSE 1
    BY <1>1, CountPlaced
  <1>4. \A k \in Keys : Cardinality({id \in DOMAIN orders' : orders'[id].request.key = k})
                            = IF index'[k] = 0 THEN 0 ELSE 1
    BY <1>2, CountPlaced
  <1> QED
    BY <1>3, <1>4 DEF Placed

\* Either nothing the promise speaks of changes, or a key is approved, or an
\* approved key without an order gets one.
LEMMA StepKinds ==
    ASSUME IInv, [Next]_vars
    PROVE  \/ Agent!Known' = Agent!Known /\ index' = index
           \/ \E k \in Keys : Agent!Known' = Agent!Known \cup {k} /\ index' = index
           \/ \E k \in Agent!Known :
                 /\ Agent!Known' = Agent!Known /\ index[k] = 0
                 /\ index' = [index EXCEPT ![k] = Len(orders) + 1]
  <1>1. CASE RunStep \/ Restart
    <2>1. CASE Submit
      BY <2>1, SubmissionPlaces DEF Submit, Agent!SubmitReturns, Agent!storeVars, Agent!Known
    <2>2. CASE Check \/ SubmitFails
      BY <2>2
      DEF IInv, AgentInv, Agent!Record, Check, SubmitFails, Agent!Check, Agent!IsFirst,
          Agent!SubmitRaises, Agent!MarkAs, Agent!storeVars, Agent!Known, brokerVars
    <2>3. CASE Agent!MarkSubmitted /\ UNCHANGED brokerVars
      BY <2>3 DEF IInv, AgentInv, Agent!Record, Agent!MarkSubmitted, Agent!Known, brokerVars
    <2>4. CASE (Agent!RunOnce \/ Agent!ContextRaises \/ Agent!Finish \/ Agent!Abort)
               /\ UNCHANGED brokerVars
      BY <2>4
      DEF Agent!RunOnce, Agent!ContextRaises, Agent!Finish, Agent!Abort, Agent!storeVars,
          Agent!Known, brokerVars
    <2> QED
      BY <1>1, <2>1, <2>2, <2>3, <2>4 DEF RunStep, Restart
  <1>2. CASE Agent!Surroundings /\ UNCHANGED brokerVars
    <2>1. CASE \E request \in Requests : Agent!Approve(request)
      <3>1. PICK request \in Requests : Agent!Approve(request)
        BY <2>1
      <3>2. request.key \in Keys
        BY TradingAssumption
      <3>3. Agent!Known' = Agent!Known \cup {request.key}
        BY <3>1, <3>2 DEF IInv, AgentInv, Agent!Approve, Agent!Known
      <3> QED
        BY <1>2, <3>2, <3>3 DEF brokerVars
    <2>2. CASE ~\E request \in Requests : Agent!Approve(request)
      BY <1>2, <2>2
      DEF Agent!Surroundings, Agent!OperatorActivates, Agent!Reset, Agent!Evaluate,
          Agent!Activate, Agent!storeVars, Agent!Known, brokerVars
    <2> QED
      BY <2>1, <2>2
  <1>3. CASE /\ \/ \E s \in Symbols, p \in Prices : Broker!SetPrice(s, p)
                \/ \E id \in DOMAIN orders : Broker!CancelOrder(id)
             /\ UNCHANGED agentVars
    BY <1>3 DEF Broker!SetPrice, Broker!CancelOrder, agentVars, Agent!Known
  <1>4. CASE UNCHANGED vars
    BY <1>4 DEF vars, agentVars, brokerVars, Agent!Known
  <1> QED
    BY <1>1, <1>2, <1>3, <1>4 DEF Next, Surroundings

LEMMA StepRefines ==
    ASSUME IInv, IInv', [Next]_vars
    PROVE  [Promise!Next]_(Promise!onceVars)
  <1>0. index \in [Keys -> Int] /\ index' \in [Keys -> Int]
    <2>1. Len(orders) \in Nat /\ Len(orders') \in Nat
      BY LenProperties DEF IInv, BrokerInv
    <2> QED
      BY <2>1 DEF IInv, BrokerInv
  <1>1. index' = index => Placed' = Placed
    BY PlacedByIndex DEF Placed
  <1>2. CASE Agent!Known' = Agent!Known /\ index' = index
    BY <1>1, <1>2 DEF Promise!onceVars, Placed, Agent!Known
  <1>3. CASE \E k \in Keys : Agent!Known' = Agent!Known \cup {k} /\ index' = index
    BY <1>1, <1>3 DEF Promise!Next, Promise!Approve, Placed, Agent!Known
  <1>4. CASE \E k \in Agent!Known :
                 /\ Agent!Known' = Agent!Known /\ index[k] = 0
                 /\ index' = [index EXCEPT ![k] = Len(orders) + 1]
    <2>1. PICK k \in Agent!Known :
                 /\ Agent!Known' = Agent!Known /\ index[k] = 0
                 /\ index' = [index EXCEPT ![k] = Len(orders) + 1]
      BY <1>4
    <2>2. k \in Keys /\ Len(orders) + 1 # 0
      BY LenProperties DEF Agent!Known, IInv, BrokerInv
    <2>3. Placed[k] = 0 /\ Placed' = [Placed EXCEPT ![k] = 1]
      <3>1. Placed[k] = 0 /\ Placed'[k] = 1
        BY <1>0, <2>1, <2>2, PlacedByIndex
      <3>2. \A j \in Keys : j # k => Placed'[j] = Placed[j]
        BY <1>0, <2>1, <2>2, PlacedByIndex
      <3> QED
        BY <2>2, <3>1, <3>2 DEF Placed
    <2> QED
      BY <2>1, <2>2, <2>3 DEF Promise!Next, Promise!Place, Placed, Agent!Known
  <1> QED
    BY <1>2, <1>3, <1>4, StepKinds

\* Agent and paper broker implement the promise of at most one order per intent.
THEOREM KeepsPromise == Spec => PlacedOnceOnly
  <1>1. Init => Promise!Init
    <2>1. SUFFICES ASSUME Init PROVE Promise!Init
      OBVIOUS
    <2>2. records = [k \in Keys |-> Agent!Absent] /\ orders = <<>>
      BY <2>1 DEF Init, Agent!Init, Broker!Init
    <2>3. {k \in Keys : records[k].status # "ABSENT"} = {}
      BY <2>2 DEF Agent!Absent
    <2>4. \A k \in Keys : {id \in DOMAIN orders : orders[id].request.key = k} = {}
      BY <2>2
    <2> QED
      BY <2>3, <2>4, FS_EmptySet DEF Promise!Init
  <1> QED
    BY <1>1, StepRefines, Invariance, PTL DEF Spec, PlacedOnceOnly, Promise!Spec

-----------------------------------------------------------------------------
(* Orders the store does not account for. *)

Unaccounted ==
    {id \in DOMAIN orders : LET k == orders[id].request.key IN
                            /\ records[k].status # "SUBMITTED"
                            /\ ~(stage = "mark" /\ current = k)}

\* The run works on records still approved: it never takes up one it has sent.
RunInv ==
    /\ todo \subseteq Agent!Pending
    /\ stage \in {"submit", "mark"} => current \in todo
    /\ restarts \in Nat

LEMMA NextKeepsRun ==
    ASSUME IInv, RunInv, [Next]_vars
    PROVE  RunInv'
  <1>0. records \in [Keys -> Agent!Record]
    BY DEF IInv, AgentInv
  <1>1. CASE \E request \in Requests : Agent!Approve(request)
    <2>1. PICK request \in Requests : Agent!Approve(request)
      BY <1>1
    <2>2. /\ request.key \in Keys /\ records[request.key].status = "ABSENT"
          /\ \A k \in Keys : k # request.key => records'[k] = records[k]
          /\ UNCHANGED <<stage, todo, current, restarts>>
      BY <1>0, <2>1, TradingAssumption
      DEF Agent!Approve, Agent!runVars, Agent!historyVars
    <2> QED
      BY <2>2 DEF RunInv, Agent!Pending
  <1>2. CASE \E k \in Keys, quote \in Quotes : Agent!Check(k, Context(quote))
    <2>1. PICK k \in Keys, quote \in Quotes : Agent!Check(k, Context(quote))
      BY <1>2
    <2>2. k \in todo /\ restarts' = restarts
      BY <2>1 DEF Agent!Check, Agent!IsFirst, Agent!historyVars
    <2>3. CASE Agent!RejectReasons(records[k].request, Context(quote)) = {}
      BY <2>1, <2>2, <2>3 DEF Agent!Check, Agent!storeVars, RunInv, Agent!Pending
    <2>4. CASE Agent!RejectReasons(records[k].request, Context(quote)) # {}
      <3>1. /\ records' = [records EXCEPT ![k].status = "FAILED"]
            /\ todo' = todo \ {k} /\ stage' = stage /\ stage = "check"
        BY <2>1, <2>4 DEF Agent!Check, Agent!MarkAs
      <3> QED
        BY <1>0, <2>2, <3>1 DEF RunInv, Agent!Pending
    <2> QED
      BY <2>3, <2>4
  <1>3. CASE Agent!SubmitRaises \/ Agent!MarkSubmitted
    <2>1. /\ \A k \in Keys : k # current => records'[k] = records[k]
          /\ todo' = todo \ {current} /\ stage' = "check" /\ restarts' = restarts
      BY <1>0, <1>3
      DEF Agent!SubmitRaises, Agent!MarkAs, Agent!MarkSubmitted, Agent!historyVars
    <2> QED
      BY <2>1 DEF RunInv, Agent!Pending
  <1>4. CASE Agent!RunOnce
    BY <1>4 DEF Agent!RunOnce, Agent!storeVars, Agent!historyVars, RunInv, Agent!Pending
  <1>5. CASE Agent!ContextRaises \/ Agent!Finish \/ Agent!Abort
    BY <1>5
    DEF Agent!ContextRaises, Agent!Finish, Agent!Abort, Agent!Idle, Agent!storeVars,
        Agent!historyVars, RunInv, Agent!Pending
  <1>6. CASE Submit
    BY <1>6 DEF Submit, Agent!SubmitReturns, Agent!storeVars, RunInv, Agent!Pending
  <1>7. CASE \/ Agent!OperatorActivates \/ Agent!Reset
             \/ \E stale, drawdown \in BOOLEAN : Agent!Evaluate(stale, drawdown)
             \/ UNCHANGED agentVars
    <2>1. UNCHANGED <<records, stage, todo, current, restarts>>
      BY <1>7
      DEF Agent!OperatorActivates, Agent!Reset, Agent!Evaluate, Agent!Activate,
          Agent!storeVars, Agent!runVars, Agent!historyVars, agentVars
    <2> QED
      BY <2>1 DEF RunInv, Agent!Pending
  <1> QED
    BY <1>1, <1>2, <1>3, <1>4, <1>5, <1>6, <1>7
    DEF Next, RunStep, Restart, Surroundings, Check, SubmitFails, Agent!Surroundings, vars

\* Orders keep their requests, records their SUBMITTED status, and a call that
\* has returned is still to be written down.
LEMMA SameOrdersAccount ==
    ASSUME IInv, DOMAIN orders' = DOMAIN orders,
           \A id \in DOMAIN orders : orders'[id].request = orders[id].request,
           \A k \in Keys : records[k].status = "SUBMITTED" => records'[k].status = "SUBMITTED",
           stage = "mark" => stage' = "mark" /\ current' = current
    PROVE  Unaccounted' \subseteq Unaccounted
  BY DEF IInv, BrokerInv, Agent!Known, Unaccounted

LEMMA RunAccounts ==
    ASSUME IInv, RunInv, RunStep
    PROVE  Unaccounted' \subseteq Unaccounted /\ restarts' = restarts
  <1>0. /\ records \in [Keys -> Agent!Record]
        /\ \A k \in todo : k \in Keys /\ records[k].status = "APPROVED"
        /\ \A id \in DOMAIN orders : orders[id].request.key \in Keys
    BY DEF IInv, AgentInv, BrokerInv, RunInv, Agent!Pending, Agent!Known
  <1>1. CASE Submit
    <2>1. /\ stage = "submit" /\ stage' = "mark" /\ current' = current
          /\ records' = records /\ restarts' = restarts
      BY <1>1 DEF Submit, Agent!SubmitReturns, Agent!storeVars
    <2>2. \A id \in DOMAIN orders' : orders'[id].request.key # current =>
              id \in DOMAIN orders /\ orders'[id] = orders[id]
      <3>1. CASE orders' = orders
        BY <3>1
      <3>2. CASE orders' = Append(orders, Broker!NewOrder(records[current].request))
        <4>1. /\ current \in Keys /\ records[current].request \in Requests
              /\ records[current].request.key = current /\ orders \in Seq(Broker!Order)
          BY <1>1, SubmissionPlaces DEF IInv, BrokerInv
        <4>2. /\ Broker!NewOrder(records[current].request) \in Broker!Order
              /\ Broker!NewOrder(records[current].request).request = records[current].request
          BY <4>1, NewOrderType
        <4> QED
          BY <3>2, <4>1, <4>2, AppendProperties, LenProperties
      <3> QED
        BY <1>1, <3>1, <3>2, SubmissionPlaces
    <2> QED
      BY <2>1, <2>2 DEF Unaccounted
  <1>2. CASE Agent!MarkSubmitted /\ UNCHANGED brokerVars
    <2>1. /\ stage = "mark" /\ current \in Keys /\ orders' = orders /\ restarts' = restarts
          /\ records' = [records EXCEPT ![current].status = "SUBMITTED", ![current].order = reply]
      BY <1>0, <1>2 DEF Agent!MarkSubmitted, Agent!historyVars, RunInv, brokerVars
    <2>2. /\ records'[current].status = "SUBMITTED"
          /\ \A k \in Keys : k # current => records'[k] = records[k]
      BY <1>0, <2>1 DEF Agent!Record
    <2> QED
      BY <1>0, <2>1, <2>2 DEF Unaccounted
  <1>3. CASE Check \/ SubmitFails
    <2>1. orders' = orders /\ stage # "mark" /\ restarts' = restarts
      BY <1>3
      DEF Check, SubmitFails, Agent!Check, Agent!SubmitRaises, Agent!historyVars, brokerVars
    <2>2. \A k \in Keys : k \notin todo => records'[k] = records[k]
      BY <1>0, <1>3
      DEF Check, SubmitFails, Agent!Check, Agent!IsFirst, Agent!SubmitRaises, Agent!MarkAs,
          Agent!storeVars, RunInv
    <2> QED
      BY <1>0, <2>1, <2>2, SameOrdersAccount
  <1>4. CASE (Agent!RunOnce \/ Agent!ContextRaises \/ Agent!Finish) /\ UNCHANGED brokerVars
    <2>1. orders' = orders /\ stage # "mark" /\ records' = records /\ restarts' = restarts
      BY <1>4
      DEF Agent!RunOnce, Agent!ContextRaises, Agent!Finish, Agent!storeVars, Agent!historyVars,
          brokerVars
    <2> QED
      BY <2>1, SameOrdersAccount
  <1> QED
    BY <1>1, <1>2, <1>3, <1>4 DEF RunStep

\* A death loses one answer at most: the one not yet written down.
LEMMA RestartAccounts ==
    ASSUME IInv, Restart
    PROVE  /\ Unaccounted' \subseteq Unaccounted \cup {index[current]}
           /\ restarts' = restarts + 1
  <1>1. records' = records /\ orders' = orders /\ restarts' = restarts + 1
    BY DEF Restart, Agent!Abort, Agent!storeVars, brokerVars
  <1>2. \A id \in DOMAIN orders : orders[id].request.key = current => id = index[current]
    BY DEF IInv, BrokerInv, Broker!OneOrderPerKey
  <1> QED
    BY <1>1, <1>2 DEF Unaccounted

LEMMA SurroundingsAccount ==
    ASSUME IInv, Surroundings
    PROVE  Unaccounted' \subseteq Unaccounted /\ restarts' = restarts
  <1>0. records \in [Keys -> Agent!Record]
    BY DEF IInv, AgentInv
  <1>1. CASE Agent!Surroundings /\ UNCHANGED brokerVars
    <2>1. /\ orders' = orders /\ stage' = stage /\ current' = current /\ restarts' = restarts
      BY <1>1
      DEF Agent!Surroundings, Agent!Approve, Agent!OperatorActivates, Agent!Reset,
          Agent!Evaluate, Agent!Activate, Agent!runVars, Agent!historyVars, brokerVars
    <2>2. \A k \in Keys : records[k].status = "SUBMITTED" => records'[k].status = "SUBMITTED"
      BY <1>0, <1>1
      DEF Agent!Surroundings, Agent!Approve, Agent!OperatorActivates, Agent!Reset,
          Agent!Evaluate, Agent!Activate, Agent!storeVars
    <2> QED
      BY <2>1, <2>2, SameOrdersAccount
  <1>2. CASE /\ \/ \E s \in Symbols, p \in Prices : Broker!SetPrice(s, p)
                \/ \E id \in DOMAIN orders : Broker!CancelOrder(id)
             /\ UNCHANGED agentVars
    <2>1. /\ records' = records /\ stage' = stage /\ current' = current /\ restarts' = restarts
      BY <1>2 DEF agentVars
    <2>2. /\ DOMAIN orders' = DOMAIN orders
          /\ \A id \in DOMAIN orders : orders'[id].request = orders[id].request
      <3>1. \A id \in DOMAIN orders : orders[id] \in Broker!Order
        BY ElementOfSeq, LenProperties DEF IInv, BrokerInv
      <3>2. \/ orders' = orders
            \/ \E id \in DOMAIN orders : orders' = [orders EXCEPT ![id].status = "CANCELLED"]
        BY <1>2 DEF Broker!SetPrice, Broker!CancelOrder
      <3> QED
        BY <3>1, <3>2 DEF Broker!Order
    <2> QED
      BY <2>1, <2>2, SameOrdersAccount
  <1> QED
    BY <1>1, <1>2 DEF Surroundings

\* A set of order numbers bounded by n gains one member at most.
LEMMA OneMore ==
    ASSUME NEW S, NEW T, NEW x, NEW n \in Nat, IsFiniteSet(S), Cardinality(S) <= n,
           T \subseteq S \cup {x}
    PROVE  Cardinality(T) <= n + 1
  <1>1. IsFiniteSet(S \cup {x}) /\ Cardinality(S \cup {x}) \in {Cardinality(S), Cardinality(S) + 1}
    BY FS_AddElement
  <1>2. Cardinality(S) \in Nat
    BY FS_CardinalityType
  <1>3. Cardinality(T) <= Cardinality(S \cup {x}) /\ Cardinality(T) \in Nat
    BY <1>1, FS_Subset, FS_CardinalityType
  <1> QED
    BY <1>1, <1>2, <1>3

\* The store accounts for the broker's orders but for one for each restart.
THEOREM AccountedFor == Spec => []UnaccountedBoundedByRestarts
  <1> DEFINE Bounded == Cardinality(Unaccounted) <= restarts
  <1>1. Init => RunInv /\ Bounded
    <2>1. Init => Unaccounted = {} /\ restarts = 0 /\ RunInv
      BY DEF Init, Agent!Init, Broker!Init, Unaccounted, RunInv
    <2> QED
      BY <2>1, FS_EmptySet
  <1>2. IInv /\ RunInv /\ Bounded /\ [Next]_vars => RunInv' /\ Bounded'
    <2> SUFFICES ASSUME IInv, RunInv, Bounded, [Next]_vars PROVE RunInv' /\ Bounded'
      OBVIOUS
    <2>1. RunInv'
      BY NextKeepsRun
    <2>2. IsFiniteSet(Unaccounted) /\ Cardinality(Unaccounted) \in Nat
      <3>1. DOMAIN orders = 1..Len(orders) /\ Len(orders) \in Nat
        BY LenProperties DEF IInv, BrokerInv
      <3>2. IsFiniteSet(DOMAIN orders)
        BY <3>1, FS_Interval
      <3> QED
        BY <3>2, FS_Subset, FS_CardinalityType DEF Unaccounted
    <2>3. CASE RunStep \/ Surroundings
      <3>1. Unaccounted' \subseteq Unaccounted /\ restarts' = restarts
        BY <2>3, RunAccounts, SurroundingsAccount
      <3>2. Cardinality(Unaccounted') <= Cardinality(Unaccounted)
        BY <2>2, <3>1, FS_Subset
      <3>3. Cardinality(Unaccounted') \in Nat
        BY <2>2, <3>1, FS_Subset, FS_CardinalityType
      <3> QED
        BY <2>1, <2>2, <3>1, <3>2, <3>3 DEF RunInv
    <2>4. CASE Restart
      BY <2>1, <2>2, <2>4, RestartAccounts, OneMore DEF RunInv
    <2>5. CASE UNCHANGED vars
      <3>1. Unaccounted' = Unaccounted /\ restarts' = restarts
        BY <2>5 DEF vars, agentVars, brokerVars, Unaccounted
      <3> QED
        BY <2>1, <3>1
    <2> QED
      BY <2>3, <2>4, <2>5 DEF Next
  <1>3. Bounded => UnaccountedBoundedByRestarts
    BY DEF Unaccounted, UnaccountedBoundedByRestarts
  <1> QED
    BY <1>1, <1>2, <1>3, Invariance, PTL DEF Spec

-----------------------------------------------------------------------------
(* Agent and broker of the composition are those of ExecutionAgent and of  *)
(* PaperBroker.                                                            *)

\* query_account has numbers to show.
AccountInv ==
    /\ cash \in Int /\ positions \in [Symbols -> Int]
    /\ prices \in [Symbols -> Prices \cup {0}]

\* The agent is a caller that sends requests it was given.
LEMMA StepIsBrokerStep ==
    ASSUME IInv, [Next]_vars
    PROVE  [Broker!Next]_(Broker!brokerVars)
  <1>1. CASE Submit
    <2>1. records[current].request \in Requests
      BY <1>1, SubmissionPlaces
    <2>2. Broker!SubmitOrder(records[current].request)
      BY <1>1 DEF Submit
    <2> QED
      BY <2>1, <2>2 DEF Broker!Next
  <1>2. CASE (\E s \in Symbols, p \in Prices : Broker!SetPrice(s, p))
             \/ (\E id \in DOMAIN orders : Broker!CancelOrder(id))
    BY <1>2 DEF Broker!Next
  <1>3. CASE UNCHANGED brokerVars
    BY <1>3 DEF brokerVars, Broker!brokerVars
  <1> QED
    BY <1>1, <1>2, <1>3
    DEF Next, RunStep, Check, SubmitFails, Restart, Surroundings, vars, brokerVars

LEMMA AccountKept ==
    ASSUME AccountInv, [Broker!Next]_(Broker!brokerVars)
    PROVE  AccountInv'
  <1>1. CASE \E s \in Symbols, p \in Prices : Broker!SetPrice(s, p)
    BY <1>1 DEF AccountInv, Broker!SetPrice
  <1>2. ASSUME NEW request \in Requests, Broker!Place(request)
        PROVE  AccountInv'
    <2>1. /\ request.symbol \in Symbols /\ request.quantity \in Nat
          /\ prices[request.symbol] \in Nat
      <3>1. request.symbol \in Symbols /\ request.quantity \in Nat
        BY TradingAssumption
      <3>2. prices[request.symbol] \in Prices \cup {0}
        BY <3>1 DEF AccountInv
      <3>3. Prices \subseteq Nat
        BY TradingAssumption
      <3>4. Prices \cup {0} \subseteq Nat
        BY ONLY <3>3
      <3> QED
        BY <3>1, <3>2, <3>4
    <2>2. Broker!Notional(request) \in Int
      BY <2>1 DEF Broker!Notional
    <2>3. CASE Broker!Outcome(request) = "FILLED"
      <3>1. Broker!Book(request) /\ prices' = prices
        BY <1>2, <2>3 DEF Broker!Place
      <3> QED
        BY <2>1, <2>2, <3>1 DEF AccountInv, Broker!Book
    <2>4. CASE Broker!Outcome(request) # "FILLED"
      BY <1>2, <2>4 DEF AccountInv, Broker!Place
    <2> QED
      BY <2>3, <2>4
  <1>3. CASE \E id \in DOMAIN orders : Broker!CancelOrder(id)
    BY <1>3 DEF AccountInv, Broker!CancelOrder
  <1>4. CASE UNCHANGED Broker!brokerVars
    BY <1>4 DEF AccountInv, Broker!brokerVars
  <1> QED
    BY <1>1, <1>2, <1>3, <1>4 DEF Broker!Next, Broker!SubmitOrder

\* The broker's answer is an order, and the context it contributes to a context.
LEMMA StepIsAgentStep ==
    ASSUME IInv, AccountInv, [Next]_vars
    PROVE  [Agent!Next]_(Agent!agentVars)
  <1>1. CASE Submit
    <2>1. records[current].request \in Requests /\ records[current].request.key \in Keys
      BY <1>1, SubmissionPlaces
    <2>2. Broker!Returned(records[current].request) \in Broker!Order
      <3> DEFINE request == records[current].request
      <3>1. CASE Broker!Existing(request) # 0
        <4>1. index[request.key] \in 1..Len(orders) /\ orders \in Seq(Broker!Order)
          BY <2>1, <3>1, LenProperties DEF IInv, BrokerInv, Broker!Existing
        <4> QED
          BY <3>1, <4>1, LenProperties, ElementOfSeq DEF Broker!Returned, Broker!Existing
      <3>2. CASE Broker!Existing(request) = 0
        BY <2>1, <3>2, NewOrderType DEF Broker!Returned, IInv, BrokerInv
      <3> QED
        BY <3>1, <3>2
    <2> QED
      BY <1>1, <2>2 DEF Submit, Agent!Next, Agent!Submit
  <1>2. CASE Check
    <2>1. PICK k \in Keys, quote \in Quotes : Agent!Check(k, Context(quote))
      BY <1>2 DEF Check
    <2>2. Context(quote) \in Contexts
      BY DEF Context, Contexts, AccountInv
    <2> QED
      BY <2>1, <2>2 DEF Agent!Next, Agent!LocalStep
  <1>3. CASE SubmitFails
    BY <1>3 DEF SubmitFails, Agent!Next, Agent!Submit
  <1>4. CASE Agent!RunOnce \/ Agent!ContextRaises \/ Agent!MarkSubmitted \/ Agent!Finish
             \/ Agent!Abort
    BY <1>4 DEF Agent!Next, Agent!LocalStep
  <1>5. CASE Agent!Surroundings \/ UNCHANGED agentVars
    BY <1>5 DEF Agent!Next, agentVars, Agent!agentVars
  <1> QED
    BY <1>1, <1>2, <1>3, <1>4, <1>5 DEF Next, RunStep, Restart, Surroundings, vars, agentVars

LEMMA AccountInvariance == Spec => []AccountInv
  <1>1. Init => AccountInv
    BY TradingAssumption DEF Init, Broker!Init, AccountInv
  <1>2. IInv /\ AccountInv /\ [Next]_vars => AccountInv'
    BY StepIsBrokerStep, AccountKept
  <1> QED
    BY <1>1, <1>2, Invariance, PTL DEF Spec

\* What ExecutionAgent is shown to keep against any broker it keeps with this one.
THEOREM ImplementsAgent == Spec => Agent!Spec
  <1>1. Init => Agent!Init
    BY DEF Init
  <1>2. IInv /\ AccountInv /\ [Next]_vars => [Agent!Next]_(Agent!agentVars)
    BY StepIsAgentStep
  <1> QED
    BY <1>1, <1>2, Invariance, AccountInvariance, PTL DEF Spec, Agent!Spec

\* What PaperBroker is shown to keep whoever calls it keeps with the agent calling,
\* dying and calling again.
THEOREM ImplementsBroker == Spec => Broker!Spec
  <1>1. Init => Broker!Init
    BY DEF Init
  <1>2. IInv /\ [Next]_vars => [Broker!Next]_(Broker!brokerVars)
    BY StepIsBrokerStep
  <1> QED
    BY <1>1, <1>2, Invariance, PTL DEF Spec, Broker!Spec
=============================================================================
