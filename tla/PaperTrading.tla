---------------------------- MODULE PaperTrading ----------------------------
(***************************************************************************)
(* The execution agent trading on the paper broker: the system of          *)
(* tests/unit/execution/test_execution_safety.py.  The context provider    *)
(* asks the broker for the account; the rest of a context comes from       *)
(* market data that the broker does not share.                             *)
(***************************************************************************)
EXTENDS PreTradeRisk, Sequences, FiniteSets

CONSTANTS
    Keys, Symbols, Requests, Prices, InitialCash, InitialPositions,
    Quotes,         \* contexts without the account
    NoKey, NoRequest, NoOrder, MaxRestarts

ASSUME TradingAssumption ==
    /\ Requests \subseteq [key : Keys, symbol : Symbols, side : {"BUY", "SELL"},
                           quantity : Nat \ {0}]
    /\ IsFiniteSet(Keys)
    /\ Prices \subseteq Nat \ {0}
    /\ InitialCash \in Nat /\ InitialPositions \in [Symbols -> Nat]

VARIABLES records, killReasons, stage, todo, current, reply, calls, restarts
VARIABLES cash, positions, prices, orders, index, fills

Broker == INSTANCE PaperBroker

\* A context is a quote with the account as query_account has it.
ContextWith(quote, account) ==
    [now |-> quote.now, marketDataAt |-> quote.marketDataAt, price |-> quote.price,
     dailyVolume |-> quote.dailyVolume, suspended |-> quote.suspended, isSt |-> quote.isSt,
     account |-> account, dataReleasePublished |-> quote.dataReleasePublished]

Contexts ==
    {ContextWith(quote, account) :
        quote \in Quotes, account \in [cash : Int, positions : [Symbols -> Int]]}

Agent == INSTANCE ExecutionAgent WITH BrokerOrders <- Broker!Order

agentVars == <<records, killReasons, stage, todo, current, reply, calls, restarts>>
brokerVars == <<cash, positions, prices, orders, index, fills>>
vars == <<agentVars, brokerVars>>

Init == Agent!Init /\ Broker!Init

\* The provider's context at the moment it is asked: query_account is now.
Context(quote) == ContextWith(quote, [cash |-> cash, positions |-> positions])

Check == \E k \in Keys, quote \in Quotes : Agent!Check(k, Context(quote)) /\ UNCHANGED brokerVars

\* broker.submit_order runs to its end and returns.
Submit ==
    /\ stage = "submit"
    /\ LET request == records[current].request IN
       /\ Broker!SubmitOrder(request)
       /\ Agent!SubmitReturns(Broker!Returned(request))

\* It raises before the broker has done anything (BrokenBroker of the tests).
SubmitFails == Agent!SubmitRaises /\ UNCHANGED brokerVars

RunStep ==
    \/ (Agent!RunOnce \/ Agent!ContextRaises \/ Agent!MarkSubmitted \/ Agent!Finish)
       /\ UNCHANGED brokerVars
    \/ Check
    \/ Submit
    \/ SubmitFails

Restart == Agent!Abort /\ UNCHANGED brokerVars

\* The approver, the operator and the monitor, and the market under the broker.
Surroundings ==
    \/ Agent!Surroundings /\ UNCHANGED brokerVars
    \/ /\ \/ \E s \in Symbols, p \in Prices : Broker!SetPrice(s, p)
          \/ \E id \in DOMAIN orders : Broker!CancelOrder(id)
       /\ UNCHANGED agentVars

Next == RunStep \/ Restart \/ Surroundings

Spec == Init /\ [][Next]_vars

-----------------------------------------------------------------------------

\* A SUBMITTED record carries the broker's order for exactly what was approved,
\* also when the agent died between the call and the record, or the order was
\* cancelled meanwhile.
SubmittedIsPlaced ==
    \A k \in Keys : records[k].status = "SUBMITTED" =>
        /\ records[k].order.id = index[k]
        /\ orders[index[k]].request = records[k].request

\* The store accounts for the broker's orders: but for one order for each time
\* the agent died, a key with an order is recorded SUBMITTED or about to be.
UnaccountedBoundedByRestarts ==
    Cardinality({id \in DOMAIN orders :
                    LET k == orders[id].request.key IN
                    /\ records[k].status # "SUBMITTED"
                    /\ ~(stage = "mark" /\ current = k)}) <= restarts

\* The promise of OnceOnlyOrders, kept by agent and paper broker together.
Promise == INSTANCE OnceOnlyOrders
              WITH approved <- {k \in Keys : records[k].status # "ABSENT"},
                   placed <- [k \in Keys |->
                                Cardinality({id \in DOMAIN orders : orders[id].request.key = k})]
PlacedOnceOnly == Promise!Spec

\* disaster-recovery.md:7-8, an outcome is not guessed to be a failure, and a
\* restarted agent resumes from the stored orders and the idempotency index: a
\* FAILED order has not been traded.
FailedIsNotTraded ==
    \A k \in Keys : records[k].status = "FAILED" =>
        \A id \in DOMAIN orders : orders[id].request.key = k => orders[id].status # "FILLED"
=============================================================================
