----------------------------- MODULE QmtTrading -----------------------------
(***************************************************************************)
(* The execution agent trading through the QMT adapter, whose gateway may  *)
(* lose answers.  Agent and adapter are handed their store and state when  *)
(* they are built, so both outlive an agent that is built anew.            *)
(***************************************************************************)
EXTENDS PreTradeRisk, Sequences, FiniteSets

CONSTANTS
    Keys, Requests, Contexts,
    NoKey, NoRequest, NoOrder, MaxRestarts,
    OrderStatus,    \* of BrokerOrderStatus, what an order may be at the gateway
    AbortInCall     \* may the agent die between the gateway's answer and the index

VARIABLES records, killReasons, stage, todo, current, reply, calls, restarts
VARIABLES index, cached, answer, seen, held

Adapter == INSTANCE QmtAdapter

Agent == INSTANCE ExecutionAgent WITH BrokerOrders <- Adapter!Order

ASSUME TradingAssumption ==
    /\ \A request \in Requests : request.key \in Keys
    /\ IsFiniteSet(Keys) /\ NoKey \notin Keys
    /\ NoRequest \notin Requests
    /\ NoOrder \notin Adapter!Order
    /\ {"SUBMITTED", "CANCELLED"} \subseteq OrderStatus /\ "UNKNOWN" \notin OrderStatus
    /\ MaxRestarts \in Nat
    /\ AbortInCall \in BOOLEAN

agentVars == <<records, killReasons, stage, todo, current, reply, calls, restarts>>
adapterVars == <<index, cached, answer, seen, held>>
vars == <<agentVars, adapterVars>>

Init == Agent!Init /\ Adapter!Init

\* The request of the call in hand.
Asked == records[current].request

\* adapter.py:43, the gateway is called and answers.
CallGateway ==
    /\ stage = "submit"
    /\ \E status \in OrderStatus : Adapter!GatewayAnswers(Asked, status)
    /\ UNCHANGED agentVars

\* adapter.py:40-42 and 49, the key is known and its order is queried.
CallExisting == stage = "submit" /\ Adapter!QueryExisting(Asked) /\ UNCHANGED agentVars

\* adapter.py:44-46 and 50-51, the answer is recorded and returned to the agent.
ReturnAnswer ==
    /\ Adapter!RecordAnswer \/ Adapter!CacheExisting
    /\ Agent!SubmitReturns(answer)

\* The gateway raises through submit_order into the agent.
Fail ==
    /\ stage = "submit"
    /\ Adapter!GatewayRaises(Asked) \/ Adapter!QueryRaises(Asked)
    /\ Agent!SubmitRaises

RunStep ==
    \/ /\ \/ Agent!RunOnce \/ Agent!ContextRaises \/ Agent!MarkSubmitted \/ Agent!Finish
          \/ \E k \in Keys, context \in Contexts : Agent!Check(k, context)
       /\ UNCHANGED adapterVars
    \/ CallGateway \/ CallExisting \/ ReturnAnswer \/ Fail

\* The agent dies and is built anew over the same store and adapter state.
Restart ==
    /\ (answer # NoOrder /\ index[answer.request.key] = 0) => AbortInCall
    /\ Agent!Abort
    /\ Adapter!LoseAnswer

\* cancel_order and query_order know only the ids the adapter has handed out.
Surroundings ==
    \/ Agent!Surroundings /\ UNCHANGED adapterVars
    \/ /\ \/ \E id \in DOMAIN held, status \in OrderStatus : Adapter!Trade(id, status)
          \/ \E id \in DOMAIN cached : Adapter!Cancelled(id) \/ Adapter!Queried(id)
          \/ Adapter!CacheSeen
       /\ UNCHANGED agentVars

Next == RunStep \/ Restart \/ Surroundings

Spec == Init /\ [][Next]_vars

-----------------------------------------------------------------------------

TypeOK == Agent!TypeOK /\ Adapter!TypeOK

\* disaster-recovery.md:7, with an answer lost the outcome is UNKNOWN and never
\* guessed: an order the adapter cannot name is flagged as UNKNOWN in the store.
LostOrderIsUnknown ==
    \A id \in DOMAIN held :
        LET k == held[id].request.key IN
        \/ index[k] = id
        \/ records[k].status = "UNKNOWN"
        \/ answer # NoOrder /\ answer.id = id

\* What the adapter remembers as closed is closed at the gateway the same way,
\* however late an answer is written, and whatever the agent, the operator and the
\* exchange did to the order since.
CachedClosureIsTrue ==
    \A id \in DOMAIN cached : cached[id] \in Adapter!Closed => held[id].status = cached[id]

\* The gateway holds at most one order per approved intent.
Promise == INSTANCE OnceOnlyOrders
              WITH approved <- {k \in Keys : records[k].status # "ABSENT"},
                   placed <- [k \in Keys |->
                                Cardinality({id \in DOMAIN held : held[id].request.key = k})]
PlacedOnceOnly == Promise!Spec

\* test_execution_safety.py:172, "adapter state prevents duplicate after agent
\* restart": the gateway never gets a second order for a key.
NoDuplicateAtGateway ==
    \A i, j \in DOMAIN held : held[i].request.key = held[j].request.key => i = j
=============================================================================
