-------------------------- MODULE QmtTradingProofs --------------------------
(***************************************************************************)
(* Agent and QMT adapter together, for any keys, requests, contexts and    *)
(* risk limits, with the gateway losing answers and the agent dying.  What *)
(* holds only if the agent never dies between the gateway's answer and the *)
(* index says so: AbortInCall = FALSE.                                     *)
(***************************************************************************)
EXTENDS QmtTrading, SequenceTheorems, FiniteSetTheorems, TLAPS

\* A known key stands for a request of its own; a run works on approved records.
AgentInv ==
    /\ Agent!TypeOK
    /\ todo \subseteq Agent!Pending
    /\ stage \in {"submit", "mark"} => current \in todo
    /\ \A k \in Agent!Known : records[k].request \in Requests /\ records[k].request.key = k

\* The index names the gateway's orders.  The agent's answer is about an order of the
\* key in hand, the one the index knows if it knows one.  Who is told that an order is
\* closed is told how, and a closed order stays as it is.
ToldTrue(order) == order.status \in Adapter!Closed => held[order.id].status = order.status

AdapterInv ==
    /\ Adapter!TypeOK
    /\ \A id \in DOMAIN held : held[id].id = id /\ held[id].request.key \in Agent!Known
    /\ \A k \in Keys : index[k] # 0 => held[index[k]].request.key = k
    /\ answer # NoOrder => /\ stage = "submit"
                           /\ answer.id \in DOMAIN held
                           /\ held[answer.id].request.key = current
                           /\ answer.request.key = current
                           /\ index[current] \in {0, answer.id}
                           /\ ToldTrue(answer)
    /\ seen # NoOrder => seen.id \in DOMAIN held /\ ToldTrue(seen)

IInv == AgentInv /\ AdapterInv /\ CachedClosureIsTrue

LEMMA InitEstablishes == Init => IInv
  <1> SUFFICES ASSUME Init PROVE IInv
    OBVIOUS
  <1>1. Agent!TypeOK
    BY TradingAssumption
    DEF Init, Agent!Init, Agent!TypeOK, Agent!Record, Agent!Absent, Agent!Settled
  <1>2. AgentInv
    BY <1>1 DEF Init, Agent!Init, AgentInv, Agent!Absent, Agent!Known
  <1>3. AdapterInv /\ CachedClosureIsTrue
    BY DEF Init, Adapter!Init, Adapter!TypeOK, AdapterInv, CachedClosureIsTrue, ToldTrue
  <1> QED
    BY <1>2, <1>3 DEF IInv

-----------------------------------------------------------------------------
(* The agent. *)

LEMMA KnownIsFinite == Cardinality(Agent!Known) \in Nat
  BY TradingAssumption, FS_Subset, FS_CardinalityType DEF Agent!Known

\* What a step of the agent never takes back: a key keeps its request, and an
\* order in the unknown state stays there.
StoreGrows ==
    /\ Agent!Known \subseteq Agent!Known'
    /\ \A k \in Agent!Known : records'[k].request = records[k].request
    /\ \A k \in Keys : records[k].status = "UNKNOWN" => records'[k].status = "UNKNOWN"

LEMMA ApproveGrows ==
    ASSUME AgentInv, NEW request \in Requests, Agent!Approve(request)
    PROVE  AgentInv' /\ StoreGrows /\ Agent!Known' = Agent!Known \cup {request.key}
  <1> DEFINE k == request.key
             new == [status |-> "APPROVED", request |-> request, order |-> NoOrder,
                     position |-> Cardinality(Agent!Known) + 1]
  <1>1. /\ k \in Keys /\ records[k].status = "ABSENT"
        /\ records' = [records EXCEPT ![k] = new] /\ new \in Agent!Record
        /\ UNCHANGED <<killReasons, stage, todo, current, reply, calls, restarts>>
    BY TradingAssumption, KnownIsFinite
    DEF Agent!Approve, Agent!Record, Agent!runVars, Agent!historyVars, Agent!Cardinality,
        Cardinality
  <1>2. /\ records' \in [Keys -> Agent!Record] /\ records'[k] = new
        /\ \A j \in Keys : j # k => records'[j] = records[j]
    BY <1>1 DEF AgentInv, Agent!TypeOK
  <1>3. Agent!Known' = Agent!Known \cup {k}
    BY <1>1, <1>2 DEF Agent!Known
  <1>4. Agent!TypeOK'
    BY <1>1, <1>2 DEF AgentInv, Agent!TypeOK
  <1>5. AgentInv'
    BY <1>1, <1>2, <1>3, <1>4 DEF AgentInv, Agent!Pending, Agent!Known
  <1> QED
    BY <1>1, <1>2, <1>3, <1>5 DEF StoreGrows, Agent!Known

\* A record of the run in hand is settled, and the run leaves its key behind.
LEMMA SettleGrows ==
    ASSUME AgentInv, NEW k \in todo, NEW status \in Agent!Settled,
           NEW order \in Adapter!Order \cup {NoOrder},
           records' = [records EXCEPT ![k].status = status, ![k].order = order],
           stage' = "check", todo' = todo \ {k}, current' \in Keys \cup {NoKey},
           reply' \in Adapter!Order \cup {NoOrder},
           calls' \in [Keys -> Nat], UNCHANGED <<killReasons, restarts>>
    PROVE  AgentInv' /\ StoreGrows /\ Agent!Known' = Agent!Known
  <1>1. k \in Keys /\ records[k] \in Agent!Record /\ records[k].status = "APPROVED"
    BY DEF AgentInv, Agent!TypeOK, Agent!Pending
  <1> DEFINE new == [[records[k] EXCEPT !.status = status] EXCEPT !.order = order]
  <1>2. /\ new \in Agent!Record /\ new.status = status /\ new.request = records[k].request
    BY <1>1 DEF Agent!Record, Agent!Settled
  <1>3. /\ records' \in [Keys -> Agent!Record] /\ records'[k] = new
        /\ \A j \in Keys : j # k => records'[j] = records[j]
    BY <1>1, <1>2 DEF AgentInv, Agent!TypeOK
  <1>4. Agent!Known' = Agent!Known
    BY <1>1, <1>2, <1>3 DEF Agent!Known, Agent!Settled
  <1>5. Agent!TypeOK'
    BY <1>3 DEF AgentInv, Agent!TypeOK
  <1>6. AgentInv'
    BY <1>1, <1>2, <1>3, <1>4, <1>5 DEF AgentInv, Agent!Pending, Agent!Known
  <1> QED
    BY <1>1, <1>2, <1>3, <1>4, <1>6 DEF StoreGrows, Agent!Known

LEMMA CheckGrows ==
    ASSUME AgentInv, NEW k \in Keys, NEW context \in Contexts, Agent!Check(k, context)
    PROVE  AgentInv' /\ StoreGrows /\ Agent!Known' = Agent!Known
  <1>1. k \in todo /\ UNCHANGED <<killReasons, reply, calls, restarts>>
    BY DEF Agent!Check, Agent!IsFirst, Agent!historyVars
  <1>2. CASE Agent!RejectReasons(records[k].request, context) = {}
    <2>1. records' = records /\ todo' = todo /\ stage' = "submit" /\ current' = k
      BY <1>2 DEF Agent!Check, Agent!storeVars
    <2> QED
      BY <1>1, <2>1 DEF AgentInv, Agent!TypeOK, Agent!Pending, Agent!Known, StoreGrows
  <1>3. CASE Agent!RejectReasons(records[k].request, context) # {}
    <2>1. /\ records' = [records EXCEPT ![k].status = "FAILED"] /\ stage' = "check"
          /\ todo' = todo \ {k} /\ current' = current
      BY <1>3 DEF Agent!Check, Agent!MarkAs
    <2>2. records[k].order \in Adapter!Order \cup {NoOrder}
      BY DEF AgentInv, Agent!TypeOK, Agent!Record
    <2>3. records' = [records EXCEPT ![k].status = "FAILED", ![k].order = records[k].order]
      BY <2>1 DEF AgentInv, Agent!TypeOK, Agent!Record
    <2>4. /\ current' \in Keys \cup {NoKey} /\ reply' \in Adapter!Order \cup {NoOrder}
          /\ calls' \in [Keys -> Nat]
      BY <1>1, <2>1 DEF AgentInv, Agent!TypeOK
    <2> QED
      BY <1>1, <2>1, <2>2, <2>3, <2>4, SettleGrows DEF Agent!Settled
  <1> QED
    BY <1>2, <1>3

LEMMA SubmitRaisesGrows ==
    ASSUME AgentInv, Agent!SubmitRaises
    PROVE  AgentInv' /\ StoreGrows /\ Agent!Known' = Agent!Known
           /\ records'[current].status = "UNKNOWN"
  <1>1. /\ current \in todo /\ current \in Keys /\ stage' = "check" /\ todo' = todo \ {current}
        /\ records' = [records EXCEPT ![current].status = "UNKNOWN"]
        /\ current' = NoKey /\ reply' = reply /\ UNCHANGED <<killReasons, restarts>>
        /\ calls' = [calls EXCEPT ![current] = calls[current] + 1]
    BY DEF AgentInv, Agent!TypeOK, Agent!SubmitRaises, Agent!MarkAs
  <1>2. records[current].order \in Adapter!Order \cup {NoOrder}
    BY <1>1 DEF AgentInv, Agent!TypeOK, Agent!Record
  <1>3. records' = [records EXCEPT ![current].status = "UNKNOWN",
                                   ![current].order = records[current].order]
    BY <1>1 DEF AgentInv, Agent!TypeOK, Agent!Record
  <1>4. /\ current' \in Keys \cup {NoKey} /\ reply' \in Adapter!Order \cup {NoOrder}
        /\ calls' \in [Keys -> Nat]
    BY <1>1 DEF AgentInv, Agent!TypeOK
  <1>5. records'[current].status = "UNKNOWN"
    BY <1>1 DEF AgentInv, Agent!TypeOK, Agent!Record
  <1> QED
    BY <1>1, <1>2, <1>3, <1>4, <1>5, SettleGrows DEF Agent!Settled

LEMMA MarkSubmittedGrows ==
    ASSUME AgentInv, Agent!MarkSubmitted
    PROVE  AgentInv' /\ StoreGrows /\ Agent!Known' = Agent!Known
  <1>1. /\ current \in todo /\ stage' = "check" /\ todo' = todo \ {current}
        /\ records' = [records EXCEPT ![current].status = "SUBMITTED", ![current].order = reply]
        /\ current' = NoKey /\ reply' = NoOrder /\ UNCHANGED <<killReasons, calls, restarts>>
    BY DEF AgentInv, Agent!MarkSubmitted, Agent!historyVars
  <1>2. reply \in Adapter!Order \cup {NoOrder} /\ calls' \in [Keys -> Nat]
    BY <1>1 DEF AgentInv, Agent!TypeOK
  <1> QED
    BY <1>1, <1>2, SettleGrows DEF Agent!Settled

\* The steps that write no record.
LEMMA QuietGrows ==
    ASSUME AgentInv,
           \/ Agent!OperatorActivates \/ Agent!Reset
           \/ \E stale, drawdown \in BOOLEAN : Agent!Evaluate(stale, drawdown)
           \/ Agent!RunOnce \/ Agent!ContextRaises \/ Agent!Finish \/ Agent!Abort
           \/ \E order \in Adapter!Order : Agent!SubmitReturns(order)
           \/ UNCHANGED Agent!agentVars
    PROVE  AgentInv' /\ StoreGrows /\ Agent!Known' = Agent!Known
  <1>0. records' = records
    BY DEF Agent!OperatorActivates, Agent!Reset, Agent!Evaluate, Agent!Activate, Agent!RunOnce,
           Agent!ContextRaises, Agent!Finish, Agent!Abort, Agent!SubmitReturns, Agent!storeVars,
           Agent!agentVars
  <1>1. ASSUME \/ Agent!OperatorActivates \/ Agent!Reset
               \/ \E stale, drawdown \in BOOLEAN : Agent!Evaluate(stale, drawdown)
               \/ UNCHANGED Agent!agentVars
        PROVE  AgentInv'
    BY <1>0, <1>1
    DEF Agent!OperatorActivates, Agent!Reset, Agent!Evaluate, Agent!Activate, Agent!runVars,
        Agent!historyVars, Agent!agentVars, AgentInv, Agent!TypeOK, Agent!Pending, Agent!Known
  <1>2. ASSUME Agent!RunOnce PROVE AgentInv'
    BY <1>0, <1>2
    DEF Agent!RunOnce, Agent!historyVars, AgentInv, Agent!TypeOK, Agent!Pending, Agent!Known
  <1>3. ASSUME Agent!ContextRaises \/ Agent!Finish \/ Agent!Abort PROVE AgentInv'
    <2>1. /\ Agent!Idle /\ killReasons' = killReasons /\ calls' = calls
          /\ \/ restarts' = restarts
             \/ restarts' = restarts + 1 /\ restarts < MaxRestarts
      BY <1>3 DEF Agent!ContextRaises, Agent!Finish, Agent!Abort, Agent!historyVars
    <2>2. Agent!TypeOK'
      BY <1>0, <2>1, TradingAssumption DEF AgentInv, Agent!TypeOK, Agent!Idle
    <2> QED
      BY <1>0, <2>1, <2>2 DEF AgentInv, Agent!Idle, Agent!Pending, Agent!Known
  <1>4. ASSUME NEW order \in Adapter!Order, Agent!SubmitReturns(order) PROVE AgentInv'
    BY <1>0, <1>4
    DEF Agent!SubmitReturns, AgentInv, Agent!TypeOK, Agent!Pending, Agent!Known
  <1> QED
    BY <1>0, <1>1, <1>2, <1>3, <1>4 DEF StoreGrows, Agent!Known

\* Every step of the agent keeps its invariant and takes nothing back.
LEMMA AgentStepGrows ==
    ASSUME AgentInv, [Agent!Next]_(Agent!agentVars)
    PROVE  AgentInv' /\ StoreGrows
  BY ApproveGrows, CheckGrows, SubmitRaisesGrows, MarkSubmittedGrows, QuietGrows
  DEF Agent!Next, Agent!Surroundings, Agent!LocalStep, Agent!Submit

-----------------------------------------------------------------------------
(* Gateway and cache. *)

\* The adapter's clauses, each with what it reads of the agent.
HeldKnown == \A id \in DOMAIN held : held[id].id = id /\ held[id].request.key \in Agent!Known
IndexNames == \A k \in Keys : index[k] # 0 => held[index[k]].request.key = k
AnswerInHand ==
    answer # NoOrder => /\ stage = "submit"
                        /\ answer.id \in DOMAIN held
                        /\ held[answer.id].request.key = current
                        /\ answer.request.key = current
                        /\ index[current] \in {0, answer.id}
                        /\ ToldTrue(answer)
SeenInHand == seen # NoOrder => seen.id \in DOMAIN held /\ ToldTrue(seen)

LEMMA AdapterParts ==
    AdapterInv <=> /\ Adapter!TypeOK /\ HeldKnown /\ IndexNames
                   /\ AnswerInHand /\ SeenInHand
  BY DEF AdapterInv, HeldKnown, IndexNames, AnswerInHand, SeenInHand

LEMMA HeldDomain ==
    ASSUME Adapter!TypeOK
    PROVE  /\ held \in Seq(Adapter!Order) /\ Len(held) \in Nat /\ DOMAIN held = 1..Len(held)
           /\ \A id \in DOMAIN held : held[id] \in Adapter!Order
  BY LenProperties, ElementOfSeq DEF Adapter!TypeOK

\* The request of the call in hand is one a caller may make.
LEMMA AskedIsRequest ==
    ASSUME AgentInv, stage \in {"submit", "mark"}
    PROVE  /\ current \in Keys /\ current \in Agent!Known /\ records[current].status = "APPROVED"
           /\ Asked \in Requests /\ Asked.key = current
  BY DEF AgentInv, Agent!TypeOK, Agent!Pending, Agent!Known, Asked

\* The gateway takes one order more.
LEMMA AcceptAppends ==
    ASSUME Adapter!TypeOK, NEW request \in Requests, NEW status \in OrderStatus,
           Adapter!Accept(request, status)
    PROVE  LET n == Len(held) + 1 IN
           /\ held' \in Seq(Adapter!Order) /\ Len(held') = n /\ DOMAIN held' = 1..n
           /\ n \notin DOMAIN held
           /\ held'[n] = [id |-> n, request |-> request, status |-> status]
           /\ held'[n] \in Adapter!Order
           /\ \A id \in DOMAIN held : id \in DOMAIN held' /\ held'[id] = held[id]
  <1> DEFINE n == Len(held) + 1
             new == [id |-> n, request |-> request, status |-> status]
  <1>1. new \in Adapter!Order
    BY HeldDomain DEF Adapter!Order, Adapter!Told
  <1>2. held' = Append(held, new)
    BY DEF Adapter!Accept
  <1> QED
    BY <1>1, <1>2, HeldDomain, AppendProperties, LenProperties

\* An order gets another status, and nothing else about it changes.
LEMMA RestatusKeeps ==
    ASSUME Adapter!TypeOK, NEW id \in DOMAIN held, NEW status \in Adapter!Told,
           held' = [held EXCEPT ![id].status = status]
    PROVE  /\ held' \in Seq(Adapter!Order) /\ Len(held') = Len(held)
           /\ DOMAIN held' = DOMAIN held /\ held'[id].status = status
           /\ \A i \in DOMAIN held : held'[i].id = held[i].id /\ held'[i].request = held[i].request
           /\ \A i \in DOMAIN held : i # id => held'[i] = held[i]
  <1> DEFINE new == [held[id] EXCEPT !.status = status]
  <1>1. /\ new \in Adapter!Order /\ new.status = status
        /\ new.id = held[id].id /\ new.request = held[id].request
    BY HeldDomain DEF Adapter!Order
  <1>2. held' = [held EXCEPT ![id] = new]
    OBVIOUS
  <1>3. /\ held' \in Seq(Adapter!Order) /\ Len(held') = Len(held) /\ DOMAIN held' = DOMAIN held
        /\ held'[id] = new /\ \A i \in DOMAIN held : i # id => held'[i] = held[i]
    BY <1>1, <1>2, HeldDomain, ExceptSeq, LenProperties
  <1> QED
    BY <1>1, <1>3

\* What the gateway reports of an order is an order, and true if it is said closed.
LEMMA ReportIsTrue ==
    ASSUME NEW id \in Nat \ {0}, NEW request \in Requests, NEW status \in Adapter!Told,
           NEW order \in Adapter!Report(id, request, status)
    PROVE  /\ order \in Adapter!Order /\ order.id = id /\ order.request = request
           /\ order.status \in Adapter!Closed => order.status = status
  <1>1. PICK told \in {status, "UNKNOWN"} : order = [id |-> id, request |-> request, status |-> told]
    BY DEF Adapter!Report
  <1>2. told \in Adapter!Told /\ "UNKNOWN" \notin Adapter!Closed
    BY <1>1, TradingAssumption DEF TradingAssumption, Adapter!Told, Adapter!Closed
  <1> QED
    BY <1>1, <1>2 DEF Adapter!Order

\* What is cached of an order is what was told of it, however late.
LEMMA CacheKeepsTruth ==
    ASSUME Adapter!TypeOK, CachedClosureIsTrue, NEW order \in Adapter!Order,
           order.id \in DOMAIN held, ToldTrue(order),
           Adapter!Cache(order.id, order.status), held' = held
    PROVE  /\ CachedClosureIsTrue' /\ DOMAIN cached' \subseteq DOMAIN held
           /\ \A i \in DOMAIN cached' : cached'[i] \in Adapter!Told
  <1>1. order.status \in Adapter!Told
    BY DEF Adapter!Order
  <1>2. /\ DOMAIN cached' = DOMAIN cached \cup {order.id}
        /\ \A i \in DOMAIN cached' :
              cached'[i] = IF i = order.id THEN order.status ELSE cached[i]
    BY DEF Adapter!Cache
  <1> QED
    BY <1>1, <1>2 DEF Adapter!TypeOK, CachedClosureIsTrue, ToldTrue

\* Index, orders' ids and requests, and closed orders stay; the store may grow, and
\* answers may be let go.
LEMMA SameOrdersPreserve ==
    ASSUME AgentInv, AgentInv', AdapterInv, StoreGrows,
           index' = index, held' \in Seq(Adapter!Order), Len(held') = Len(held),
           \A i \in DOMAIN held : held'[i].id = held[i].id /\ held'[i].request = held[i].request,
           \A i \in DOMAIN held : held[i].status \in Adapter!Closed
                                    => held'[i].status = held[i].status,
           DOMAIN cached' \subseteq DOMAIN held,
           \A i \in DOMAIN cached' : cached'[i] \in Adapter!Told,
           \/ answer' = NoOrder
           \/ answer' = answer /\ (stage = "submit" => stage' = "submit" /\ current' = current),
           \/ seen' = NoOrder
           \/ seen' = seen
    PROVE  AdapterInv'
  <1>1. /\ DOMAIN held' = DOMAIN held /\ Adapter!TypeOK /\ HeldKnown /\ IndexNames
        /\ AnswerInHand /\ SeenInHand
    BY AdapterParts, HeldDomain, LenProperties
  <1>2. Adapter!TypeOK'
    BY <1>1 DEF Adapter!TypeOK
  <1>3. HeldKnown'
    BY <1>1 DEF HeldKnown, StoreGrows
  <1>4. IndexNames'
    <2>1. ASSUME NEW k \in Keys, index[k] # 0 PROVE held'[index[k]].request.key = k
      <3>1. index[k] \in DOMAIN held
        BY <1>1, <2>1, HeldDomain DEF Adapter!TypeOK
      <3> QED
        BY <1>1, <2>1, <3>1 DEF IndexNames
    <2> QED
      BY <2>1 DEF IndexNames
  <1>5. AnswerInHand'
    <2>1. CASE answer' = NoOrder
      BY <2>1 DEF AnswerInHand
    <2>2. CASE answer = answer' /\ answer # NoOrder
      <3>1. stage = "submit" /\ stage' = "submit" /\ current' = current
        BY <1>1, <2>2 DEF AnswerInHand
      <3> QED
        BY <1>1, <2>2, <3>1 DEF AnswerInHand, ToldTrue
    <2> QED
      BY <2>1, <2>2
  <1>6. SeenInHand'
    BY <1>1 DEF SeenInHand, ToldTrue
  <1> QED
    BY <1>2, <1>3, <1>4, <1>5, <1>6
    DEF AdapterInv, HeldKnown, IndexNames, AnswerInHand, SeenInHand

\* The gateway has answered the agent or the operator, and no order has changed.
LEMMA AnswersPreserve ==
    ASSUME AgentInv, AdapterInv, UNCHANGED <<agentVars, index, cached, held>>,
           \/ answer' = answer
           \/ /\ stage = "submit" /\ answer' \in Adapter!Order /\ index[current] = answer'.id
              /\ answer'.id \in DOMAIN held /\ answer'.request = held[answer'.id].request
              /\ ToldTrue(answer'),
           \/ seen' = seen
           \/ seen' \in Adapter!Order /\ seen'.id \in DOMAIN held /\ ToldTrue(seen')
    PROVE  AdapterInv'
  <1>1. Adapter!TypeOK /\ HeldKnown /\ IndexNames /\ AnswerInHand /\ SeenInHand
    BY AdapterParts
  <1>2. Adapter!TypeOK'
    BY <1>1 DEF Adapter!TypeOK
  <1>3. HeldKnown' /\ IndexNames'
    BY <1>1 DEF HeldKnown, IndexNames, agentVars, Agent!Known
  <1>4. AnswerInHand'
    <2>1. CASE answer' = answer
      BY <1>1, <2>1 DEF AnswerInHand, ToldTrue, agentVars
    <2>2. CASE answer' # answer
      <3>1. held[index[current]].request.key = current
        BY <1>1, <2>2, AskedIsRequest, HeldDomain DEF IndexNames
      <3> QED
        BY <1>1, <2>2, <3>1 DEF AnswerInHand, ToldTrue, agentVars
    <2> QED
      BY <2>1, <2>2
  <1>5. SeenInHand'
    BY <1>1 DEF SeenInHand, ToldTrue
  <1> QED
    BY <1>2, <1>3, <1>4, <1>5
    DEF AdapterInv, HeldKnown, IndexNames, AnswerInHand, SeenInHand

-----------------------------------------------------------------------------
(* The steps of the composition. *)

\* The agent's steps that do not reach the adapter leave a call in hand alone.
LocalStep ==
    \/ Agent!Surroundings \/ Agent!RunOnce \/ Agent!ContextRaises
    \/ Agent!MarkSubmitted \/ Agent!Finish
    \/ \E k \in Keys, context \in Contexts : Agent!Check(k, context)

LEMMA LocalStepPreserves ==
    ASSUME IInv, LocalStep, UNCHANGED adapterVars
    PROVE  IInv' /\ StoreGrows
  <1>1. AgentInv' /\ StoreGrows
    BY AgentStepGrows DEF IInv, LocalStep, Agent!Next, Agent!LocalStep
  <1>2. stage = "submit" => stage' = "submit" /\ current' = current
    BY DEF LocalStep, Agent!Surroundings, Agent!Approve, Agent!OperatorActivates, Agent!Reset,
           Agent!Evaluate, Agent!Activate, Agent!RunOnce, Agent!ContextRaises,
           Agent!MarkSubmitted, Agent!Finish, Agent!Check, Agent!runVars
  <1>3. AdapterInv'
    BY <1>1, <1>2, SameOrdersPreserve, AdapterParts, HeldDomain
    DEF IInv, Adapter!TypeOK, adapterVars
  <1>4. CachedClosureIsTrue'
    BY DEF IInv, CachedClosureIsTrue, adapterVars
  <1> QED
    BY <1>1, <1>3, <1>4 DEF IInv

\* A new order at the gateway, its answer in hand or lost.
LEMMA AcceptPreserves ==
    ASSUME IInv, AgentInv', StoreGrows, stage = "submit", Adapter!Existing(Asked) = 0,
           answer = NoOrder, NEW status \in OrderStatus, Adapter!Accept(Asked, status),
           index' = index, cached' = cached, seen' = seen,
           \/ answer' = NoOrder
           \/ answer' \in Adapter!Report(Len(held) + 1, Asked, status) /\ UNCHANGED agentVars
    PROVE  IInv'
  <1> DEFINE n == Len(held) + 1
  <1>1. /\ current \in Keys /\ current \in Agent!Known /\ Asked \in Requests
        /\ Asked.key = current /\ index[current] = 0
    BY AskedIsRequest DEF IInv, Adapter!Existing
  <1>2. /\ Adapter!TypeOK /\ HeldKnown /\ IndexNames /\ SeenInHand
        /\ Len(held) \in Nat /\ DOMAIN held = 1..Len(held)
    BY AdapterParts, HeldDomain DEF IInv
  <1>3. /\ held' \in Seq(Adapter!Order) /\ Len(held') = n /\ DOMAIN held' = 1..n
        /\ held'[n] = [id |-> n, request |-> Asked, status |-> status]
        /\ held'[n] \in Adapter!Order
        /\ \A id \in DOMAIN held : id \in DOMAIN held' /\ held'[id] = held[id]
    BY <1>1, <1>2, AcceptAppends
  <1>4. \/ answer' = NoOrder
        \/ /\ answer' \in Adapter!Order /\ answer'.id = n /\ answer'.request = Asked
           /\ answer'.status \in Adapter!Closed => answer'.status = status
           /\ UNCHANGED agentVars
    <2>1. n \in Nat \ {0} /\ status \in Adapter!Told
      BY <1>2 DEF Adapter!Told
    <2> HIDE DEF n
    <2>2. ASSUME answer' \in Adapter!Report(n, Asked, status)
          PROVE  /\ answer' \in Adapter!Order /\ answer'.id = n /\ answer'.request = Asked
                 /\ answer'.status \in Adapter!Closed => answer'.status = status
      BY <1>1, <2>1, <2>2, ReportIsTrue
    <2> QED
      BY <2>2 DEF n
  <1>5. Adapter!TypeOK'
    BY <1>2, <1>3, <1>4 DEF Adapter!TypeOK
  <1>6. HeldKnown'
    <2>1. ASSUME NEW id \in DOMAIN held'
          PROVE  held'[id].id = id /\ held'[id].request.key \in Agent!Known
      <3>1. CASE id = n
        BY <1>1, <1>3, <3>1
      <3>2. CASE id # n
        BY <1>2, <1>3, <2>1, <3>2 DEF HeldKnown
      <3> QED
        BY <3>1, <3>2
    <2> QED
      BY <2>1 DEF HeldKnown, StoreGrows
  <1>7. IndexNames'
    <2>1. ASSUME NEW k \in Keys, index[k] # 0 PROVE held'[index[k]].request.key = k
      BY <1>2, <1>3, <2>1 DEF IndexNames, Adapter!TypeOK
    <2> QED
      BY <2>1 DEF IndexNames
  <1>8. AnswerInHand' /\ SeenInHand'
    <2>1. AnswerInHand'
      <3>1. CASE answer' = NoOrder
        BY <3>1 DEF AnswerInHand
      <3>2. CASE answer' # NoOrder
        <4>1. stage' = stage /\ current' = current
          BY <1>4, <3>2 DEF agentVars
        <4>2. held'[n].request = Asked /\ held'[n].status = status /\ n \in DOMAIN held'
          BY <1>2, <1>3
        <4> HIDE DEF n
        <4> QED
          BY <1>1, <1>4, <3>2, <4>1, <4>2 DEF AnswerInHand, ToldTrue
      <3> QED
        BY <3>1, <3>2
    <2>2. SeenInHand'
      BY <1>2, <1>3 DEF SeenInHand, ToldTrue
    <2> QED
      BY <2>1, <2>2
  <1>9. CachedClosureIsTrue'
    BY <1>2, <1>3 DEF IInv, CachedClosureIsTrue, Adapter!TypeOK
  <1> QED
    BY <1>5, <1>6, <1>7, <1>8, <1>9 DEF IInv, AdapterInv, HeldKnown, IndexNames, AnswerInHand, SeenInHand

LEMMA CallGatewayPreserves ==
    ASSUME IInv, CallGateway
    PROVE  IInv' /\ StoreGrows
  <1>1. AgentInv' /\ StoreGrows
    BY AgentStepGrows DEF IInv, CallGateway, agentVars, Agent!agentVars
  <1> QED
    BY <1>1, AcceptPreserves DEF CallGateway, Adapter!GatewayAnswers

\* The order a known key stands for.
LEMMA ExistingIsHeld ==
    ASSUME IInv, stage = "submit", Adapter!Existing(Asked) # 0
    PROVE  /\ Adapter!Existing(Asked) = index[current]
           /\ index[current] \in DOMAIN held /\ held[index[current]] \in Adapter!Order
  BY AskedIsRequest, AdapterParts, HeldDomain DEF IInv, Adapter!Existing, Adapter!TypeOK

\* What the gateway says of one of its orders.
LEMMA ReportOfHeld ==
    ASSUME Adapter!TypeOK, NEW id \in DOMAIN held,
           NEW order \in Adapter!Report(id, held[id].request, held[id].status)
    PROVE  /\ order \in Adapter!Order /\ order.id = id /\ order.request = held[id].request
           /\ ToldTrue(order)
  <1>1. id \in Nat \ {0} /\ held[id].request \in Requests /\ held[id].status \in Adapter!Told
    BY HeldDomain DEF Adapter!Order
  <1> QED
    BY <1>1, ReportIsTrue DEF ToldTrue

LEMMA CallExistingPreserves ==
    ASSUME IInv, CallExisting
    PROVE  IInv' /\ StoreGrows
  <1> DEFINE id == index[current]
  <1>1. AgentInv' /\ StoreGrows
    BY AgentStepGrows DEF IInv, CallExisting, agentVars, Agent!agentVars
  <1>2. /\ stage = "submit" /\ Adapter!Existing(Asked) = id /\ id \in DOMAIN held
        /\ answer' \in Adapter!Report(id, held[id].request, held[id].status)
        /\ UNCHANGED <<agentVars, index, cached, seen, held>>
    BY ExistingIsHeld DEF CallExisting, Adapter!QueryExisting
  <1>3. /\ answer' \in Adapter!Order /\ answer'.id = id /\ answer'.request = held[id].request
        /\ ToldTrue(answer')
    BY <1>2, ReportOfHeld, AdapterParts DEF IInv
  <1>4. AdapterInv'
    BY <1>2, <1>3, AnswersPreserve DEF IInv
  <1> QED
    BY <1>1, <1>2, <1>4 DEF IInv, CachedClosureIsTrue

\* The answer is about an order of the gateway and is handed to the agent.
LEMMA ReturnAnswerPreserves ==
    ASSUME IInv, ReturnAnswer
    PROVE  IInv' /\ StoreGrows
  <1> DEFINE id == answer.id
  <1>1. /\ Adapter!TypeOK /\ HeldKnown /\ IndexNames /\ AnswerInHand /\ SeenInHand
        /\ held \in Seq(Adapter!Order) /\ Len(held) \in Nat /\ DOMAIN held = 1..Len(held)
    BY AdapterParts, HeldDomain DEF IInv
  <1>2. /\ answer # NoOrder /\ stage = "submit" /\ Agent!SubmitReturns(answer)
        /\ \/ index' = [index EXCEPT ![answer.request.key] = id]
           \/ index' = index
        /\ Adapter!Cache(id, answer.status) /\ answer' = NoOrder
        /\ seen' = seen /\ held' = held
    BY DEF ReturnAnswer, Adapter!RecordAnswer, Adapter!CacheExisting, Agent!SubmitReturns
  <1>3. /\ answer \in Adapter!Order /\ id \in DOMAIN held /\ ToldTrue(answer)
        /\ current \in Keys /\ answer.request.key = current /\ held[id].request.key = current
    BY <1>1, <1>2, AskedIsRequest DEF IInv, Adapter!TypeOK, AnswerInHand
  <1>4. AgentInv' /\ StoreGrows
    BY <1>2, <1>3, AgentStepGrows DEF IInv, Agent!Next, Agent!Submit
  <1>5. /\ CachedClosureIsTrue' /\ DOMAIN cached' \subseteq DOMAIN held
        /\ \A i \in DOMAIN cached' : cached'[i] \in Adapter!Told
    BY <1>1, <1>2, <1>3, CacheKeepsTruth DEF IInv
  <1>6. Adapter!TypeOK' /\ IndexNames'
    BY <1>1, <1>2, <1>3, <1>5 DEF Adapter!TypeOK, IndexNames
  <1>7. HeldKnown' /\ AnswerInHand' /\ SeenInHand'
    BY <1>1, <1>2, <1>4 DEF HeldKnown, AnswerInHand, SeenInHand, ToldTrue, StoreGrows
  <1> QED
    BY <1>4, <1>5, <1>6, <1>7
    DEF IInv, AdapterInv, HeldKnown, IndexNames, AnswerInHand, SeenInHand

LEMMA FailPreserves ==
    ASSUME IInv, Fail
    PROVE  IInv' /\ StoreGrows
  <1>1. AgentInv' /\ StoreGrows
    BY AgentStepGrows DEF IInv, Fail, Agent!Next, Agent!Submit
  <1>2. ASSUME NEW status \in OrderStatus,
               Adapter!GatewayRaises(Asked), Adapter!Accept(Asked, status)
        PROVE  IInv'
    BY <1>1, <1>2, AcceptPreserves DEF Fail, Adapter!GatewayRaises
  <1>3. CASE UNCHANGED <<index, cached, answer, seen, held>> /\ answer = NoOrder
    <2>1. AdapterInv'
      BY <1>1, <1>3, SameOrdersPreserve, AdapterParts, HeldDomain DEF IInv, Adapter!TypeOK
    <2> QED
      BY <1>1, <1>3, <2>1 DEF IInv, CachedClosureIsTrue
  <1> QED
    BY <1>1, <1>2, <1>3
    DEF Fail, Adapter!GatewayRaises, Adapter!QueryRaises, Adapter!allVars

LEMMA RestartPreserves ==
    ASSUME IInv, Restart
    PROVE  IInv' /\ StoreGrows
  <1>1. AgentInv' /\ StoreGrows
    BY AgentStepGrows DEF IInv, Restart, Agent!Next, Agent!LocalStep
  <1>2. answer' = NoOrder /\ UNCHANGED <<index, cached, seen, held>>
    BY DEF Restart, Adapter!LoseAnswer
  <1>3. AdapterInv'
    BY <1>1, <1>2, SameOrdersPreserve, AdapterParts, HeldDomain DEF IInv, Adapter!TypeOK
  <1> QED
    BY <1>1, <1>2, <1>3 DEF IInv, CachedClosureIsTrue

\* Exchange and operator.
OrderMoves ==
    \/ \E id \in DOMAIN held, status \in OrderStatus : Adapter!Trade(id, status)
    \/ \E id \in DOMAIN cached : Adapter!Cancelled(id) \/ Adapter!Queried(id)
    \/ Adapter!CacheSeen

\* An open order gets another status.
LEMMA RestatusPreserves ==
    ASSUME IInv, UNCHANGED <<agentVars, index, cached, answer, seen>>,
           NEW id \in DOMAIN held, NEW status \in OrderStatus,
           held[id].status \notin Adapter!Closed,
           held' = [held EXCEPT ![id].status = status]
    PROVE  IInv'
  <1>1. AgentInv' /\ StoreGrows /\ stage' = stage /\ current' = current
    BY AgentStepGrows DEF IInv, agentVars, Agent!agentVars
  <1>2. Adapter!TypeOK /\ status \in Adapter!Told
    BY AdapterParts DEF IInv, Adapter!Told
  <1>3. /\ held' \in Seq(Adapter!Order) /\ Len(held') = Len(held)
        /\ DOMAIN held' = DOMAIN held
        /\ \A i \in DOMAIN held : held'[i].id = held[i].id /\ held'[i].request = held[i].request
        /\ \A i \in DOMAIN held : i # id => held'[i] = held[i]
    BY <1>2, RestatusKeeps
  <1>4. AdapterInv'
    BY <1>1, <1>2, <1>3, SameOrdersPreserve DEF IInv, Adapter!TypeOK
  <1>5. CachedClosureIsTrue'
    BY <1>2, <1>3 DEF IInv, CachedClosureIsTrue, Adapter!TypeOK
  <1> QED
    BY <1>1, <1>4, <1>5 DEF IInv

LEMMA OrderMovesPreserve ==
    ASSUME IInv, UNCHANGED agentVars, OrderMoves
    PROVE  IInv' /\ StoreGrows
  <1>1. AgentInv' /\ StoreGrows /\ stage' = stage /\ current' = current
    BY AgentStepGrows DEF IInv, agentVars, Agent!agentVars
  <1>2. Adapter!TypeOK /\ DOMAIN cached \subseteq DOMAIN held /\ SeenInHand
    BY AdapterParts DEF IInv, Adapter!TypeOK
  <1>3. ASSUME NEW id \in DOMAIN held, NEW status \in OrderStatus,
               Adapter!Trade(id, status)
        PROVE  IInv'
    BY <1>3, RestatusPreserves DEF Adapter!Trade
  <1>4. ASSUME NEW id \in DOMAIN cached, Adapter!Queried(id)
        PROVE  IInv'
    <2>1. /\ id \in DOMAIN held /\ UNCHANGED <<index, cached, answer, held>>
          /\ seen' \in Adapter!Report(id, held[id].request, held[id].status)
      BY <1>2, <1>4 DEF Adapter!Queried
    <2>2. seen' \in Adapter!Order /\ seen'.id \in DOMAIN held /\ ToldTrue(seen')
      BY <1>2, <2>1, ReportOfHeld
    <2>3. AdapterInv'
      BY <2>1, <2>2, AnswersPreserve DEF IInv
    <2> QED
      BY <1>1, <2>1, <2>3 DEF IInv, CachedClosureIsTrue
  <1>5. ASSUME NEW id \in DOMAIN cached, Adapter!Cancelled(id)
        PROVE  IInv'
    <2> DEFINE status == IF held[id].status \in Adapter!Closed THEN held[id].status ELSE "CANCELLED"
               moved == [held EXCEPT ![id].status = status]
    <2>1. /\ id \in DOMAIN held /\ seen = NoOrder
          /\ held' = moved /\ seen' \in Adapter!Report(id, held[id].request, status)
          /\ UNCHANGED <<index, cached, answer>>
      BY <1>2, <1>5 DEF Adapter!Cancelled
    <2>2. /\ held[id] \in Adapter!Order /\ id \in Nat \ {0} /\ status \in OrderStatus
          /\ status \in Adapter!Told
      BY <1>2, <2>1, HeldDomain, TradingAssumption
      DEF TradingAssumption, Adapter!Order, Adapter!Told, Adapter!Closed
    <2> HIDE DEF status
    <2>3. /\ held' \in Seq(Adapter!Order) /\ Len(held') = Len(held)
          /\ DOMAIN held' = DOMAIN held /\ held'[id].status = status
          /\ \A i \in DOMAIN held : held'[i].id = held[i].id /\ held'[i].request = held[i].request
          /\ \A i \in DOMAIN held : i # id => held'[i] = held[i]
      BY <1>2, <2>1, <2>2, RestatusKeeps
    <2>4. \A i \in DOMAIN held : held[i].status \in Adapter!Closed
                                    => held'[i].status = held[i].status
      BY <2>3 DEF status
    <2>5. /\ seen' \in Adapter!Order /\ seen'.id = id
          /\ seen'.status \in Adapter!Closed => seen'.status = status
      BY <2>1, <2>2, ReportIsTrue DEF Adapter!Order
    <2>6. SeenInHand'
      BY <2>1, <2>3, <2>5 DEF SeenInHand, ToldTrue
    <2>7. /\ Adapter!TypeOK' /\ HeldKnown' /\ IndexNames' /\ AnswerInHand'
      <3>1. Adapter!TypeOK'
        BY <1>2, <2>1, <2>3, <2>5 DEF Adapter!TypeOK
      <3>2. HeldKnown'
        BY <1>1, <2>3, AdapterParts DEF IInv, HeldKnown, StoreGrows
      <3>3. IndexNames'
        BY <1>2, <2>1, <2>3, AdapterParts, HeldDomain DEF IInv, IndexNames, Adapter!TypeOK
      <3>4. AnswerInHand'
        BY <1>1, <2>1, <2>3, <2>4, AdapterParts DEF IInv, AnswerInHand, ToldTrue
      <3> QED
        BY <3>1, <3>2, <3>3, <3>4
    <2>8. AdapterInv'
      BY <2>6, <2>7 DEF AdapterInv, HeldKnown, IndexNames, AnswerInHand, SeenInHand
    <2>9. CachedClosureIsTrue'
      BY <1>2, <2>1, <2>4 DEF IInv, CachedClosureIsTrue
    <2> QED
      BY <1>1, <2>8, <2>9 DEF IInv
  <1>6. ASSUME Adapter!CacheSeen
        PROVE  IInv'
    <2>1. /\ seen \in Adapter!Order /\ seen.id \in DOMAIN held /\ ToldTrue(seen)
          /\ Adapter!Cache(seen.id, seen.status) /\ seen' = NoOrder
          /\ UNCHANGED <<index, answer, held>>
      BY <1>2, <1>6 DEF Adapter!CacheSeen, SeenInHand, Adapter!TypeOK
    <2>2. /\ CachedClosureIsTrue' /\ DOMAIN cached' \subseteq DOMAIN held
          /\ \A i \in DOMAIN cached' : cached'[i] \in Adapter!Told
      BY <1>2, <2>1, CacheKeepsTruth DEF IInv
    <2>3. AdapterInv'
      BY <1>1, <1>2, <2>1, <2>2, SameOrdersPreserve, HeldDomain DEF IInv
    <2> QED
      BY <1>1, <2>2, <2>3 DEF IInv
  <1> QED
    BY <1>1, <1>3, <1>4, <1>5, <1>6 DEF OrderMoves

LEMMA NextPreserves ==
    ASSUME IInv, [Next]_vars
    PROVE  IInv' /\ StoreGrows
  <1>1. CASE RunStep
    BY <1>1, LocalStepPreserves, CallGatewayPreserves, ReturnAnswerPreserves,
       CallExistingPreserves, FailPreserves
    DEF RunStep, LocalStep
  <1>2. CASE Restart
    BY <1>2, RestartPreserves
  <1>3. CASE Surroundings
    BY <1>3, LocalStepPreserves, OrderMovesPreserve DEF Surroundings, LocalStep, OrderMoves
  <1>4. CASE UNCHANGED vars
    <2>1. AgentInv' /\ StoreGrows
      BY <1>4, AgentStepGrows DEF IInv, vars, agentVars, Agent!agentVars
    <2>2. AdapterInv'
      BY <1>4, <2>1, SameOrdersPreserve, AdapterParts, HeldDomain
      DEF IInv, Adapter!TypeOK, vars, agentVars, adapterVars
    <2> QED
      BY <1>4, <2>1, <2>2 DEF IInv, CachedClosureIsTrue, vars, adapterVars
  <1> QED
    BY <1>1, <1>2, <1>3, <1>4 DEF Next

\* The invariant of agent, adapter and gateway, wherever the agent dies.
THEOREM Invariance == Spec => []IInv
  BY InitEstablishes, NextPreserves, PTL DEF Spec

\* Type correctness of agent and adapter.
THEOREM TypeCorrect == Spec => []TypeOK
  <1>1. IInv => TypeOK
    BY DEF IInv, AgentInv, AdapterInv, TypeOK
  <1> QED
    BY <1>1, Invariance, PTL

\* What the adapter remembers as closed is closed at the gateway in that way.
THEOREM ClosureIsTrue == Spec => []CachedClosureIsTrue
  BY Invariance, PTL DEF IInv

-----------------------------------------------------------------------------
(* The agent of the composition is the agent of ExecutionAgent. *)

\* Each step of the composition is a step of the agent against some broker, or
\* leaves the agent alone.
LEMMA StepIsAgentStep ==
    ASSUME IInv, [Next]_vars
    PROVE  [Agent!Next]_(Agent!agentVars)
  <1>1. CASE ReturnAnswer
    <2>1. answer \in Adapter!Order
      BY <1>1, AdapterParts
      DEF IInv, ReturnAnswer, Adapter!RecordAnswer, Adapter!CacheExisting, Adapter!TypeOK
    <2> QED
      BY <1>1, <2>1 DEF ReturnAnswer, Agent!Next, Agent!Submit
  <1>2. CASE CallGateway \/ CallExisting \/ Fail
    BY <1>2
    DEF CallGateway, CallExisting, Fail, Agent!Next, Agent!Submit, agentVars, Agent!agentVars
  <1>3. CASE RunStep /\ ~(CallGateway \/ CallExisting \/ ReturnAnswer \/ Fail)
    BY <1>3 DEF RunStep, Agent!Next, Agent!LocalStep
  <1>4. CASE Restart \/ Surroundings \/ UNCHANGED vars
    BY <1>4
    DEF Restart, Surroundings, Agent!Next, Agent!LocalStep, vars, agentVars, Agent!agentVars
  <1> QED
    BY <1>1, <1>2, <1>3, <1>4 DEF Next, RunStep

\* Whatever ExecutionAgent is shown to keep against any broker, it keeps with
\* this one: the adapter and its gateway are a broker in the agent's sense.
THEOREM ImplementsAgent == Spec => Agent!Spec
  <1>1. Init => Agent!Init
    BY DEF Init
  <1> QED
    BY <1>1, StepIsAgentStep, Invariance, PTL DEF Spec, Agent!Spec

-----------------------------------------------------------------------------
(* The agent does not die between the gateway's answer and the index. *)

\* At most one order for a key.
OncePerKey ==
    \A i, j \in DOMAIN held : held[i].request.key = held[j].request.key => i = j

OnceInv == LostOrderIsUnknown /\ OncePerKey

LEMMA LostByKey ==
    LostOrderIsUnknown <=>
        \A id \in DOMAIN held : \/ index[held[id].request.key] = id
                                \/ records[held[id].request.key].status = "UNKNOWN"
                                \/ answer # NoOrder /\ answer.id = id
  BY DEF LostOrderIsUnknown

\* The gateway's orders, their keys and what is said of them stay.
LEMMA SameOrdersKeepOnce ==
    ASSUME IInv, OnceInv, StoreGrows, index' = index,
           answer' = answer \/ answer = NoOrder \/ index[current] # 0,
           DOMAIN held' = DOMAIN held,
           \A i \in DOMAIN held : held'[i].request = held[i].request
    PROVE  OnceInv'
  <1>1. \A id \in DOMAIN held : held[id].request.key \in Keys
    BY AdapterParts DEF IInv, HeldKnown, Agent!Known
  <1>2. LostOrderIsUnknown'
    <2>1. ASSUME NEW id \in DOMAIN held
          PROVE  \/ index[held[id].request.key] = id
                 \/ records'[held[id].request.key].status = "UNKNOWN"
                 \/ answer' # NoOrder /\ answer'.id = id
      <3>1. answer # NoOrder /\ answer.id = id /\ index[current] # 0
                => index[held[id].request.key] = id
        BY AdapterParts DEF IInv, AnswerInHand
      <3> QED
        BY <1>1, <3>1, LostByKey DEF OnceInv, StoreGrows
    <2> QED
      BY <2>1 DEF LostOrderIsUnknown
  <1>3. OncePerKey'
    BY DEF OnceInv, OncePerKey
  <1> QED
    BY <1>2, <1>3 DEF OnceInv

\* An order of a key still approved is the index's or the answer in hand.
LEMMA NoneHeldForNewKey ==
    ASSUME IInv, OnceInv, stage = "submit", answer = NoOrder, index[current] = 0
    PROVE  \A id \in DOMAIN held : held[id].request.key # current
  <1>1. records[current].status = "APPROVED"
    BY AskedIsRequest DEF IInv
  <1>2. \A id \in DOMAIN held : id # 0
    BY AdapterParts, HeldDomain DEF IInv
  <1> QED
    BY <1>1, <1>2, LostByKey DEF OnceInv

LEMMA AcceptKeepsOnce ==
    ASSUME IInv, OnceInv, StoreGrows, stage = "submit", Adapter!Existing(Asked) = 0,
           answer = NoOrder, NEW status \in OrderStatus, Adapter!Accept(Asked, status),
           index' = index,
           \/ answer' # NoOrder /\ answer'.id = Len(held) + 1
           \/ records'[current].status = "UNKNOWN"
    PROVE  OnceInv'
  <1> DEFINE n == Len(held) + 1
  <1>1. /\ current \in Keys /\ Asked \in Requests /\ Asked.key = current /\ index[current] = 0
    BY AskedIsRequest DEF IInv, Adapter!Existing
  <1>2. /\ Adapter!TypeOK /\ HeldKnown /\ Len(held) \in Nat /\ DOMAIN held = 1..Len(held)
    BY AdapterParts, HeldDomain DEF IInv
  <1>3. /\ DOMAIN held' = 1..n /\ held'[n].request = Asked
        /\ \A id \in DOMAIN held : id \in DOMAIN held' /\ held'[id] = held[id]
    <2>1. /\ DOMAIN held' = 1..n
          /\ held'[n] = [id |-> n, request |-> Asked, status |-> status]
          /\ \A id \in DOMAIN held : id \in DOMAIN held' /\ held'[id] = held[id]
      BY <1>1, <1>2, AcceptAppends
    <2> QED
      BY <2>1
  <1>4. \A id \in DOMAIN held : held[id].request.key # current
    BY <1>1, NoneHeldForNewKey
  <1>5. LostOrderIsUnknown'
    <2>1. ASSUME NEW id \in DOMAIN held
          PROVE  \/ index[held'[id].request.key] = id
                 \/ records'[held'[id].request.key].status = "UNKNOWN"
      <3>1. held[id].request.key \in Keys
        BY <1>2 DEF HeldKnown, Agent!Known
      <3> QED
        BY <1>3, <3>1, LostByKey DEF OnceInv, StoreGrows
    <2>2. \A id \in DOMAIN held' : id # n => id \in DOMAIN held
      BY <1>2, <1>3
    <2> QED
      BY <1>1, <1>3, <2>1, <2>2 DEF LostOrderIsUnknown
  <1>6. OncePerKey'
    <2>1. \A id \in DOMAIN held' : id # n => id \in DOMAIN held
      BY <1>2, <1>3
    <2> QED
      BY <1>1, <1>3, <1>4, <2>1 DEF OnceInv, OncePerKey
  <1> QED
    BY <1>5, <1>6 DEF OnceInv

LEMMA ReturnAnswerKeepsOnce ==
    ASSUME IInv, OnceInv, StoreGrows, ReturnAnswer
    PROVE  OnceInv'
  <1>1. /\ answer # NoOrder /\ stage = "submit" /\ answer' = NoOrder /\ held' = held
        /\ \/ index' = [index EXCEPT ![answer.request.key] = answer.id]
           \/ index' = index /\ index[answer.request.key] # 0
    BY DEF ReturnAnswer, Adapter!RecordAnswer, Adapter!CacheExisting, Agent!SubmitReturns
  <1>2. /\ current \in Keys /\ answer.request.key = current /\ answer.id \in DOMAIN held
        /\ held[answer.id].request.key = current /\ index[current] \in {0, answer.id}
    BY <1>1, AskedIsRequest, AdapterParts DEF IInv, AnswerInHand
  <1>3. index'[current] = answer.id /\ \A k \in Keys : k # current => index'[k] = index[k]
    BY <1>1, <1>2, AdapterParts DEF IInv, Adapter!TypeOK
  <1>4. LostOrderIsUnknown'
    <2>1. ASSUME NEW id \in DOMAIN held
          PROVE  \/ index'[held[id].request.key] = id
                 \/ records'[held[id].request.key].status = "UNKNOWN"
      <3>1. held[id].request.key \in Keys
        BY AdapterParts DEF IInv, HeldKnown, Agent!Known
      <3>2. CASE held[id].request.key = current
        BY <1>2, <1>3, <3>2 DEF OnceInv, OncePerKey
      <3>3. CASE held[id].request.key # current
        BY <1>2, <1>3, <3>1, <3>3, LostByKey DEF OnceInv, StoreGrows
      <3> QED
        BY <3>2, <3>3
    <2> QED
      BY <1>1, <2>1 DEF LostOrderIsUnknown
  <1> QED
    BY <1>1, <1>4 DEF OnceInv, OncePerKey

\* Exchange and operator leave alone what the agent has in hand, and the orders' keys.
LEMMA OrderMovesKeepOrders ==
    ASSUME IInv, OrderMoves
    PROVE  /\ index' = index /\ answer' = answer /\ DOMAIN held' = DOMAIN held
           /\ \A i \in DOMAIN held : held'[i].request = held[i].request
  <1>1. index' = index /\ answer' = answer
    BY DEF OrderMoves, Adapter!Trade, Adapter!Cancelled, Adapter!Queried, Adapter!CacheSeen
  <1>2. \/ held' = held
        \/ \E id \in DOMAIN held : \E status : held' = [held EXCEPT ![id].status = status]
    BY AdapterParts
    DEF OrderMoves, Adapter!Trade, Adapter!Cancelled, Adapter!Queried, Adapter!CacheSeen, IInv,
        Adapter!TypeOK
  <1>3. \A id \in DOMAIN held : held[id] \in Adapter!Order
    BY AdapterParts, HeldDomain DEF IInv
  <1> QED
    BY <1>1, <1>2, <1>3 DEF Adapter!Order

LEMMA NextKeepsOnce ==
    ASSUME AbortInCall = FALSE, IInv, OnceInv, [Next]_vars
    PROVE  OnceInv'
  <1>1. StoreGrows
    BY NextPreserves
  <1>2. CASE CallGateway
    <2>1. PICK status \in OrderStatus : Adapter!GatewayAnswers(Asked, status)
      BY <1>2 DEF CallGateway
    <2>2. /\ stage = "submit" /\ Adapter!Existing(Asked) = 0 /\ answer = NoOrder
          /\ Adapter!Accept(Asked, status) /\ index' = index
          /\ answer' \in Adapter!Report(Len(held) + 1, Asked, status)
      BY <1>2, <2>1 DEF CallGateway, Adapter!GatewayAnswers
    <2>3. /\ Len(held) + 1 \in Nat \ {0} /\ Asked \in Requests /\ status \in Adapter!Told
      BY <2>2, AdapterParts, HeldDomain, AskedIsRequest DEF IInv, Adapter!Told
    <2>4. answer' \in Adapter!Order /\ answer'.id = Len(held) + 1
      <3> DEFINE n == Len(held) + 1
      <3>1. n \in Nat \ {0} /\ answer' \in Adapter!Report(n, Asked, status)
        BY <2>2, <2>3
      <3> HIDE DEF n
      <3>2. answer' \in Adapter!Order /\ answer'.id = n
        BY <2>3, <3>1, ReportIsTrue
      <3> QED
        BY <3>2 DEF n
    <2> QED
      BY <1>1, <2>2, <2>4, AcceptKeepsOnce, TradingAssumption
  <1>3. CASE ReturnAnswer
    BY <1>1, <1>3, ReturnAnswerKeepsOnce
  <1>4. CASE Fail
    <2>1. records'[current].status = "UNKNOWN"
      BY <1>4, SubmitRaisesGrows DEF Fail, IInv
    <2>2. ASSUME NEW status \in OrderStatus,
                 Adapter!GatewayRaises(Asked), Adapter!Accept(Asked, status)
          PROVE  OnceInv'
      BY <1>1, <1>4, <2>1, <2>2, AcceptKeepsOnce DEF Fail, Adapter!GatewayRaises
    <2>3. CASE UNCHANGED <<index, answer, held>>
      BY <1>1, <2>3, SameOrdersKeepOnce
    <2> QED
      BY <1>4, <2>2, <2>3
      DEF Fail, Adapter!GatewayRaises, Adapter!QueryRaises, Adapter!allVars
  <1>5. CASE OrderMoves
    BY <1>1, <1>5, OrderMovesKeepOrders, SameOrdersKeepOnce
  <1>6. CASE CallExisting \/ UNCHANGED adapterVars \/ Restart
    <2>1. index' = index /\ held' = held
      BY <1>6 DEF CallExisting, Adapter!QueryExisting, Restart, Adapter!LoseAnswer, adapterVars
    <2>2. answer' = answer \/ answer = NoOrder \/ index[current] # 0
      <3>1. CASE Restart /\ answer # NoOrder
        <4>1. index[answer.request.key] # 0
          BY <3>1 DEF Restart
        <4> QED
          BY <3>1, <4>1, AdapterParts DEF IInv, AnswerInHand
      <3> QED
        BY <1>6, <3>1 DEF CallExisting, Adapter!QueryExisting, adapterVars
    <2> QED
      BY <1>1, <2>1, <2>2, SameOrdersKeepOnce
  <1> QED
    BY <1>2, <1>3, <1>4, <1>5, <1>6 DEF Next, RunStep, Surroundings, OrderMoves, vars

LEMMA OnceInvariance ==
    ASSUME AbortInCall = FALSE
    PROVE  Spec => [](IInv /\ OnceInv)
  <1>1. Init => OnceInv
    BY DEF Init, Adapter!Init, OnceInv, LostOrderIsUnknown, OncePerKey
  <1> QED
    BY <1>1, InitEstablishes, NextPreserves, NextKeepsOnce, PTL DEF Spec

\* With an answer lost the outcome is UNKNOWN in the store and never guessed.
THEOREM LostIsUnknown ==
    ASSUME AbortInCall = FALSE
    PROVE  Spec => []LostOrderIsUnknown
  BY OnceInvariance, PTL DEF OnceInv

\* The gateway never gets a second order for a key.
THEOREM NoDuplicates ==
    ASSUME AbortInCall = FALSE
    PROVE  Spec => []NoDuplicateAtGateway
  <1>1. OnceInv => NoDuplicateAtGateway
    BY DEF OnceInv, OncePerKey, NoDuplicateAtGateway
  <1> QED
    BY <1>1, OnceInvariance, PTL

-----------------------------------------------------------------------------
(* The promise of OnceOnlyOrders. *)

Placed == [k \in Keys |-> Cardinality({id \in DOMAIN held : held[id].request.key = k})]

\* Counting the orders of a key that has one at most.
LEMMA CountOnce ==
    ASSUME NEW h, NEW k,
           \A i, j \in DOMAIN h : h[i].request.key = h[j].request.key => i = j
    PROVE  Cardinality({id \in DOMAIN h : h[id].request.key = k})
               = IF \E id \in DOMAIN h : h[id].request.key = k THEN 1 ELSE 0
  <1>1. CASE \E id \in DOMAIN h : h[id].request.key = k
    <2>1. PICK id \in DOMAIN h : h[id].request.key = k
      BY <1>1
    <2>2. {i \in DOMAIN h : h[i].request.key = k} = {id}
      BY <2>1
    <2> QED
      BY <1>1, <2>2, FS_Singleton
  <1>2. CASE ~\E id \in DOMAIN h : h[id].request.key = k
    <2>1. {i \in DOMAIN h : h[i].request.key = k} = {}
      BY <1>2
    <2> QED
      BY <1>2, <2>1, FS_EmptySet
  <1> QED
    BY <1>1, <1>2

\* What a step does to the orders: nothing but a change of status, or one order
\* more for an approved key that had none.
LEMMA OrderKinds ==
    ASSUME IInv, OnceInv, [Next]_vars
    PROVE  \/ /\ DOMAIN held' = DOMAIN held
              /\ \A id \in DOMAIN held : held'[id].request = held[id].request
           \/ /\ current \in Agent!Known /\ current \in Keys
              /\ Agent!Known' = Agent!Known
              /\ \A id \in DOMAIN held : held[id].request.key # current
              /\ \E n \in DOMAIN held' :
                    /\ DOMAIN held' = DOMAIN held \cup {n} /\ held'[n].request.key = current
                    /\ \A id \in DOMAIN held : held'[id] = held[id]
  <1>1. ASSUME stage = "submit", Adapter!Existing(Asked) = 0, answer = NoOrder,
               NEW status \in OrderStatus, Adapter!Accept(Asked, status),
               Agent!Known' = Agent!Known
        PROVE  /\ current \in Agent!Known /\ current \in Keys
               /\ \A id \in DOMAIN held : held[id].request.key # current
               /\ \E n \in DOMAIN held' :
                     /\ DOMAIN held' = DOMAIN held \cup {n} /\ held'[n].request.key = current
                     /\ \A id \in DOMAIN held : held'[id] = held[id]
    <2> DEFINE n == Len(held) + 1
    <2>1. /\ current \in Agent!Known /\ current \in Keys /\ Asked \in Requests
          /\ Asked.key = current /\ index[current] = 0
      BY <1>1, AskedIsRequest DEF IInv, Adapter!Existing
    <2>2. Adapter!TypeOK /\ Len(held) \in Nat /\ DOMAIN held = 1..Len(held)
      BY AdapterParts, HeldDomain DEF IInv
    <2>3. /\ DOMAIN held' = 1..n
          /\ held'[n] = [id |-> n, request |-> Asked, status |-> status]
          /\ \A id \in DOMAIN held : held'[id] = held[id]
      BY <1>1, <2>1, <2>2, AcceptAppends
    <2>4. \A id \in DOMAIN held : held[id].request.key # current
      BY <1>1, <2>1, NoneHeldForNewKey
    <2>5. /\ n \in DOMAIN held' /\ DOMAIN held' = DOMAIN held \cup {n}
          /\ held'[n].request.key = current
      BY <2>1, <2>2, <2>3
    <2> QED
      BY <1>1, <2>1, <2>3, <2>4, <2>5
  <1>2. CASE CallGateway
    BY <1>1, <1>2
    DEF CallGateway, Adapter!GatewayAnswers, agentVars, Agent!Known
  <1>3. CASE Fail
    <2>1. Agent!Known' = Agent!Known
      BY <1>3, SubmitRaisesGrows DEF Fail, IInv
    <2> QED
      BY <1>1, <1>3, <2>1
      DEF Fail, Adapter!GatewayRaises, Adapter!QueryRaises, Adapter!allVars
  <1>4. CASE OrderMoves
    BY <1>4, OrderMovesKeepOrders
  <1>5. CASE UNCHANGED adapterVars \/ ReturnAnswer \/ CallExisting \/ Restart
    BY <1>5
    DEF adapterVars, ReturnAnswer, Adapter!RecordAnswer, Adapter!CacheExisting, CallExisting,
        Adapter!QueryExisting, Restart, Adapter!LoseAnswer
  <1> QED
    BY <1>2, <1>3, <1>4, <1>5 DEF Next, RunStep, Surroundings, OrderMoves, vars

\* What a step of the agent does to the set of approved keys: nothing, or one
\* key is added.
LEMMA KnownKinds ==
    ASSUME AgentInv, [Agent!Next]_(Agent!agentVars)
    PROVE  \/ Agent!Known' = Agent!Known
           \/ \E k \in Keys : Agent!Known' = Agent!Known \cup {k}
  <1>1. CASE \E request \in Requests : Agent!Approve(request)
    BY <1>1, ApproveGrows, TradingAssumption
  <1>2. CASE \/ \E k \in Keys, context \in Contexts : Agent!Check(k, context)
             \/ Agent!SubmitRaises \/ Agent!MarkSubmitted
    BY <1>2, CheckGrows, SubmitRaisesGrows, MarkSubmittedGrows
  <1> QED
    BY <1>1, <1>2, QuietGrows
    DEF Agent!Next, Agent!Surroundings, Agent!LocalStep, Agent!Submit

LEMMA StepRefines ==
    ASSUME IInv, OnceInv, OnceInv', [Next]_vars
    PROVE  [Promise!Next]_(Promise!onceVars)
  <1>1. /\ \A k \in Keys : Placed[k] = IF \E id \in DOMAIN held : held[id].request.key = k
                                       THEN 1 ELSE 0
        /\ \A k \in Keys : Placed'[k] = IF \E id \in DOMAIN held' : held'[id].request.key = k
                                        THEN 1 ELSE 0
    BY CountOnce DEF OnceInv, OncePerKey, Placed
  <1>2. CASE /\ DOMAIN held' = DOMAIN held
             /\ \A id \in DOMAIN held : held'[id].request = held[id].request
    <2>1. \A k \in Keys : Placed'[k] = Placed[k]
      BY <1>1, <1>2
    <2>2. Placed' = Placed
      BY <2>1 DEF Placed
    <2> QED
      BY <2>2, KnownKinds, StepIsAgentStep
      DEF IInv, Promise!Next, Promise!Approve, Promise!onceVars, Placed, Agent!Known
  <1>3. CASE /\ current \in Agent!Known /\ current \in Keys
             /\ Agent!Known' = Agent!Known
             /\ \A id \in DOMAIN held : held[id].request.key # current
             /\ \E n \in DOMAIN held' :
                   /\ DOMAIN held' = DOMAIN held \cup {n} /\ held'[n].request.key = current
                   /\ \A id \in DOMAIN held : held'[id] = held[id]
    <2>1. PICK n \in DOMAIN held' :
                   /\ DOMAIN held' = DOMAIN held \cup {n} /\ held'[n].request.key = current
                   /\ \A id \in DOMAIN held : held'[id] = held[id]
      BY <1>3
    <2>2. Placed[current] = 0 /\ Placed'[current] = 1
      BY <1>1, <1>3, <2>1
    <2>3. \A k \in Keys : k # current => Placed'[k] = Placed[k]
      BY <1>1, <2>1
    <2>4. Placed' = [Placed EXCEPT ![current] = 1]
      BY <1>3, <2>2, <2>3 DEF Placed
    <2> QED
      BY <1>3, <2>2, <2>4 DEF Promise!Next, Promise!Place, Placed, Agent!Known
  <1> QED
    BY <1>2, <1>3, OrderKinds

\* Agent, adapter and gateway keep the promise of at most one order per intent.
THEOREM KeepsPromise ==
    ASSUME AbortInCall = FALSE
    PROVE  Spec => PlacedOnceOnly
  <1>1. Init => Promise!Init
    <2>1. SUFFICES ASSUME Init PROVE Promise!Init
      OBVIOUS
    <2>2. records = [k \in Keys |-> Agent!Absent] /\ held = <<>>
      BY <2>1 DEF Init, Agent!Init, Adapter!Init
    <2>3. {k \in Keys : records[k].status # "ABSENT"} = {}
      BY <2>2 DEF Agent!Absent
    <2>4. \A k \in Keys : {id \in DOMAIN held : held[id].request.key = k} = {}
      BY <2>2
    <2> QED
      BY <2>3, <2>4, FS_EmptySet DEF Promise!Init
  <1> QED
    BY <1>1, StepRefines, OnceInvariance, PTL DEF Spec, PlacedOnceOnly, Promise!Spec
=============================================================================
