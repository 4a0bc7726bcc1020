--------------------------- MODULE ExecutionAgent ---------------------------
(***************************************************************************)
(* The execution loop: ExecutionAgent.run_once (execution/agent.py) over   *)
(* ExecutionOrderStore (execution/order_manager/store.py), stopped by      *)
(* KillSwitch (execution/kill_switch/service.py), which                    *)
(* IntradayRiskMonitor (portfolio/risk/intraday.py) or an operator trips.  *)
(*                                                                         *)
(* run_once is split where it calls out: it reads the pending records,     *)
(* asks for a risk context, calls the broker, and writes the outcome.  The *)
(* operator, the monitor and the approver act between these steps.  The    *)
(* broker is whatever module supplies the reply to SubmitReturns.          *)
(***************************************************************************)
EXTENDS PreTradeRisk, FiniteSets

CONSTANTS
    Keys,           \* idempotency keys
    Requests,       \* broker order requests: [key, symbol, side, quantity]
    Contexts,       \* pre-trade contexts the provider may return
    BrokerOrders,   \* what submit_order may return
    NoKey, NoRequest, NoOrder,
    MaxRestarts     \* bound: runs cut short by the death of the agent

ASSUME RequestsAssumption ==
    /\ \A request \in Requests : request.key \in Keys
    /\ IsFiniteSet(Keys) /\ NoKey \notin Keys
    /\ NoRequest \notin Requests
    /\ NoOrder \notin BrokerOrders
    /\ MaxRestarts \in Nat

VARIABLES
    records,        \* _records; status "ABSENT" where the dict has no entry
    killReasons,    \* the reasons of the active kill switch; {} when inactive
    stage,          \* where run_once stands
    todo,           \* keys of the pending() snapshot not yet dealt with
    current,        \* the key being dealt with
    reply,          \* what submit_order returned, until it is written down
    calls,          \* history: broker.submit_order calls per key
    restarts        \* history: aborted runs

storeVars == <<records>>
runVars == <<stage, todo, current, reply>>
historyVars == <<calls, restarts>>
agentVars == <<records, killReasons, stage, todo, current, reply, calls, restarts>>

Absent == [status |-> "ABSENT", request |-> NoRequest, order |-> NoOrder, position |-> 0]

Known == {k \in Keys : records[k].status # "ABSENT"}
Pending == {k \in Keys : records[k].status = "APPROVED"}
Settled == {"SUBMITTED", "FAILED", "UNKNOWN"}

Record == [status   : {"ABSENT", "APPROVED"} \cup Settled,
           request  : Requests \cup {NoRequest},
           order    : BrokerOrders \cup {NoOrder},
           position : Nat]

TypeOK ==
    /\ records \in [Keys -> Record]
    /\ killReasons \subseteq {"OPERATOR", "BROKER_HEARTBEAT_STALE", "INTRADAY_DRAWDOWN",
                              "UNKNOWN_ORDER_STATE"}
    /\ stage \in {"idle", "check", "submit", "mark"}
    /\ todo \subseteq Keys
    /\ current \in Keys \cup {NoKey}
    /\ reply \in BrokerOrders \cup {NoOrder}
    /\ calls \in [Keys -> Nat]
    /\ restarts \in 0..MaxRestarts

Init ==
    /\ records = [k \in Keys |-> Absent]
    /\ killReasons = {}
    /\ stage = "idle"
    /\ todo = {}
    /\ current = NoKey
    /\ reply = NoOrder
    /\ calls = [k \in Keys |-> 0]
    /\ restarts = 0

-----------------------------------------------------------------------------
(* The store. *)

\* Mutant: approving again overwrites the record.
ApproveOverwrites(request) ==
    /\ records' = [records EXCEPT ![request.key] =
                      [status |-> "APPROVED", request |-> request, order |-> NoOrder,
                       position |-> Cardinality(Known) + 1]]
    /\ UNCHANGED <<killReasons, runVars, historyVars>>

\* A new request is approved.  For a known key approve() changes nothing: it
\* returns the record for the same request and raises for a different one.
Approve(request) ==
    /\ records[request.key].status = "ABSENT"
    /\ records' = [records EXCEPT ![request.key] =
                      [status |-> "APPROVED", request |-> request, order |-> NoOrder,
                       position |-> Cardinality(Known) + 1]]
    /\ UNCHANGED <<killReasons, runVars, historyVars>>

MarkAs(k, status) == records' = [records EXCEPT ![k].status = status]

-----------------------------------------------------------------------------
(* The kill switch and the monitor. *)

\* The first activation keeps its reasons.
Activate(reasons) ==
    /\ killReasons = {}
    /\ killReasons' = reasons
    /\ UNCHANGED <<storeVars, runVars, historyVars>>

OperatorActivates == Activate({"OPERATOR"})

\* reset(manual_confirmation=True); without the confirmation it raises.
Reset ==
    /\ killReasons # {}
    /\ killReasons' = {}
    /\ UNCHANGED <<storeVars, runVars, historyVars>>

UnresolvedCount == Cardinality({k \in Keys : records[k].status = "UNKNOWN"})

\* Mutant: unresolved orders are not counted.
EvaluateIgnoringUnknown(stale, drawdown) ==
    LET reasons == (IF stale THEN {"BROKER_HEARTBEAT_STALE"} ELSE {})
                   \cup (IF drawdown THEN {"INTRADAY_DRAWDOWN"} ELSE {})
    IN  reasons # {} /\ Activate(reasons)

\* IntradayRiskMonitor.evaluate, told the agent's unresolved count.
Evaluate(stale, drawdown) ==
    LET reasons == (IF stale THEN {"BROKER_HEARTBEAT_STALE"} ELSE {})
                   \cup (IF drawdown THEN {"INTRADAY_DRAWDOWN"} ELSE {})
                   \cup (IF UnresolvedCount > 0 THEN {"UNKNOWN_ORDER_STATE"} ELSE {})
    IN  reasons # {} /\ Activate(reasons)

-----------------------------------------------------------------------------
(* One run of the agent. *)

\* Mutants: the kill switch is not consulted; all records are taken up.
RunOnceUnguarded ==
    /\ stage = "idle"
    /\ stage' = "check"
    /\ todo' = Pending
    /\ UNCHANGED <<storeVars, killReasons, current, reply, historyVars>>
RunOnceUnfiltered ==
    /\ stage = "idle"
    /\ killReasons = {}
    /\ stage' = "check"
    /\ todo' = Known
    /\ UNCHANGED <<storeVars, killReasons, current, reply, historyVars>>

\* require_inactive(), then the snapshot of the pending records.
RunOnce ==
    /\ stage = "idle"
    /\ killReasons = {}
    /\ stage' = "check"
    /\ todo' = Pending
    /\ UNCHANGED <<storeVars, killReasons, current, reply, historyVars>>

\* The snapshot is worked through in the order of approval.
IsFirst(k) == k \in todo /\ \A j \in todo : records[k].position <= records[j].position

\* Mutant: a refused order is skipped and stays approved.
CheckSkips(k, context) ==
    /\ stage = "check"
    /\ IsFirst(k)
    /\ IF RejectReasons(records[k].request, context) = {}
       THEN /\ stage' = "submit"
            /\ current' = k
            /\ UNCHANGED <<storeVars, todo>>
       ELSE /\ todo' = todo \ {k}
            /\ UNCHANGED <<storeVars, stage, current>>
    /\ UNCHANGED <<killReasons, reply, historyVars>>

\* The context is obtained and the request checked; a refused one is marked failed.
Check(k, context) ==
    /\ stage = "check"
    /\ IsFirst(k)
    /\ IF RejectReasons(records[k].request, context) = {}
       THEN /\ stage' = "submit"
            /\ current' = k
            /\ UNCHANGED <<storeVars, todo>>
       ELSE /\ MarkAs(k, "FAILED")
            /\ todo' = todo \ {k}
            /\ UNCHANGED <<stage, current>>
    /\ UNCHANGED <<killReasons, reply, historyVars>>

Idle ==
    /\ stage' = "idle"
    /\ todo' = {}
    /\ current' = NoKey
    /\ reply' = NoOrder

\* The context provider raises: the exception leaves run_once.
ContextRaises ==
    /\ stage = "check"
    /\ todo # {}
    /\ Idle
    /\ UNCHANGED <<storeVars, killReasons, historyVars>>

\* broker.submit_order returns order.
SubmitReturns(order) ==
    /\ stage = "submit"
    /\ stage' = "mark"
    /\ reply' = order
    /\ calls' = [calls EXCEPT ![current] = @ + 1]
    /\ UNCHANGED <<storeVars, killReasons, todo, current, restarts>>

\* Mutant: a failed call leaves the order approved, to be retried.
SubmitRaisesRetry ==
    /\ stage = "submit"
    /\ calls' = [calls EXCEPT ![current] = @ + 1]
    /\ stage' = "check"
    /\ todo' = todo \ {current}
    /\ current' = NoKey
    /\ UNCHANGED <<storeVars, killReasons, reply, restarts>>

\* Mutant: a call that raised is taken for a failure.
SubmitRaisesAsFailed ==
    /\ stage = "submit"
    /\ calls' = [calls EXCEPT ![current] = @ + 1]
    /\ MarkAs(current, "FAILED")
    /\ stage' = "check"
    /\ todo' = todo \ {current}
    /\ current' = NoKey
    /\ UNCHANGED <<killReasons, reply, restarts>>

\* broker.submit_order raises: the outcome is unknown.
SubmitRaises ==
    /\ stage = "submit"
    /\ calls' = [calls EXCEPT ![current] = @ + 1]
    /\ MarkAs(current, "UNKNOWN")
    /\ stage' = "check"
    /\ todo' = todo \ {current}
    /\ current' = NoKey
    /\ UNCHANGED <<killReasons, reply, restarts>>

\* Mutant: an order the broker refused is marked failed.
MarkSubmittedUnlessRejected ==
    /\ stage = "mark"
    /\ records' = [records EXCEPT ![current].status = IF reply.status = "REJECTED"
                                                     THEN "FAILED" ELSE "SUBMITTED",
                                  ![current].order = reply]
    /\ stage' = "check"
    /\ todo' = todo \ {current}
    /\ current' = NoKey
    /\ reply' = NoOrder
    /\ UNCHANGED <<killReasons, historyVars>>

\* mark_submitted keeps the broker's answer, whatever its status.
MarkSubmitted ==
    /\ stage = "mark"
    /\ records' = [records EXCEPT ![current].status = "SUBMITTED", ![current].order = reply]
    /\ stage' = "check"
    /\ todo' = todo \ {current}
    /\ current' = NoKey
    /\ reply' = NoOrder
    /\ UNCHANGED <<killReasons, historyVars>>

Finish ==
    /\ stage = "check"
    /\ todo = {}
    /\ Idle
    /\ UNCHANGED <<storeVars, killReasons, historyVars>>

\* The agent dies in the middle of a run (nothing catches a BaseException) and
\* is rebuilt over the same store and broker state.
Abort ==
    /\ stage # "idle"
    /\ restarts < MaxRestarts
    /\ restarts' = restarts + 1
    /\ Idle
    /\ UNCHANGED <<storeVars, killReasons, calls>>

-----------------------------------------------------------------------------

Surroundings ==
    \/ \E request \in Requests : Approve(request)
    \/ OperatorActivates
    \/ Reset
    \/ \E stale, drawdown \in BOOLEAN : Evaluate(stale, drawdown)

\* The steps of run_once that do not reach the broker.
LocalStep ==
    \/ RunOnce
    \/ \E k \in Keys, context \in Contexts : Check(k, context)
    \/ ContextRaises
    \/ MarkSubmitted
    \/ Finish
    \/ Abort

\* Against a broker that may return any order or raise.
Submit == SubmitRaises \/ \E order \in BrokerOrders : SubmitReturns(order)

Next == Surroundings \/ LocalStep \/ Submit

Spec == Init /\ [][Next]_agentVars

\* The caller keeps calling run_once and the monitor, calls to the broker come
\* to an end, and a context that is asked for again and again is had in the end.
Fairness ==
    /\ WF_agentVars(RunOnce)
    /\ SF_agentVars(\E k \in Keys, context \in Contexts : Check(k, context))
    /\ WF_agentVars(Submit)
    /\ WF_agentVars(MarkSubmitted)
    /\ WF_agentVars(Finish)
    /\ WF_agentVars(Evaluate(FALSE, FALSE))

FairSpec == Spec /\ Fairness

-----------------------------------------------------------------------------

\* An order reaches the broker once, and once more at most for each time the
\* agent died: no return, exception or re-approval makes a run call it again.
CallsBoundedByRestarts == \A k \in Keys : calls[k] <= 1 + restarts

\* adr-0001-runtime-boundaries.md:16, "an UNKNOWN order must not be submitted
\* again": a record that left APPROVED is never rewritten nor sent again.
SettledIsFinal ==
    [][\A k \in Keys : records[k].status \in Settled =>
          records'[k] = records[k] /\ calls'[k] = calls[k]]_agentVars

\* What was approved is what the key stands for until the end: a second request
\* under the same idempotency key never takes the place of the first.
ApprovedTermsKept ==
    [][\A k \in Known : records'[k].request = records[k].request]_agentVars

\* With the kill switch off for good, every approved order is dealt with.
ApprovedIsResolved ==
    (<>[](killReasons = {})) =>
        \A k \in Keys : records[k].status = "APPROVED" ~> records[k].status # "APPROVED"

\* With the kill switch on for good, the agent comes to rest.
KillBringsRest == (<>[](killReasons # {})) => <>[](stage = "idle")

\* trading-sop.md:18, an order in the unknown state trips the kill switch.
UnknownTripsKillSwitch ==
    \A k \in Keys : records[k].status = "UNKNOWN" ~> killReasons # {}
=============================================================================
