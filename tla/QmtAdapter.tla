----------------------------- MODULE QmtAdapter -----------------------------
(***************************************************************************)
(* QmtBrokerAdapter over QmtAdapterState (execution/qmt/adapter.py), and   *)
(* the QMT gateway behind it.  The gateway is not in the repository: it is *)
(* a protocol whose methods may also raise, whether or not the broker did  *)
(* what was asked, and whose orders move on their own.                     *)
(*                                                                         *)
(* Each method that writes the state is split at the gateway's answer: the *)
(* exchange, and the other caller, act between the answer and its writing. *)
(* Callers are the agent and an operator, with a call each at a time.      *)
(***************************************************************************)
EXTENDS Integers, Sequences

CONSTANTS
    Keys,
    Requests,   \* broker order requests, each with a key of Keys
    NoOrder,
    OrderStatus \* of BrokerOrderStatus, what an order may be at the gateway

VARIABLES
    index,      \* idempotency_index: order id by key, 0 where there is none
    cached,     \* the state's orders: the status last written, by order id
    answer,     \* what the gateway returned to the agent's call, not yet written
    seen,       \* what it returned to the operator's query or cancel, not yet written
    held        \* the gateway's orders, by id

allVars == <<index, cached, answer, seen, held>>

\* An order is open or closed; an answer may also say that its status is unknown.
Closed == OrderStatus \ {"SUBMITTED", "PARTIALLY_FILLED"}
Told == OrderStatus \cup {"UNKNOWN"}
Order == [id : Nat \ {0}, request : Requests, status : Told]

TypeOK ==
    /\ held \in Seq(Order)
    /\ index \in [Keys -> 0..Len(held)]
    /\ DOMAIN cached \subseteq DOMAIN held
    /\ \A id \in DOMAIN cached : cached[id] \in Told
    /\ answer \in Order \cup {NoOrder}
    /\ seen \in Order \cup {NoOrder}

Init ==
    /\ index = [k \in Keys |-> 0]
    /\ cached = <<>>
    /\ answer = NoOrder
    /\ seen = NoOrder
    /\ held = <<>>

Cache(id, status) ==
    cached' = [i \in DOMAIN cached \cup {id} |-> IF i = id THEN status ELSE cached[i]]

-----------------------------------------------------------------------------
(* The gateway. *)

\* It takes an order, which may be filled or refused when the answer comes back.
Accept(request, status) ==
    held' = Append(held, [id |-> Len(held) + 1, request |-> request, status |-> status])

\* What it says of an order: its status, or that it cannot tell.
Report(id, request, status) ==
    {[id |-> id, request |-> request, status |-> told] : told \in {status, "UNKNOWN"}}

\* The exchange fills an open order in part or whole, cancels or rejects it.
Trade(id, status) ==
    /\ held[id].status \notin Closed
    /\ status \notin {"SUBMITTED", held[id].status}
    /\ held' = [held EXCEPT ![id].status = status]
    /\ UNCHANGED <<index, cached, answer, seen>>

-----------------------------------------------------------------------------
(* submit_order, called by the agent. *)

\* Mutant: the index is not consulted.
ExistingNever(request) == 0

Existing(request) == index[request.key]

\* A new key: the gateway takes the order and its answer comes back.
GatewayAnswers(request, status) ==
    /\ answer = NoOrder
    /\ Existing(request) = 0
    /\ Accept(request, status)
    /\ answer' \in Report(Len(held) + 1, request, status)
    /\ UNCHANGED <<index, cached, seen>>

\* A new key: the call raises, with the order taken or not.
GatewayRaises(request) ==
    /\ answer = NoOrder
    /\ Existing(request) = 0
    /\ \/ \E status \in OrderStatus : Accept(request, status)
       \/ UNCHANGED held
    /\ UNCHANGED <<index, cached, answer, seen>>

\* The answer is indexed and cached; submit_order then returns it.
RecordAnswer ==
    /\ answer # NoOrder
    /\ index[answer.request.key] = 0
    /\ index' = [index EXCEPT ![answer.request.key] = answer.id]
    /\ Cache(answer.id, answer.status)
    /\ answer' = NoOrder
    /\ UNCHANGED <<seen, held>>

\* A known key: submit_order queries the order already there.
QueryExisting(request) ==
    LET id == Existing(request) IN
    /\ answer = NoOrder
    /\ id # 0
    /\ answer' \in Report(id, held[id].request, held[id].status)
    /\ UNCHANGED <<index, cached, seen, held>>

\* The query raises instead.
QueryRaises(request) ==
    /\ answer = NoOrder
    /\ Existing(request) # 0
    /\ UNCHANGED allVars

\* The answer about a known key is cached; submit_order then returns it.
CacheExisting ==
    /\ answer # NoOrder
    /\ index[answer.request.key] # 0
    /\ Cache(answer.id, answer.status)
    /\ answer' = NoOrder
    /\ UNCHANGED <<index, seen, held>>

\* The call ends with the process, between the gateway's answer and its writing.
LoseAnswer ==
    /\ answer' = NoOrder
    /\ UNCHANGED <<index, cached, seen, held>>

-----------------------------------------------------------------------------
(* query_order and cancel_order, called by an operator. *)

\* The gateway answers a query.
Queried(id) ==
    /\ seen = NoOrder
    /\ seen' \in Report(id, held[id].request, held[id].status)
    /\ UNCHANGED <<index, cached, answer, held>>

\* Mutant: the cancellation is cached before the gateway is asked.
CancelledUnasked(id) ==
    /\ Cache(id, "CANCELLED")
    /\ UNCHANGED <<index, answer, seen, held>>

\* The gateway cancels the order if it is still open, and answers.  One that does
\* not cancel it at once answers like a query.
Cancelled(id) ==
    LET status == IF held[id].status \in Closed THEN held[id].status ELSE "CANCELLED" IN
    /\ seen = NoOrder
    /\ held' = [held EXCEPT ![id].status = status]
    /\ seen' \in Report(id, held[id].request, status)
    /\ UNCHANGED <<index, cached, answer>>

\* The answer is cached and returned to the operator.
CacheSeen ==
    /\ seen # NoOrder
    /\ Cache(seen.id, seen.status)
    /\ seen' = NoOrder
    /\ UNCHANGED <<index, answer, held>>
=============================================================================
