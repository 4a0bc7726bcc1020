------------------------ MODULE ExecutionAgentProofs ------------------------
(***************************************************************************)
(* Safety of the execution loop for any set of keys and requests, any risk *)
(* limits and contexts, and a broker that answers anything or raises.      *)
(***************************************************************************)
EXTENDS ExecutionAgent, FiniteSetTheorems, TLAPS

\* The run works on records that are still approved: the snapshot is not stale.
SnapshotIsPending ==
    /\ todo \subseteq Pending
    /\ stage \in {"submit", "mark"} => current \in todo
    /\ stage = "idle" => todo = {}

\* A call that is not yet written down is owed to the run in hand or to a restart.
InHand(k) == IF stage = "mark" /\ current = k THEN 1 ELSE 0
CallsAccounted ==
    \A k \in Keys :
        /\ records[k].status = "ABSENT" => calls[k] = 0
        /\ records[k].status = "APPROVED" => calls[k] <= restarts + InHand(k)

IInv == TypeOK /\ SnapshotIsPending /\ CallsAccounted /\ CallsBoundedByRestarts

LEMMA InitEstablishes == Init => IInv
  BY RequestsAssumption
  DEF Init, IInv, TypeOK, Record, Absent, SnapshotIsPending, CallsAccounted, InHand,
      CallsBoundedByRestarts, Settled

\* The number of known records is a number.
LEMMA KnownIsFinite == Cardinality(Known) \in Nat
  BY RequestsAssumption, FS_Subset, FS_CardinalityType DEF Known

LEMMA ApprovePreserves ==
    ASSUME IInv, NEW request \in Requests, Approve(request)
    PROVE  IInv'
  <1>1. request.key \in Keys /\ records[request.key].status = "ABSENT"
    BY RequestsAssumption DEF Approve
  <1>2. TypeOK'
    BY <1>1, KnownIsFinite
    DEF IInv, TypeOK, Record, Approve, runVars, historyVars
  <1>3. SnapshotIsPending'
    BY <1>1 DEF IInv, TypeOK, SnapshotIsPending, Pending, Approve, runVars, historyVars
  <1>4. CallsAccounted' /\ CallsBoundedByRestarts'
    BY <1>1
    DEF IInv, TypeOK, CallsAccounted, InHand, CallsBoundedByRestarts, Approve, runVars, historyVars
  <1> QED
    BY <1>2, <1>3, <1>4 DEF IInv

\* The kill switch is read by RunOnce alone.
LEMMA KillSwitchPreserves ==
    ASSUME IInv,
           \/ OperatorActivates
           \/ Reset
           \/ \E stale, drawdown \in BOOLEAN : Evaluate(stale, drawdown)
    PROVE  IInv'
  BY DEF IInv, TypeOK, SnapshotIsPending, Pending, CallsAccounted, InHand, CallsBoundedByRestarts,
         OperatorActivates, Reset, Evaluate, Activate, storeVars, runVars, historyVars

LEMMA RunOncePreserves ==
    ASSUME IInv, RunOnce
    PROVE  IInv'
  BY DEF IInv, TypeOK, SnapshotIsPending, Pending, CallsAccounted, InHand, CallsBoundedByRestarts,
         RunOnce, storeVars, historyVars

LEMMA CheckPreserves ==
    ASSUME IInv, NEW k \in Keys, NEW context \in Contexts, Check(k, context)
    PROVE  IInv'
  <1>1. k \in todo /\ stage = "check"
    BY DEF Check, IsFirst
  <1>2. CASE RejectReasons(records[k].request, context) = {}
    BY <1>1, <1>2
    DEF IInv, TypeOK, SnapshotIsPending, Pending, CallsAccounted, InHand, CallsBoundedByRestarts,
        Check, storeVars, historyVars
  <1>3. CASE RejectReasons(records[k].request, context) # {}
    <2>1. records' = [records EXCEPT ![k].status = "FAILED"]
      BY <1>3 DEF Check, MarkAs
    <2>2. TypeOK'
      BY <1>1, <1>3, <2>1 DEF IInv, TypeOK, Record, Settled, Check, historyVars
    <2>3. SnapshotIsPending' /\ CallsAccounted' /\ CallsBoundedByRestarts'
      BY <1>1, <1>3, <2>1
      DEF IInv, TypeOK, Record, SnapshotIsPending, Pending, CallsAccounted, InHand,
          CallsBoundedByRestarts, Check, historyVars
    <2> QED
      BY <2>2, <2>3 DEF IInv
  <1> QED
    BY <1>2, <1>3

\* Leaving a run forgets where it stood, and nothing else.
LEMMA LeavingPreserves ==
    ASSUME IInv, ContextRaises \/ Finish \/ Abort
    PROVE  IInv'
  <1>1. /\ Idle /\ records' = records /\ killReasons' = killReasons /\ calls' = calls
        /\ \/ restarts' = restarts /\ stage # "mark"
           \/ restarts' = restarts + 1 /\ restarts < MaxRestarts
    BY DEF ContextRaises, Finish, Abort, storeVars, historyVars
  <1>2. TypeOK'
    BY <1>1, RequestsAssumption DEF IInv, TypeOK, Idle
  <1>3. SnapshotIsPending' /\ CallsAccounted' /\ CallsBoundedByRestarts'
    BY <1>1, RequestsAssumption
    DEF IInv, TypeOK, Idle, SnapshotIsPending, CallsAccounted, InHand, CallsBoundedByRestarts
  <1> QED
    BY <1>2, <1>3 DEF IInv

LEMMA SubmitReturnsPreserves ==
    ASSUME IInv, NEW order \in BrokerOrders, SubmitReturns(order)
    PROVE  IInv'
  <1>1. /\ stage = "submit" /\ current \in todo /\ current \in Keys
        /\ records[current].status = "APPROVED"
        /\ calls' = [calls EXCEPT ![current] = calls[current] + 1]
        /\ records' = records /\ restarts' = restarts
    BY DEF IInv, TypeOK, SnapshotIsPending, Pending, SubmitReturns, storeVars
  <1>2. TypeOK' /\ SnapshotIsPending'
    BY <1>1 DEF IInv, TypeOK, SnapshotIsPending, Pending, SubmitReturns
  <1>3. CallsAccounted' /\ CallsBoundedByRestarts'
    BY <1>1 DEF IInv, TypeOK, CallsAccounted, InHand, CallsBoundedByRestarts, SubmitReturns
  <1> QED
    BY <1>2, <1>3 DEF IInv

LEMMA SubmitRaisesPreserves ==
    ASSUME IInv, SubmitRaises
    PROVE  IInv'
  <1>1. /\ stage = "submit" /\ current \in todo /\ current \in Keys
        /\ records[current].status = "APPROVED"
        /\ calls' = [calls EXCEPT ![current] = calls[current] + 1]
        /\ records' = [records EXCEPT ![current].status = "UNKNOWN"]
        /\ restarts' = restarts
    BY DEF IInv, TypeOK, SnapshotIsPending, Pending, SubmitRaises, MarkAs
  <1>2. TypeOK'
    BY <1>1 DEF IInv, TypeOK, Record, Settled, SubmitRaises
  <1>3. SnapshotIsPending' /\ CallsAccounted' /\ CallsBoundedByRestarts'
    BY <1>1
    DEF IInv, TypeOK, Record, SnapshotIsPending, Pending, CallsAccounted, InHand,
        CallsBoundedByRestarts, SubmitRaises
  <1> QED
    BY <1>2, <1>3 DEF IInv

LEMMA MarkSubmittedPreserves ==
    ASSUME IInv, MarkSubmitted
    PROVE  IInv'
  <1>1. /\ stage = "mark" /\ current \in todo /\ current \in Keys
        /\ records' = [records EXCEPT ![current].status = "SUBMITTED", ![current].order = reply]
        /\ calls' = calls /\ restarts' = restarts
    BY DEF IInv, TypeOK, SnapshotIsPending, MarkSubmitted, historyVars
  <1>2. TypeOK'
    <2>1. records[current] \in Record /\ reply \in BrokerOrders \cup {NoOrder}
      BY <1>1 DEF IInv, TypeOK
    <2>2. [[records[current] EXCEPT !.status = "SUBMITTED"] EXCEPT !.order = reply] \in Record
      BY <2>1 DEF Record, Settled
    <2>3. records' \in [Keys -> Record]
      BY <1>1, <2>2 DEF IInv, TypeOK
    <2> QED
      BY <1>1, <2>3 DEF IInv, TypeOK, MarkSubmitted
  <1>3. SnapshotIsPending' /\ CallsAccounted' /\ CallsBoundedByRestarts'
    BY <1>1
    DEF IInv, TypeOK, Record, SnapshotIsPending, Pending, CallsAccounted, InHand,
        CallsBoundedByRestarts, MarkSubmitted
  <1> QED
    BY <1>2, <1>3 DEF IInv

\* The loop's invariant.
THEOREM Invariance == Spec => []IInv
  <1>1. IInv /\ [Next]_agentVars => IInv'
    <2>1. SUFFICES ASSUME IInv, [Next]_agentVars PROVE IInv'
      OBVIOUS
    <2>2. CASE Surroundings
      BY <2>1, <2>2, ApprovePreserves, KillSwitchPreserves DEF Surroundings
    <2>3. CASE LocalStep
      BY <2>1, <2>3, RunOncePreserves, CheckPreserves, LeavingPreserves, MarkSubmittedPreserves
      DEF LocalStep
    <2>4. CASE Submit
      BY <2>1, <2>4, SubmitReturnsPreserves, SubmitRaisesPreserves DEF Submit
    <2>5. CASE UNCHANGED agentVars
      BY <2>1, <2>5
      DEF IInv, TypeOK, SnapshotIsPending, Pending, CallsAccounted, InHand, CallsBoundedByRestarts,
          agentVars
    <2> QED
      BY <2>1, <2>2, <2>3, <2>4, <2>5 DEF Next
  <1> QED
    BY InitEstablishes, <1>1, PTL DEF Spec

\* Type correctness of the agent's state.
THEOREM TypeCorrect == Spec => []TypeOK
  BY Invariance, PTL DEF IInv

\* An order is sent once, plus at most once per restart.
THEOREM CallsBounded == Spec => []CallsBoundedByRestarts
  BY Invariance, PTL DEF IInv

\* A record that left APPROVED, UNKNOWN ones included, is never sent or rewritten.
THEOREM SettledForGood == Spec => SettledIsFinal
  <1> DEFINE Final == \A k \in Keys : records[k].status \in Settled =>
                          records'[k] = records[k] /\ calls'[k] = calls[k]
  <1>1. IInv /\ [Next]_agentVars => [Final]_agentVars
    <2>1. SUFFICES ASSUME IInv, Next, NEW k \in Keys, records[k].status \in Settled
                   PROVE  records'[k] = records[k] /\ calls'[k] = calls[k]
      OBVIOUS
    <2>2. k \notin todo
      BY <2>1 DEF IInv, SnapshotIsPending, Pending, Settled
    <2>3. CASE Surroundings
      BY <2>1, <2>3
      DEF Surroundings, Approve, OperatorActivates, Reset, Evaluate, Activate, IInv, TypeOK,
          Settled, storeVars, historyVars
    <2>4. CASE LocalStep
      BY <2>1, <2>2, <2>4
      DEF LocalStep, RunOnce, Check, IsFirst, MarkAs, ContextRaises, MarkSubmitted, Finish, Abort,
          IInv, TypeOK, SnapshotIsPending, storeVars, historyVars
    <2>5. CASE Submit
      BY <2>1, <2>2, <2>5
      DEF Submit, SubmitReturns, SubmitRaises, MarkAs, IInv, TypeOK, SnapshotIsPending, storeVars
    <2> QED
      BY <2>1, <2>3, <2>4, <2>5 DEF Next
  <1> QED
    BY Invariance, <1>1, PTL DEF Spec, SettledIsFinal

\* The terms under a key are those first approved.
THEOREM TermsKept == Spec => ApprovedTermsKept
  <1> DEFINE Kept == \A k \in Known : records'[k].request = records[k].request
  <1>1. IInv /\ [Next]_agentVars => [Kept]_agentVars
    <2>1. SUFFICES ASSUME IInv, Next, NEW k \in Known
                   PROVE  records'[k].request = records[k].request
      OBVIOUS
    <2>2. k \in Keys /\ records[k].status # "ABSENT"
      BY DEF Known
    <2>3. CASE Surroundings
      BY <2>1, <2>2, <2>3
      DEF Surroundings, Approve, OperatorActivates, Reset, Evaluate, Activate, IInv, TypeOK,
          storeVars
    <2>4. CASE LocalStep
      BY <2>1, <2>2, <2>4
      DEF LocalStep, RunOnce, Check, IsFirst, MarkAs, ContextRaises, MarkSubmitted, Finish, Abort,
          IInv, TypeOK, Record, storeVars
    <2>5. CASE Submit
      BY <2>1, <2>2, <2>5
      DEF Submit, SubmitReturns, SubmitRaises, MarkAs, IInv, TypeOK, Record, storeVars
    <2> QED
      BY <2>1, <2>3, <2>4, <2>5 DEF Next
  <1> QED
    BY Invariance, <1>1, PTL DEF Spec, ApprovedTermsKept
=============================================================================
