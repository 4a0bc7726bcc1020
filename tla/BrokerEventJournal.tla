------------------------- MODULE BrokerEventJournal -------------------------
(***************************************************************************)
(* BrokerEventJournal (execution/order_manager/events.py): the journal     *)
(* that turns the broker's asynchronous callbacks into one status per      *)
(* order.  The channel between the broker and record() may delay, reorder  *)
(* and duplicate callbacks; it never alters one.                           *)
(***************************************************************************)
EXTENDS Integers, Sequences

CONSTANTS
    Orders,         \* broker order ids
    Reports,        \* Reports[s]: what the broker may report after reporting s
    MaxCallbacks    \* bound: callbacks the broker sends in one behaviour

Statuses == {"SUBMITTED", "UNKNOWN", "PARTIALLY_FILLED", "FILLED", "CANCELLED", "REJECTED"}

NoStatus == "NONE"      \* statuses.get(...) of an order never heard of

ASSUME ReportsAssumption ==
    /\ Reports \in [Statuses \cup {NoStatus} -> SUBSET Statuses]
    /\ MaxCallbacks \in Nat

Terminal == {"FILLED", "CANCELLED", "REJECTED"}

Rank(s) == CASE s = NoStatus           -> -1
             [] s = "SUBMITTED"        -> 0
             [] s = "UNKNOWN"          -> 1
             [] s = "PARTIALLY_FILLED" -> 2
             [] OTHER                  -> 3

\* domain/orders.py, restricted to the statuses a broker callback can carry: no
\* callback says SUBMITTING or CANCEL_PENDING.  The detour through the latter
\* takes PARTIALLY_FILLED to itself.
OrderTransitions ==
    [s \in Statuses \cup {NoStatus} |->
        CASE s = NoStatus           -> {"SUBMITTED", "REJECTED", "UNKNOWN"}
          [] s = "SUBMITTED"        -> {"PARTIALLY_FILLED", "FILLED", "CANCELLED",
                                        "REJECTED", "UNKNOWN"}
          [] s = "PARTIALLY_FILLED" -> {"PARTIALLY_FILLED", "FILLED", "CANCELLED", "UNKNOWN"}
          [] s = "UNKNOWN"          -> Statuses \ {"UNKNOWN"}
          [] OTHER                  -> {}]

VARIABLES
    eventIds,   \* _event_ids
    callbacks,  \* _callbacks
    statuses,   \* _statuses, NoStatus where the dict has no entry
    reported,   \* the broker's latest report on each order
    sent        \* callbacks the broker has sent, by event id

vars == <<eventIds, callbacks, statuses, reported, sent>>

Callback == [order : Orders, status : Statuses]

TypeOK ==
    /\ eventIds \subseteq DOMAIN sent
    /\ callbacks \in Seq(1..MaxCallbacks)
    /\ Len(callbacks) <= MaxCallbacks
    /\ statuses \in [Orders -> Statuses \cup {NoStatus}]
    /\ reported \in [Orders -> Statuses \cup {NoStatus}]
    /\ sent \in Seq(Callback)
    /\ Len(sent) <= MaxCallbacks

Init ==
    /\ eventIds = {}
    /\ callbacks = <<>>
    /\ statuses = [o \in Orders |-> NoStatus]
    /\ reported = [o \in Orders |-> NoStatus]
    /\ sent = <<>>

\* The broker reports a new status; the callback's event id is its place in sent.
Report(o, s) ==
    /\ Len(sent) < MaxCallbacks
    /\ s \in Reports[reported[o]]
    /\ reported' = [reported EXCEPT ![o] = s]
    /\ sent' = Append(sent, [order |-> o, status |-> s])
    /\ UNCHANGED <<eventIds, callbacks, statuses>>

\* Mutants of Supersedes: without the ranks, and a status that is set once only.
SupersedesAnyOpen(new, current) == current \notin Terminal
SupersedesNothing(new, current) == current = NoStatus

\* record() lets the new status replace the current one.
Supersedes(new, current) ==
    current \notin Terminal /\ Rank(new) >= Rank(current)

\* A callback reaches record() for the first time.  A further delivery of the
\* same event id returns False with nothing changed.
Record(id) ==
    LET cb == sent[id] IN
    /\ id \notin eventIds
    /\ eventIds' = eventIds \cup {id}
    /\ callbacks' = Append(callbacks, id)
    /\ statuses' = IF Supersedes(cb.status, statuses[cb.order])
                   THEN [statuses EXCEPT ![cb.order] = cb.status]
                   ELSE statuses
    /\ UNCHANGED <<reported, sent>>

Deliver == \E id \in DOMAIN sent : Record(id)

Next ==
    \/ \E o \in Orders, s \in Statuses : Report(o, s)
    \/ Deliver

Spec == Init /\ [][Next]_vars

\* The channel loses nothing for ever: each callback is delivered in the end.
FairSpec == Spec /\ \A id \in 1..MaxCallbacks : WF_vars(id \in DOMAIN sent /\ Record(id))

-----------------------------------------------------------------------------

ArchivedOf(o) == {id \in eventIds : sent[id].order = o}

\* events.py:38, "archives every unique callback": however often and in
\* whatever order callbacks arrive, the archive holds each recorded event once.
ArchivedOnce ==
    /\ {callbacks[i] : i \in DOMAIN callbacks} = eventIds
    /\ \A i, j \in DOMAIN callbacks : callbacks[i] = callbacks[j] => i = j

\* The order in which callbacks arrive does not matter to how far an order has
\* come: its status is one of those reported, of the highest rank among them.
StatusIsHighestRecorded ==
    \A o \in Orders :
        /\ \A id \in ArchivedOf(o) : Rank(sent[id].status) <= Rank(statuses[o])
        /\ statuses[o] = NoStatus \/ \E id \in ArchivedOf(o) : sent[id].status = statuses[o]

\* events.py:38, "preventing state regression from reordering": no callback
\* moves an order back, and none moves an order out of a terminal status.
NoRegression ==
    [][\A o \in Orders :
          /\ Rank(statuses[o]) <= Rank(statuses'[o])
          /\ statuses[o] \in Terminal => statuses'[o] = statuses[o]]_vars

\* An order the broker has closed is, once the channel has delivered, closed
\* in the journal with the same outcome, whatever arrives afterwards.
ClosedIsLearned ==
    \A o \in Orders : reported[o] \in Terminal ~> [](statuses[o] = reported[o])
=============================================================================
