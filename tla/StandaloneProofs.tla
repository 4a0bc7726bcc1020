-------------------------- MODULE StandaloneProofs --------------------------
(***************************************************************************)
(* The components of Standalone for any values of their constants, one     *)
(* after the other: each theorem is about the component's own Spec, which  *)
(* Standalone implements whoever's steps it takes.                         *)
(***************************************************************************)
EXTENDS Standalone, SumsProofs, SequenceTheorems

\* A behaviour of Standalone is one of every component, most of them at rest.
THEOREM EachAlone ==
    StandaloneSpec => /\ Spec /\ Test!Spec /\ Desk!Spec /\ Reb!Spec
                      /\ Pit!Spec /\ Gov!Spec /\ Set!Spec
  <1>1. StandaloneInit => /\ Init /\ Test!Init /\ Desk!Init /\ Reb!Init
                          /\ Pit!Init /\ Gov!Init /\ Set!Init
    BY DEF StandaloneInit
  <1>2. [StandaloneNext]_allVars =>
            /\ [Next]_vars /\ [Test!Next]_backtestVars
            /\ [Desk!Next]_deskVars /\ [Reb!Next]_rebalanceVars
            /\ [Pit!Next]_pointInTimeVars /\ [Gov!Next]_governanceVars
            /\ [Set!Next]_settingsVars
    BY DEF StandaloneNext, allVars, backtestVars, deskVars, rebalanceVars, pointInTimeVars,
           governanceVars, settingsVars
  <1>3. [StandaloneNext]_allVars =>
            /\ [Next]_vars /\ [Test!Next]_Test!vars /\ [Desk!Next]_Desk!vars /\ [Reb!Next]_Reb!vars
            /\ [Pit!Next]_Pit!vars /\ [Gov!Next]_Gov!vars /\ [Set!Next]_Set!vars
    BY <1>2 DEF backtestVars, deskVars, rebalanceVars, pointInTimeVars, governanceVars,
           settingsVars, Test!vars, Desk!vars, Reb!vars, Pit!vars, Gov!vars, Set!vars
  <1> QED
    BY <1>1, <1>3, PTL DEF StandaloneSpec, Spec, Test!Spec, Desk!Spec, Reb!Spec, Pit!Spec,
                           Gov!Spec, Set!Spec

-----------------------------------------------------------------------------
(* The journal: the archive and the statuses are inductive with the types.  *)

JournalTyped ==
    /\ eventIds \subseteq DOMAIN sent
    /\ callbacks \in Seq(1..MaxCallbacks)
    /\ statuses \in [Orders -> Statuses \cup {NoStatus}]
    /\ reported \in [Orders -> Statuses \cup {NoStatus}]
    /\ sent \in Seq(Callback)
    /\ Len(sent) <= MaxCallbacks

JournalInv == JournalTyped /\ ArchivedOnce /\ StatusIsHighestRecorded

\* Statuses are ranked -1 to 3, and only the terminal ones have rank 3.
LEMMA RankRange ==
    /\ \A s \in Statuses \cup {NoStatus} : Rank(s) \in -1..3
    /\ \A s \in Statuses : Rank(s) >= 0
    /\ \A s \in Terminal : Rank(s) = 3
    /\ Rank(NoStatus) = -1
    /\ NoStatus \notin Terminal
  BY DEF Rank, Statuses, NoStatus, Terminal

\* An archive without repetition is no longer than the number of events.
LEMMA ArchiveBound ==
    ASSUME JournalTyped, ArchivedOnce
    PROVE  Len(callbacks) <= MaxCallbacks
  <1>0. /\ Len(callbacks) \in Nat
        /\ DOMAIN callbacks = 1..Len(callbacks)
        /\ callbacks \in [1..Len(callbacks) -> 1..MaxCallbacks]
    BY LenProperties DEF JournalTyped
  <1>1. SUFFICES ASSUME Len(callbacks) > MaxCallbacks PROVE FALSE
    BY <1>0, ReportsAssumption
  <1>2. /\ IsFiniteSet(1..MaxCallbacks)
        /\ Cardinality(1..MaxCallbacks) = MaxCallbacks
    BY FS_Interval, ReportsAssumption
  <1>3. /\ IsFiniteSet(1..Len(callbacks))
        /\ Cardinality(1..Len(callbacks)) = Len(callbacks)
        /\ Cardinality(1..MaxCallbacks) < Cardinality(1..Len(callbacks))
    BY <1>0, <1>1, <1>2, FS_Interval, ReportsAssumption
  <1>5. \E i, j \in 1..Len(callbacks) : i # j /\ callbacks[i] = callbacks[j]
    BY <1>0, <1>2, <1>3, FS_PigeonHole
  <1> QED
    BY <1>0, <1>5 DEF ArchivedOnce

LEMMA JournalInit == Init => JournalInv
  BY ReportsAssumption, RankRange
  DEF Init, JournalInv, JournalTyped, ArchivedOnce, StatusIsHighestRecorded, ArchivedOf

\* The broker's report touches neither the journal nor what it has recorded.
LEMMA ReportPreserves ==
    ASSUME JournalInv, NEW o \in Orders, NEW s \in Statuses, Report(o, s)
    PROVE  JournalInv'
  <1>1. /\ sent' \in Seq(Callback)
        /\ Len(sent') <= MaxCallbacks
        /\ DOMAIN sent \subseteq DOMAIN sent'
        /\ \A id \in DOMAIN sent : sent'[id] = sent[id]
    BY ReportsAssumption DEF JournalInv, JournalTyped, Report, Callback
  <1>2. JournalTyped'
    BY <1>1 DEF JournalInv, JournalTyped, Report
  <1>3. ArchivedOnce'
    BY DEF JournalInv, ArchivedOnce, Report
  <1>4. StatusIsHighestRecorded'
    BY <1>1 DEF JournalInv, JournalTyped, StatusIsHighestRecorded, ArchivedOf, Report
  <1> QED
    BY <1>2, <1>3, <1>4 DEF JournalInv

\* record() archives the event once and keeps the highest rank.
LEMMA RecordPreserves ==
    ASSUME JournalInv, NEW id \in DOMAIN sent, Record(id)
    PROVE  JournalInv'
  <1> DEFINE cb == sent[id]
  <1>0. cb \in Callback /\ id \in 1..MaxCallbacks
    BY LenProperties, ElementOfSeq, ReportsAssumption DEF JournalInv, JournalTyped
  <1>1. /\ cb.order \in Orders /\ cb.status \in Statuses
        /\ id \in 1..MaxCallbacks
        /\ sent' = sent /\ reported' = reported
        /\ eventIds' = eventIds \cup {id}
        /\ id \notin eventIds
    BY <1>0 DEF Record, Callback
  <1>1a. callbacks \in Seq(1..MaxCallbacks) /\ callbacks' = Append(callbacks, id)
    BY DEF JournalInv, JournalTyped, Record
  <1>2. /\ callbacks' \in Seq(1..MaxCallbacks)
        /\ DOMAIN callbacks' = 1..(Len(callbacks) + 1)
        /\ DOMAIN callbacks = 1..Len(callbacks)
        /\ Len(callbacks) \in Nat
        /\ callbacks'[Len(callbacks) + 1] = id
        /\ \A i \in DOMAIN callbacks : callbacks'[i] = callbacks[i]
    BY <1>1a, <1>1, LenProperties, AppendProperties
  <1>3. JournalTyped'
    BY <1>1, <1>2 DEF JournalInv, JournalTyped, Record
  <1>4. ArchivedOnce'
    <2>1. \A i \in DOMAIN callbacks : callbacks[i] \in eventIds /\ callbacks[i] # id
      BY <1>1 DEF JournalInv, ArchivedOnce
    <2>2. \A i, j \in DOMAIN callbacks' : callbacks'[i] = callbacks'[j] => i = j
      BY <1>2, <2>1 DEF JournalInv, ArchivedOnce
    <2>3. {callbacks'[i] : i \in DOMAIN callbacks'} = eventIds'
      <3>1. \A i \in DOMAIN callbacks' : callbacks'[i] \in eventIds'
        BY <1>1, <1>2, <2>1
      <3>2. \A e \in eventIds : \E i \in DOMAIN callbacks' : callbacks'[i] = e
        BY <1>2 DEF JournalInv, ArchivedOnce
      <3>3. \E i \in DOMAIN callbacks' : callbacks'[i] = id
        BY <1>2
      <3> QED
        BY <1>1, <3>1, <3>2, <3>3
    <2> QED
      BY <2>2, <2>3 DEF ArchivedOnce
  <1>5. StatusIsHighestRecorded'
    <2>1. SUFFICES ASSUME NEW o \in Orders
                   PROVE  /\ \A e \in ArchivedOf(o)' : Rank(sent[e].status) <= Rank(statuses'[o])
                          /\ \/ statuses'[o] = NoStatus
                             \/ \E e \in ArchivedOf(o)' : sent[e].status = statuses'[o]
      BY <1>1 DEF StatusIsHighestRecorded
    <2>2. ArchivedOf(o)' = IF o = cb.order THEN ArchivedOf(o) \cup {id} ELSE ArchivedOf(o)
      BY <1>1 DEF ArchivedOf
    <2>3. /\ \A e \in ArchivedOf(o) : Rank(sent[e].status) <= Rank(statuses[o])
          /\ statuses[o] = NoStatus \/ \E e \in ArchivedOf(o) : sent[e].status = statuses[o]
      BY DEF JournalInv, StatusIsHighestRecorded
    <2>4. CASE o # cb.order \/ ~Supersedes(cb.status, statuses[cb.order])
      <3>1. statuses'[o] = statuses[o]
        BY <1>1, <2>4 DEF JournalInv, JournalTyped, Record
      <3>2. o = cb.order => Rank(cb.status) <= Rank(statuses[o])
        BY <1>1, <2>4, RankRange DEF JournalInv, JournalTyped, Supersedes
      <3>3. o = cb.order => statuses[o] # NoStatus
        BY <1>1, <2>4, RankRange DEF Supersedes
      <3> QED
        BY <2>2, <2>3, <3>1, <3>2, <3>3
    <2>5. CASE o = cb.order /\ Supersedes(cb.status, statuses[cb.order])
      <3>1. statuses'[o] = cb.status
        BY <1>1, <2>5 DEF JournalInv, JournalTyped, Record
      <3>2. Rank(statuses[o]) <= Rank(cb.status)
        BY <2>5 DEF Supersedes
      <3>3. \A e \in ArchivedOf(o) : Rank(sent[e].status) \in -1..3
        <4>1. \A e \in DOMAIN sent : sent[e] \in Callback
          BY LenProperties, ElementOfSeq DEF JournalInv, JournalTyped
        <4> QED
          BY <4>1, RankRange DEF JournalInv, JournalTyped, ArchivedOf, Callback
      <3>4. Rank(statuses[o]) \in -1..3 /\ Rank(cb.status) \in -1..3
        BY <1>1, RankRange DEF JournalInv, JournalTyped
      <3>5. \A e \in ArchivedOf(o) \cup {id} : Rank(sent[e].status) <= Rank(cb.status)
        BY <2>3, <3>2, <3>3, <3>4
      <3>6. id \in ArchivedOf(o)' /\ sent[id].status = statuses'[o]
        BY <2>2, <2>5, <3>1
      <3> QED
        BY <2>2, <2>5, <3>1, <3>5, <3>6
    <2> QED
      BY <2>4, <2>5
  <1> QED
    BY <1>3, <1>4, <1>5 DEF JournalInv

\* The journal's invariant holds for every broker and every delivery order.
THEOREM JournalInvariance == Spec => []JournalInv
  <1>1. JournalInv /\ [Next]_vars => JournalInv'
    <2>1. SUFFICES ASSUME JournalInv, [Next]_vars PROVE JournalInv'
      OBVIOUS
    <2>2. CASE \E o \in Orders, s \in Statuses : Report(o, s)
      BY <2>1, <2>2, ReportPreserves
    <2>3. CASE Deliver
      BY <2>1, <2>3, RecordPreserves DEF Deliver
    <2>4. CASE UNCHANGED vars
      BY <2>1, <2>4
      DEF JournalInv, JournalTyped, ArchivedOnce, StatusIsHighestRecorded, ArchivedOf, vars
    <2> QED
      BY <2>1, <2>2, <2>3, <2>4 DEF Next
  <1> QED
    BY JournalInit, <1>1, PTL DEF Spec

\* Type correctness, with the bound on the archive.
THEOREM JournalTypeCorrect == Spec => []TypeOK
  <1>1. JournalInv => TypeOK
    BY ArchiveBound DEF JournalInv, JournalTyped, TypeOK
  <1> QED
    BY <1>1, JournalInvariance, PTL

\* The archive holds every recorded callback exactly once.
THEOREM ArchiveCorrect == Spec => []ArchivedOnce
  BY JournalInvariance, PTL DEF JournalInv

\* An order's status does not depend on the order of delivery: it is the
\* highest-ranked status recorded.
THEOREM StatusCorrect == Spec => []StatusIsHighestRecorded
  BY JournalInvariance, PTL DEF JournalInv

\* No step moves an order back or out of a terminal status.
THEOREM RegressionFree == Spec => NoRegression
  <1> DEFINE Forward == \A o \in Orders :
                            /\ Rank(statuses[o]) <= Rank(statuses'[o])
                            /\ statuses[o] \in Terminal => statuses'[o] = statuses[o]
  <1>1. JournalInv /\ [Next]_vars => [Forward]_vars
    <2>1. SUFFICES ASSUME JournalInv, Next PROVE Forward
      OBVIOUS
    <2>2. \A o \in Orders : Rank(statuses[o]) \in -1..3
      BY <2>1, RankRange DEF JournalInv, JournalTyped
    <2>3. CASE statuses' = statuses
      BY <2>2, <2>3
    <2>4. ASSUME NEW id \in DOMAIN sent, Record(id), statuses' # statuses PROVE Forward
      <3> DEFINE cb == sent[id]
      <3>1. /\ cb.order \in Orders
            /\ Supersedes(cb.status, statuses[cb.order])
            /\ statuses' = [statuses EXCEPT ![cb.order] = cb.status]
        BY <2>1, <2>4 DEF JournalInv, JournalTyped, Record, Callback
      <3> QED
        BY <2>1, <2>2, <3>1 DEF JournalInv, JournalTyped, Supersedes
    <2> QED
      BY <2>1, <2>3, <2>4 DEF Next, Report, Deliver
  <1> QED
    BY JournalInvariance, <1>1, PTL DEF Spec, NoRegression

-----------------------------------------------------------------------------
(* Rebalancing: however often a target is planned, a symbol has one order   *)
(* on the way to it, and a stale snapshot shows a position between where it *)
(* started and where it is, which turns no delta round.                     *)

Holdings(h) == DOMAIN h \subseteq Tradable /\ \A s \in Tradable : Reb!At(h, s) \in Int

RebalanceTyped ==
    /\ DOMAIN target.weights \subseteq Tradable
    /\ \A s \in DOMAIN target.weights : target.weights[s] \in Nat
    /\ quotes \in [Tradable -> Nat]
    /\ Holdings(broker.positions) /\ Holdings(local.positions) /\ Holdings(start)
    /\ unlearned \in [Tradable -> Int]
    /\ \A o \in planned : o.symbol \in Tradable

\* Nothing has been ordered for the target yet, or its key was used up before.
Untouched(s) ==
    /\ Reb!At(broker.positions, s) = Reb!At(start, s)
    /\ Reb!At(local.positions, s) = Reb!At(start, s)
    /\ \A o \in planned : o.symbol = s => ~o.open

\* The one order on the way from the start to the target.
OnTheWay(o, s) ==
    /\ o.symbol = s /\ o.day = day /\ o.target = Reb!TargetQuantity(s)
    /\ Reb!TargetQuantity(s) # Reb!At(start, s)
    /\ o.side = IF Reb!TargetQuantity(s) > Reb!At(start, s) THEN "BUY" ELSE "SELL"
    /\ o.quantity = IF Reb!TargetQuantity(s) > Reb!At(start, s)
                    THEN Reb!TargetQuantity(s) - Reb!At(start, s)
                    ELSE Reb!At(start, s) - Reb!TargetQuantity(s)
    /\ o.filled \in 0..o.quantity
    /\ Reb!At(broker.positions, s) = Reb!At(start, s) + Reb!Signed(o, o.filled)
    /\ Reb!Between(Reb!At(local.positions, s), Reb!At(start, s), Reb!At(broker.positions, s))
    /\ \A q \in planned : q.symbol = s /\ q.open => q = o

OneWay == \A s \in Tradable : Untouched(s) \/ \E o \in planned : OnTheWay(o, s)

UnlearnedIsTheGap ==
    \A s \in Tradable : unlearned[s] = Reb!At(broker.positions, s) - Reb!At(local.positions, s)

RebalanceInv == RebalanceTyped /\ OneWay /\ UnlearnedIsTheGap

-----------------------------------------------------------------------------

LEMMA TargetIsInteger ==
    ASSUME RebalanceTyped, NEW s \in Tradable
    PROVE  Reb!TargetQuantity(s) \in Int
  <1>1. CASE quotes[s] = 0
    BY <1>1 DEF Reb!TargetQuantity
  <1>2. CASE quotes[s] # 0
    <2> DEFINE value == Equity * Reb!At(target.weights, s)
               lot == FullWeight * quotes[s] * LotSize
    <2>1. /\ Equity \in Nat \ {0} /\ Reb!At(target.weights, s) \in Nat
          /\ FullWeight \in Nat \ {0} /\ quotes[s] \in Nat \ {0} /\ LotSize \in Nat \ {0}
      BY StandaloneAssumption, <1>2 DEF Reb!RebalanceAssumption, RebalanceTyped, Reb!At
    <2>2. \A m, n \in Nat : m * n \in Nat
      OBVIOUS
    <2>3. \A m, n \in Nat \ {0} : m * n \in Nat \ {0}
      OBVIOUS
    <2>4. value \in Nat /\ lot \in Nat \ {0}
      BY <2>1, <2>2, <2>3
    <2>5. \A v \in Nat, l \in Nat \ {0} : v \div l \in Int
      OBVIOUS
    <2>6. value \div lot \in Int
      BY <2>4, <2>5
    <2>7. \A q, l \in Int : q * l \in Int
      OBVIOUS
    <2>8. (value \div lot) * LotSize \in Int
      BY <2>1, <2>6, <2>7
    <2> QED
      BY <1>2, <2>8 DEF Reb!TargetQuantity
  <1> QED
    BY <1>1, <1>2

\* The steps that leave the brief alone leave every target alone.
LEMMA TargetStays ==
    ASSUME UNCHANGED <<target, quotes>>, NEW s
    PROVE  Reb!TargetQuantity(s)' = Reb!TargetQuantity(s)
  BY DEF Reb!TargetQuantity, Reb!At

LEMMA RebalanceInit ==
    ASSUME Reb!Init
    PROVE  RebalanceInv
  <1>1. RebalanceTyped
    <2>1. DOMAIN target.weights \subseteq Tradable
          /\ \A s \in DOMAIN target.weights : target.weights[s] \in Nat
      BY StandaloneAssumption DEF Reb!Init, Reb!SoundPortfolio, Reb!RebalanceAssumption
    <2>2. Holdings(broker.positions) /\ Holdings(local.positions) /\ Holdings(start)
      BY StandaloneAssumption DEF Reb!Init, Reb!RebalanceAssumption, Holdings, Reb!At
    <2>3. quotes \in [Tradable -> Nat] /\ unlearned \in [Tradable -> Int] /\ planned = {}
      BY StandaloneAssumption DEF Reb!Init, Reb!RebalanceAssumption
    <2> QED
      BY <2>1, <2>2, <2>3 DEF RebalanceTyped
  <1>2. OneWay
    BY DEF Reb!Init, OneWay, Untouched
  <1>3. UnlearnedIsTheGap
    BY <1>1 DEF Reb!Init, UnlearnedIsTheGap, RebalanceTyped, Holdings
  <1> QED
    BY <1>1, <1>2, <1>3 DEF RebalanceInv

\* A planned order has the key of the one on the way, so it is not approved again.
LEMMA PlanPreserves ==
    ASSUME RebalanceInv, Reb!Plan
    PROVE  RebalanceInv'
  <1>1. /\ Reb!Approved \subseteq Reb!Planned /\ planned' = planned \cup Reb!Approved
        /\ \A p \in Reb!Approved, o \in planned : ~Reb!SameKey(o, p)
        /\ UNCHANGED <<day, target, quotes, broker, local, start, unlearned>>
    BY DEF Reb!Plan, Reb!Approved
  <1>2. \A p \in Reb!Planned : \E s \in Tradable : p = Reb!OrderFor(s) /\ Reb!Delta(s) # 0
    BY DEF Reb!Planned, Reb!Universe, RebalanceInv, RebalanceTyped, Holdings
  <1>3. \A s \in Tradable : Reb!OrderFor(s).symbol = s
    BY DEF Reb!OrderFor
  <1>4. RebalanceTyped'
    BY <1>1, <1>2, <1>3 DEF RebalanceInv, RebalanceTyped, Holdings, Reb!At
  <1>5. OneWay'
    <2> SUFFICES ASSUME NEW s \in Tradable
                 PROVE  (Untouched(s) \/ \E o \in planned : OnTheWay(o, s))'
      BY DEF OneWay
    <2> DEFINE t == Reb!TargetQuantity(s)
               h == Reb!At(local.positions, s)
    <2>1. /\ t \in Int /\ h \in Int /\ Reb!At(broker.positions, s) \in Int
          /\ Reb!At(start, s) \in Int /\ Reb!TargetQuantity(s)' = t /\ Reb!Delta(s) = t - h
      BY <1>1, TargetIsInteger, TargetStays DEF RebalanceInv, RebalanceTyped, Holdings, Reb!Delta
    <2>2. /\ Reb!At(local.positions, s)' = h /\ Reb!At(start, s)' = Reb!At(start, s)
          /\ Reb!At(broker.positions, s)' = Reb!At(broker.positions, s) /\ day' = day
      BY <1>1
    <2>3. \A p \in Reb!Approved : p.symbol = s => p = Reb!OrderFor(s) /\ Reb!Delta(s) # 0
      BY <1>1, <1>2, <1>3
    <2>4. CASE \E p \in Reb!Approved : p.symbol = s
      <3>1. Reb!OrderFor(s) \in Reb!Approved /\ Reb!Delta(s) # 0 /\ Reb!OrderFor(s).symbol = s
        BY <2>3, <2>4, <1>3
      <3>2. Untouched(s)
        <4> SUFFICES ASSUME NEW o \in planned, OnTheWay(o, s)
                     PROVE  FALSE
          BY DEF RebalanceInv, OneWay
        <4>1. o.filled \in Int /\ Reb!Signed(o, o.filled) = IF t > Reb!At(start, s) THEN o.filled
                                                       ELSE -o.filled
          BY <2>1 DEF OnTheWay, Reb!Signed
        <4>2. (t > Reb!At(start, s)) <=> (t - h > 0)
          BY <2>1, <3>1, <4>1 DEF OnTheWay, Reb!Between
        <4>3. Reb!SameKey(o, Reb!OrderFor(s))
          BY <2>1, <4>2 DEF OnTheWay, Reb!OrderFor, Reb!SameKey
        <4> QED
          BY <1>1, <3>1, <4>3
      <3> PICK o \in Reb!Approved : o = Reb!OrderFor(s)
        BY <3>1
      <3>3. o \in planned'
        BY <1>1, <3>1
      <3>4. /\ o.symbol = s /\ o.day = day /\ o.target = t /\ o.filled = 0
            /\ o.side = (IF t - h > 0 THEN "BUY" ELSE "SELL")
            /\ o.quantity = (IF t - h > 0 THEN t - h ELSE -(t - h))
        BY <2>1 DEF Reb!OrderFor
      <3>5. h = Reb!At(start, s) /\ Reb!At(broker.positions, s) = h
        BY <3>2 DEF Untouched
      <3>6. Reb!Signed(o, o.filled) = 0
        <4>1. \A k \in Int : Reb!Signed(o, k) = IF o.side = "BUY" THEN k ELSE 0 - k
          BY DEF Reb!Signed
        <4> QED
          BY <3>4, <4>1
      <3>7. \A q \in planned' : q.symbol = s /\ q.open => q = o
        BY <1>1, <2>3, <3>2 DEF Untouched
      <3>8. t # h
        BY <2>1, <3>1
      <3>9. OnTheWay(o, s)'
        BY <2>1, <2>2, <3>4, <3>5, <3>6, <3>7, <3>8 DEF OnTheWay, Reb!Between, Reb!Signed
      <3> QED
        BY <3>3, <3>9
    <2>5. CASE ~ \E p \in Reb!Approved : p.symbol = s
      <3>1. \A q \in planned' : q.symbol = s => q \in planned
        BY <1>1, <2>5
      <3>2. Untouched(s) => Untouched(s)'
        BY <2>2, <3>1 DEF Untouched
      <3>3. \A o \in planned : OnTheWay(o, s) => OnTheWay(o, s)' /\ o \in planned'
        BY <1>1, <2>1, <2>2, <3>1 DEF OnTheWay, Reb!Signed
      <3> QED
        BY <3>2, <3>3 DEF RebalanceInv, OneWay
    <2> QED
      BY <2>4, <2>5
  <1>6. UnlearnedIsTheGap'
    BY <1>1 DEF RebalanceInv, UnlearnedIsTheGap
  <1> QED
    BY <1>4, <1>5, <1>6 DEF RebalanceInv

\* A trade moves its symbol on the way to the target, never past it.
LEMMA TradePreserves ==
    ASSUME RebalanceInv, NEW o \in planned, NEW n, Reb!Trade(o, n)
    PROVE  RebalanceInv'
  <1> DEFINE m == Reb!Signed(o, n)
             r == o.symbol
  <1>1. /\ o.open /\ n \in 1..(o.quantity - o.filled)
        /\ planned' = (planned \ {o}) \cup {Reb!Traded(o, n)}
        /\ broker'.positions = Reb!WithShares(broker.positions, r, m)
        /\ unlearned' = [unlearned EXCEPT ![r] = @ + m]
        /\ UNCHANGED <<day, target, quotes, local, start>>
    BY DEF Reb!Trade
  <1>2. r \in Tradable /\ n \in Int /\ m \in Int
    BY <1>1 DEF RebalanceInv, RebalanceTyped, Reb!Signed
  <1>3. \A s \in Tradable :
          Reb!At(broker'.positions, s) = IF s = r THEN Reb!At(broker.positions, s) + m
                                     ELSE Reb!At(broker.positions, s)
    BY <1>1, <1>2 DEF Reb!WithShares, Reb!At
  <1>4. /\ Reb!Traded(o, n).symbol = r /\ Reb!Traded(o, n).day = o.day
        /\ Reb!Traded(o, n).target = o.target /\ Reb!Traded(o, n).side = o.side
        /\ Reb!Traded(o, n).quantity = o.quantity /\ Reb!Traded(o, n).filled = o.filled + n
    BY DEF Reb!Traded
  <1>5. RebalanceTyped'
    <2>1. Holdings(broker'.positions)
      <3>1. DOMAIN broker'.positions \subseteq Tradable
        BY <1>1, <1>2 DEF RebalanceInv, RebalanceTyped, Holdings, Reb!WithShares
      <3>2. \A s \in Tradable : Reb!At(broker.positions, s) \in Int
        BY DEF RebalanceInv, RebalanceTyped, Holdings
      <3>3. \A s \in Tradable : Reb!At(broker'.positions, s) \in Int
        BY <1>2, <1>3, <3>2
      <3> QED
        BY <3>1, <3>3 DEF Holdings
    <2>2. Holdings(local'.positions) /\ Holdings(start')
      BY <1>1 DEF RebalanceInv, RebalanceTyped
    <2>3. unlearned' \in [Tradable -> Int]
      BY <1>1, <1>2 DEF RebalanceInv, RebalanceTyped
    <2>4. \A q \in planned' : q.symbol \in Tradable
      BY <1>1, <1>2, <1>4 DEF RebalanceInv, RebalanceTyped
    <2> QED
      BY <1>1, <2>1, <2>2, <2>3, <2>4 DEF RebalanceInv, RebalanceTyped, Holdings
  <1>6. OneWay'
    <2> SUFFICES ASSUME NEW s \in Tradable
                 PROVE  (Untouched(s) \/ \E q \in planned : OnTheWay(q, s))'
      BY DEF OneWay
    <2>1. /\ Reb!TargetQuantity(s) \in Int /\ Reb!TargetQuantity(s)' = Reb!TargetQuantity(s)
          /\ Reb!At(start, s) \in Int /\ Reb!At(local.positions, s) \in Int
          /\ Reb!At(broker.positions, s) \in Int
          /\ Reb!At(start', s) = Reb!At(start, s)
          /\ Reb!At(local'.positions, s) = Reb!At(local.positions, s) /\ day' = day
      BY <1>1, TargetIsInteger, TargetStays DEF RebalanceInv, RebalanceTyped, Holdings
    <2>2. CASE s # r
      <3>1. /\ Reb!At(broker'.positions, s) = Reb!At(broker.positions, s)
            /\ \A q : q.symbol = s => (q \in planned' <=> q \in planned)
        BY <1>1, <1>3, <1>4, <2>2
      <3>2. Untouched(s) => Untouched(s)'
        BY <2>1, <3>1 DEF Untouched
      <3>3. \A q \in planned : OnTheWay(q, s) => q \in planned' /\ OnTheWay(q, s)'
        BY <2>1, <3>1 DEF OnTheWay, Reb!Signed
      <3> QED
        BY <3>2, <3>3 DEF RebalanceInv, OneWay
    <2>3. CASE s = r
      <3>1. OnTheWay(o, s)
        BY <1>1, <2>3 DEF RebalanceInv, OneWay, Untouched, OnTheWay
      <3> PICK p \in planned' : p = Reb!Traded(o, n)
        BY <1>1
      <3>2. Reb!At(broker'.positions, s) = Reb!At(broker.positions, s) + m
        BY <1>3, <2>3
      <3>3. p.filled \in 0..p.quantity /\ o.filled \in Int /\ o.quantity \in Int
        BY <1>1, <1>4, <2>1, <3>1 DEF OnTheWay
      <3>4. Reb!Signed(p, p.filled) = Reb!Signed(o, o.filled) + m
        BY <1>2, <1>4, <3>3 DEF Reb!Signed
      <3>5. Reb!At(broker'.positions, s) = Reb!At(start, s) + Reb!Signed(p, p.filled)
        BY <2>1, <3>1, <3>2, <3>3, <3>4, <1>2 DEF OnTheWay, Reb!Signed
      <3>6. Reb!Between(Reb!At(local.positions, s), Reb!At(start, s), Reb!At(broker'.positions, s))
        BY <1>1, <1>2, <2>1, <3>1, <3>2, <3>3 DEF OnTheWay, Reb!Between, Reb!Signed
      <3>7. \A q \in planned' : q.symbol = s /\ q.open => q = p
        BY <1>1, <3>1 DEF OnTheWay
      <3>8. OnTheWay(p, s)'
        BY <1>4, <2>1, <2>3, <3>1, <3>3, <3>5, <3>6, <3>7 DEF OnTheWay, Reb!Signed
      <3> QED
        BY <3>8
    <2> QED
      BY <2>2, <2>3
  <1>7. UnlearnedIsTheGap'
    BY <1>1, <1>2, <1>3 DEF RebalanceInv, RebalanceTyped, Holdings, UnlearnedIsTheGap
  <1> QED
    BY <1>5, <1>6, <1>7 DEF RebalanceInv

LEMMA ClosePreserves ==
    ASSUME RebalanceInv, NEW o \in planned, Reb!Close(o)
    PROVE  RebalanceInv'
  <1>1. /\ o.open /\ planned' = (planned \ {o}) \cup {Reb!Withdrawn(o)}
        /\ UNCHANGED <<day, target, quotes, broker, local, start, unlearned>>
    BY DEF Reb!Close
  <1>2. /\ Reb!Withdrawn(o).symbol = o.symbol /\ Reb!Withdrawn(o).day = o.day
        /\ Reb!Withdrawn(o).target = o.target /\ Reb!Withdrawn(o).side = o.side
        /\ Reb!Withdrawn(o).quantity = o.quantity /\ Reb!Withdrawn(o).filled = o.filled
        /\ ~Reb!Withdrawn(o).open
    BY DEF Reb!Withdrawn
  <1>3. RebalanceTyped'
    BY <1>1, <1>2 DEF RebalanceInv, RebalanceTyped, Holdings, Reb!At
  <1>4. OneWay'
    <2> SUFFICES ASSUME NEW s \in Tradable
                 PROVE  (Untouched(s) \/ \E q \in planned : OnTheWay(q, s))'
      BY DEF OneWay
    <2>1. /\ Reb!TargetQuantity(s)' = Reb!TargetQuantity(s) /\ Reb!At(start', s) = Reb!At(start, s)
          /\ Reb!At(local'.positions, s) = Reb!At(local.positions, s)
          /\ Reb!At(broker'.positions, s) = Reb!At(broker.positions, s) /\ day' = day
      BY <1>1, TargetStays
    <2>2. CASE Untouched(s)
      BY <1>1, <1>2, <2>1, <2>2 DEF Untouched
    <2>3. CASE \E p \in planned : OnTheWay(p, s)
      <3> PICK p \in planned : OnTheWay(p, s)
        BY <2>3
      <3> PICK w \in planned' : w = IF p = o THEN Reb!Withdrawn(o) ELSE p
        BY <1>1
      <3>1. /\ w.symbol = p.symbol /\ w.day = p.day /\ w.target = p.target
            /\ w.side = p.side /\ w.quantity = p.quantity /\ w.filled = p.filled
        BY <1>2
      <3>2. \A q \in planned' : q.symbol = s /\ q.open => q = w
        BY <1>1, <1>2 DEF OnTheWay
      <3>3. OnTheWay(w, s)'
        BY <2>1, <3>1, <3>2 DEF OnTheWay, Reb!Signed
      <3> QED
        BY <3>3
    <2> QED
      BY <2>2, <2>3 DEF RebalanceInv, OneWay
  <1>5. UnlearnedIsTheGap'
    BY <1>1 DEF RebalanceInv, UnlearnedIsTheGap
  <1> QED
    BY <1>3, <1>4, <1>5 DEF RebalanceInv

LEMMA SnapshotPreserves ==
    ASSUME RebalanceInv, Reb!Snapshot
    PROVE  RebalanceInv'
  <1>1. /\ local' = broker /\ unlearned' = [s \in Tradable |-> 0]
        /\ UNCHANGED <<day, target, quotes, broker, planned, start>>
    BY DEF Reb!Snapshot
  <1>2. RebalanceTyped'
    BY <1>1 DEF RebalanceInv, RebalanceTyped, Holdings, Reb!At
  <1>3. OneWay'
    <2> SUFFICES ASSUME NEW s \in Tradable
                 PROVE  (Untouched(s) \/ \E q \in planned : OnTheWay(q, s))'
      BY DEF OneWay
    <2>1. /\ Reb!TargetQuantity(s)' = Reb!TargetQuantity(s) /\ Reb!At(start', s) = Reb!At(start, s)
          /\ Reb!At(local'.positions, s) = Reb!At(broker.positions, s)
          /\ Reb!At(broker'.positions, s) = Reb!At(broker.positions, s) /\ day' = day
          /\ Reb!At(start, s) \in Int /\ Reb!At(broker.positions, s) \in Int
      BY <1>1, TargetStays DEF RebalanceInv, RebalanceTyped, Holdings
    <2>2. Untouched(s) => Untouched(s)'
      BY <1>1, <2>1 DEF Untouched
    <2>3. \A q \in planned : OnTheWay(q, s) => q \in planned' /\ OnTheWay(q, s)'
      BY <1>1, <2>1 DEF OnTheWay, Reb!Between, Reb!Signed
    <2> QED
      BY <2>2, <2>3 DEF RebalanceInv, OneWay
  <1>4. UnlearnedIsTheGap'
    <2>1. \A s \in Tradable : Reb!At(broker'.positions, s) \in Int
      BY <1>2 DEF RebalanceTyped, Holdings
    <2> QED
      BY <1>1, <2>1 DEF UnlearnedIsTheGap
  <1> QED
    BY <1>2, <1>3, <1>4 DEF RebalanceInv

\* Accounts without differences hold the same of every symbol.
LEMMA ReconciledHoldTheSame ==
    ASSUME Reb!Differences(local, broker) = {}, NEW s \in Tradable
    PROVE  Reb!At(local.positions, s) = Reb!At(broker.positions, s)
  BY DEF Reb!Differences, Reb!At

LEMMA BriefPreserves ==
    ASSUME RebalanceInv, NEW p, NEW q \in Quotes, NEW d, Reb!Brief(p, q, d)
    PROVE  RebalanceInv'
  <1>1. /\ Reb!SoundPortfolio(p) /\ Reb!Differences(local, broker) = {} /\ \A o \in planned : ~o.open
        /\ target' = p /\ quotes' = q /\ start' = broker.positions
        /\ UNCHANGED <<broker, local, planned, unlearned>>
    BY DEF Reb!Brief
  <1>2. /\ DOMAIN target'.weights \subseteq Tradable
        /\ \A s \in DOMAIN target'.weights : target'.weights[s] \in Nat
    BY StandaloneAssumption, <1>1 DEF Reb!SoundPortfolio, Reb!RebalanceAssumption
  <1>3. RebalanceTyped'
    BY StandaloneAssumption, <1>1, <1>2
    DEF RebalanceInv, RebalanceTyped, Holdings, Reb!At, Reb!RebalanceAssumption
  <1>4. OneWay'
    BY <1>1, ReconciledHoldTheSame DEF OneWay, Untouched
  <1>5. UnlearnedIsTheGap'
    BY <1>1 DEF RebalanceInv, UnlearnedIsTheGap
  <1> QED
    BY <1>3, <1>4, <1>5 DEF RebalanceInv

LEMMA RebalanceStep ==
    ASSUME RebalanceInv, [Reb!Next]_Reb!vars
    PROVE  RebalanceInv'
  <1>1. CASE Reb!Plan
    BY <1>1, PlanPreserves
  <1>2. CASE \E o \in planned : Reb!Close(o) \/ \E n \in 1..o.quantity : Reb!Trade(o, n)
    BY <1>2, ClosePreserves, TradePreserves
  <1>3. CASE Reb!Snapshot
    BY <1>3, SnapshotPreserves
  <1>4. CASE \E p \in Portfolios, q \in Quotes, d \in 1..MaxDays : Reb!Brief(p, q, d)
    BY <1>4, BriefPreserves
  <1>5. CASE UNCHANGED Reb!vars
    <2>1. \A s \in Tradable : Reb!TargetQuantity(s)' = Reb!TargetQuantity(s)
      BY <1>5, TargetStays DEF Reb!vars
    <2>2. \A o, s : o \in planned /\ s \in Tradable /\ OnTheWay(o, s) => OnTheWay(o, s)'
      BY <1>5, <2>1 DEF Reb!vars, OnTheWay, Reb!Signed
    <2>3. OneWay'
      BY <1>5, <2>2 DEF RebalanceInv, Reb!vars, OneWay, Untouched
    <2> QED
      BY <1>5, <2>3 DEF Reb!vars, RebalanceInv, RebalanceTyped, Holdings, Reb!At, UnlearnedIsTheGap
  <1> QED
    BY <1>1, <1>2, <1>3, <1>4, <1>5 DEF Reb!Next

LEMMA RebalanceSafe ==
    ASSUME RebalanceInv
    PROVE  NoOvershoot /\ DifferencesAreUnlearnedTrades
  <1>1. NoOvershoot
    <2> SUFFICES ASSUME NEW s \in Tradable, NEW o \in planned, OnTheWay(o, s)
                 PROVE  Reb!Between(Reb!At(broker.positions, s), Reb!At(start, s),
                                    Reb!TargetQuantity(s))
      BY DEF NoOvershoot, Reb!NoOvershoot, RebalanceInv, OneWay, Untouched
    <2>1. Reb!TargetQuantity(s) \in Int /\ Reb!At(start, s) \in Int
      BY TargetIsInteger DEF RebalanceInv, RebalanceTyped, Holdings
    <2> QED
      BY <2>1 DEF OnTheWay, Reb!Between, Reb!Signed
  <1>2. DifferencesAreUnlearnedTrades
    <2> SUFFICES ASSUME NEW s \in Tradable
                 PROVE  Reb!Position(s) \in Reb!Differences(local, broker) <=> unlearned[s] # 0
      BY DEF DifferencesAreUnlearnedTrades, Reb!DifferencesAreUnlearnedTrades
    <2>1. Reb!Position(s) \in Reb!Differences(local, broker)
          <=> Reb!At(local.positions, s) # Reb!At(broker.positions, s)
      <3>1. Reb!Position(s) # Reb!Cash /\ \A u : Reb!Position(s) = Reb!Position(u) => u = s
        BY DEF Reb!Position, Reb!Cash
      <3> QED
        BY <3>1 DEF Reb!Differences, Reb!At
    <2>2. unlearned[s] = Reb!At(broker.positions, s) - Reb!At(local.positions, s)
      BY DEF RebalanceInv, UnlearnedIsTheGap
    <2>3. Reb!At(broker.positions, s) \in Int /\ Reb!At(local.positions, s) \in Int
      BY DEF RebalanceInv, RebalanceTyped, Holdings
    <2> QED
      BY <2>1, <2>2, <2>3
  <1> QED
    BY <1>1, <1>2

\* Planning the same target again, from a snapshot however old, over orders that
\* trade in parts or close early, never takes a position past it or away from it.
THEOREM NeverOvershoots ==
    Reb!Spec => []NoOvershoot
  <1>1. Reb!Init => RebalanceInv
    BY RebalanceInit
  <1>2. RebalanceInv /\ [Reb!Next]_Reb!vars => RebalanceInv'
    BY RebalanceStep
  <1>3. RebalanceInv => NoOvershoot
    BY RebalanceSafe
  <1> QED
    BY <1>1, <1>2, <1>3, PTL DEF Reb!Spec

\* Reconciliation names exactly the symbols whose trades since the last snapshot
\* do not cancel out.
THEOREM ReconciliationIsExact ==
    Reb!Spec => []DifferencesAreUnlearnedTrades
  <1>1. Reb!Init => RebalanceInv
    BY RebalanceInit
  <1>2. RebalanceInv /\ [Reb!Next]_Reb!vars => RebalanceInv'
    BY RebalanceStep
  <1>3. RebalanceInv => DifferencesAreUnlearnedTrades
    BY RebalanceSafe
  <1> QED
    BY <1>1, <1>2, <1>3, PTL DEF Reb!Spec

-----------------------------------------------------------------------------
(* Governance: how long the history of an idea is tells its status, and the *)
(* other way round, as long as it is neither rejected nor deprecated.       *)

Stages == <<"DISCOVERED", "REPRODUCED", "VALIDATED", "SHADOW", "APPROVED", "PRODUCTION">>

\* The idea has come to the k-th stage, through all of those before.
AtStage(i, k) ==
    /\ ideas[i].status = Stages[k]
    /\ Len(log[i]) = k /\ \A n \in 1..k : log[i][n].to = Stages[n]
    /\ k >= 2 => ideas[i].hash \in GoodHashes
    /\ k >= 5 => log[i][5].confirmed

IdeaHistory(i) ==
    \/ ideas[i] = Gov!Unknown /\ log[i] = <<>>
    \/ \E k \in 1..6 : AtStage(i, k)
    \/ /\ ideas[i].status \in {"REJECTED", "DEPRECATED"}
       /\ \A n \in 1..Len(log[i]) :
             log[i][n].to = "REJECTED" => ideas[i].status = "REJECTED"

Noted ==
    {"DISCOVERED", "REPRODUCED", "VALIDATED", "SHADOW", "APPROVED", "PRODUCTION", "REJECTED",
     "DEPRECATED", "DRAFT", "COMPUTED"}
Entry == [to : Noted, confirmed : BOOLEAN]

FactorStatuses == {"DRAFT", "COMPUTED", "VALIDATED", "APPROVED", "PRODUCTION", "DEPRECATED"}
Usable == {"VALIDATED", "APPROVED", "PRODUCTION"}

\* A factor past validation was registered as such, or has evidence on record.
FactorHistory(f) ==
    \/ factors[f] = Gov!NoFactor /\ log[f] = <<>>
    \/ /\ factors[f].status \in FactorStatuses /\ Len(log[f]) >= 1
       /\ factors[f].status \in Usable =>
             \/ log[f][1].to \in Usable
             \/ /\ factors[f].hash # NoHash
                /\ \E n \in 1..Len(log[f]) : log[f][n].to = "VALIDATED"

GovernanceInv ==
    /\ DOMAIN ideas = Ideas /\ DOMAIN factors = Factors
    /\ \A x \in Ideas \cup Factors : log[x] \in Seq(Entry)
    /\ DOMAIN log = Ideas \cup Factors
    /\ \A i \in Ideas : IdeaHistory(i)
    /\ \A f \in Factors : FactorHistory(f)

LEMMA GovernanceInit == Gov!Init => GovernanceInv
  <1> SUFFICES ASSUME Gov!Init PROVE GovernanceInv
    OBVIOUS
  <1>1. \A x \in Ideas \cup Factors : log[x] \in Seq(Entry)
    BY DEF Gov!Init
  <1>2. \A i \in Ideas : IdeaHistory(i)
    BY DEF Gov!Init, IdeaHistory
  <1>3. \A f \in Factors : FactorHistory(f)
    BY DEF Gov!Init, FactorHistory
  <1> QED
    BY <1>1, <1>2, <1>3 DEF Gov!Init, GovernanceInv

\* The history of x has one more entry, the others are as they were.
Appended(x, to, confirmed) ==
    /\ DOMAIN log' = Ideas \cup Factors
    /\ \A y \in Ideas \cup Factors :
          /\ log'[y] \in Seq(Entry)
          /\ y # x => log'[y] = log[y]
    /\ Len(log[x]) \in Nat /\ Len(log'[x]) = Len(log[x]) + 1
    /\ \A n \in 1..Len(log[x]) : log'[x][n] = log[x][n]
    /\ log'[x][Len(log[x]) + 1] = [to |-> to, confirmed |-> confirmed]

\* What a history says of its own subject only.
LEMMA IdeaStays ==
    ASSUME NEW i, ideas'[i] = ideas[i], log'[i] = log[i], IdeaHistory(i)
    PROVE  IdeaHistory(i)'
  BY DEF IdeaHistory, AtStage

LEMMA FactorStays ==
    ASSUME NEW f, factors'[f] = factors[f], log'[f] = log[f], FactorHistory(f)
    PROVE  FactorHistory(f)'
  BY DEF FactorHistory

LEMMA NoteAppends ==
    ASSUME GovernanceInv, NEW x \in Ideas \cup Factors, NEW to \in Noted,
           NEW confirmed \in BOOLEAN, Gov!Note(x, to, confirmed)
    PROVE  Appended(x, to, confirmed)
  <1> DEFINE entry == [to |-> to, confirmed |-> confirmed]
  <1>1. log' = [log EXCEPT ![x] = Append(log[x], entry)]
    BY DEF Gov!Note, GovernanceInv
  <1>2. /\ log[x] \in Seq(Entry)
        /\ entry \in Entry
        /\ DOMAIN log = Ideas \cup Factors
    BY DEF GovernanceInv, Entry
  <1>3. log'[x] = Append(log[x], entry)
    BY <1>1, <1>2
  <1>4. /\ Append(log[x], entry) \in Seq(Entry)
        /\ Len(Append(log[x], entry)) = Len(log[x]) + 1
        /\ \A n \in 1..Len(log[x]) : Append(log[x], entry)[n] = log[x][n]
        /\ Append(log[x], entry)[Len(log[x]) + 1] = entry
    BY <1>2, AppendProperties
  <1>5. Len(log[x]) \in Nat
    BY <1>2, LenProperties
  <1>6. \A y \in Ideas \cup Factors : y # x => log'[y] = log[y]
    BY <1>1, <1>2
  <1>7. \A y \in Ideas \cup Factors : log'[y] \in Seq(Entry)
    BY <1>3, <1>4, <1>6 DEF GovernanceInv
  <1> QED
    BY <1>1, <1>2, <1>3, <1>4, <1>5, <1>6, <1>7 DEF Appended

LEMMA DiscoverPreserves ==
    ASSUME GovernanceInv, NEW i \in Ideas, NEW hash, NEW reason, NEW by,
           Gov!Discover(i, hash, reason, by)
    PROVE  GovernanceInv'
  <1>1. /\ ideas[i] = Gov!Unknown /\ Gov!Note(i, "DISCOVERED", FALSE) /\ factors' = factors
        /\ DOMAIN ideas' = Ideas /\ ideas'[i].status = "DISCOVERED"
        /\ \A j \in Ideas : j # i => ideas'[j] = ideas[j]
    BY DEF Gov!Discover, GovernanceInv
  <1>2. log[i] = <<>>
    BY <1>1 DEF GovernanceInv, IdeaHistory, AtStage, Stages, Gov!Unknown
  <1>3. /\ DOMAIN log' = Ideas \cup Factors
        /\ \A y \in Ideas \cup Factors :
              /\ log'[y] \in Seq(Entry)
              /\ y # i => log'[y] = log[y]
        /\ Len(log'[i]) = 1 /\ log'[i][1].to = "DISCOVERED"
    <2>1. "DISCOVERED" \in Noted /\ i \in Ideas \cup Factors /\ FALSE \in BOOLEAN
      BY DEF Noted
    <2>2. Appended(i, "DISCOVERED", FALSE)
      BY <1>1, <2>1, NoteAppends, Zenon
    <2>3. Len(log[i]) = 0
      BY <1>2
    <2> QED
      BY <2>2, <2>3 DEF Appended
  <1>4. AtStage(i, 1)'
    BY <1>1, <1>3 DEF AtStage, Stages
  <1>5. \A j \in Ideas : IdeaHistory(j)'
    <2>1. IdeaHistory(i)'
      BY <1>4 DEF IdeaHistory
    <2> QED
      BY <1>1, <1>3, <2>1, IdeaStays DEF GovernanceInv
  <1>6. \A f \in Factors : FactorHistory(f)'
    <2>1. i \notin Factors
      BY StandaloneAssumption DEF Gov!GovernanceAssumption
    <2> QED
      BY <1>1, <1>3, <2>1, FactorStays DEF GovernanceInv
  <1> QED
    BY <1>1, <1>3, <1>5, <1>6 DEF GovernanceInv

\* Only the next stage follows a stage, besides a rejection or a deprecation.
LEMMA NextStage ==
    ASSUME NEW k \in 1..6, NEW to, to \in Gov!KnowledgeTransitions[Stages[k]]
    PROVE  \/ k <= 5 /\ to = Stages[k + 1] /\ to \in Gov!Promoted
           \/ k <= 5 /\ to = "REJECTED"
           \/ k = 6 /\ to = "DEPRECATED"
  <1>1. CASE k = 1
    BY <1>1 DEF Stages, Gov!KnowledgeTransitions, Gov!Promoted
  <1>2. CASE k = 2
    BY <1>2 DEF Stages, Gov!KnowledgeTransitions, Gov!Promoted
  <1>3. CASE k = 3
    BY <1>3 DEF Stages, Gov!KnowledgeTransitions, Gov!Promoted
  <1>4. CASE k = 4
    BY <1>4 DEF Stages, Gov!KnowledgeTransitions, Gov!Promoted
  <1>5. CASE k = 5
    BY <1>5 DEF Stages, Gov!KnowledgeTransitions, Gov!Promoted
  <1>6. CASE k = 6
    BY <1>6 DEF Stages, Gov!KnowledgeTransitions, Gov!Promoted
  <1> QED
    BY <1>1, <1>2, <1>3, <1>4, <1>5, <1>6

LEMMA StagesAreNot ==
    \A k \in 1..6 : /\ Stages[k] \notin {"UNKNOWN", "REJECTED", "DEPRECATED"}
                    /\ Stages[k] = "APPROVED" <=> k = 5
                    /\ Stages[k] = "PRODUCTION" <=> k = 6
  <1>1. \A k \in 1..6 : k = 1 \/ k = 2 \/ k = 3 \/ k = 4 \/ k = 5 \/ k = 6
    OBVIOUS
  <1> QED
    BY <1>1 DEF Stages

LEMMA TransitionPreserves ==
    ASSUME GovernanceInv, NEW i \in Ideas, NEW to \in DOMAIN Gov!KnowledgeTransitions,
           NEW hash, NEW reason \in BOOLEAN, NEW by, NEW confirmed \in BOOLEAN,
           Gov!Transition(i, to, hash, reason, by, confirmed)
    PROVE  GovernanceInv'
  <1>1. /\ ideas[i] # Gov!Unknown /\ to \in Gov!KnowledgeTransitions[ideas[i].status]
        /\ Gov!Note(i, to, confirmed) /\ factors' = factors
        /\ DOMAIN ideas' = Ideas /\ ideas'[i].status = to
        /\ \A j \in Ideas : j # i => ideas'[j] = ideas[j]
        /\ to \in Gov!Promoted => ideas'[i].hash \in GoodHashes
        /\ to = "APPROVED" => confirmed
    BY DEF Gov!Transition, GovernanceInv
  <1>2. to \in Noted
    BY DEF Gov!KnowledgeTransitions, Noted
  <1>3. /\ DOMAIN log' = Ideas \cup Factors
        /\ \A y \in Ideas \cup Factors :
              /\ log'[y] \in Seq(Entry)
              /\ y # i => log'[y] = log[y]
        /\ Len(log[i]) \in Nat /\ Len(log'[i]) = Len(log[i]) + 1
        /\ \A n \in 1..Len(log[i]) : log'[i][n] = log[i][n]
        /\ log'[i][Len(log[i]) + 1] = [to |-> to, confirmed |-> confirmed]
    <2>1. i \in Ideas \cup Factors
      OBVIOUS
    <2>2. Appended(i, to, confirmed)
      BY <1>1, <1>2, <2>1, NoteAppends, Zenon
    <2> QED
      BY <2>2 DEF Appended
  <1>4. PICK k \in 1..6 : AtStage(i, k)
    <2>1. IdeaHistory(i)
      BY DEF GovernanceInv
    <2>2. /\ Gov!KnowledgeTransitions["REJECTED"] = {}
          /\ Gov!KnowledgeTransitions["DEPRECATED"] = {}
      BY DEF Gov!KnowledgeTransitions
    <2> QED
      BY <1>1, <2>1, <2>2 DEF IdeaHistory
  <1>5. IdeaHistory(i)'
    <2>1. ideas[i].status = Stages[k] /\ Len(log[i]) = k
          /\ \A n \in 1..k : log[i][n].to = Stages[n]
      BY <1>4 DEF AtStage
    <2>2. CASE k <= 5 /\ to = Stages[k + 1] /\ to \in Gov!Promoted
      <3>1. k + 1 \in 1..6 /\ (k + 1 = 5 => confirmed) /\ (k >= 5 => log[i][5].confirmed)
        BY <1>1, <1>4, <2>2, StagesAreNot DEF AtStage
      <3>2. \A n \in 1..(k + 1) : log'[i][n].to = Stages[n]
        BY <1>3, <2>1, <2>2
      <3>3. k + 1 >= 5 => log'[i][5].confirmed
        BY <1>3, <2>1, <3>1
      <3>4. AtStage(i, k + 1)'
        BY <1>1, <1>3, <2>1, <2>2, <3>2, <3>3 DEF AtStage
      <3> QED
        BY <3>1, <3>4 DEF IdeaHistory
    <2>3. CASE to \in {"REJECTED", "DEPRECATED"}
      <3>1. \A n \in 1..Len(log'[i]) : log'[i][n].to = "REJECTED" => to = "REJECTED"
        <4>1. \A n \in 1..k : log'[i][n].to # "REJECTED"
          BY <1>3, <2>1, StagesAreNot
        <4>2. log'[i][k + 1].to = to
          BY <1>3, <2>1
        <4> QED
          BY <1>3, <2>1, <4>1, <4>2
      <3> QED
        BY <1>1, <2>3, <3>1 DEF IdeaHistory
    <2> QED
      BY <1>1, <2>1, <2>2, <2>3, NextStage
  <1>6. \A j \in Ideas : IdeaHistory(j)'
    BY <1>1, <1>3, <1>5, IdeaStays DEF GovernanceInv
  <1>7. \A f \in Factors : FactorHistory(f)'
    <2>1. i \notin Factors
      BY StandaloneAssumption DEF Gov!GovernanceAssumption
    <2> QED
      BY <1>1, <1>3, <2>1, FactorStays DEF GovernanceInv
  <1> QED
    BY <1>1, <1>3, <1>6, <1>7 DEF GovernanceInv

\* Nothing is usable that was not so before, unless registered so or on evidence.
LEMMA FactorPreserves ==
    ASSUME GovernanceInv, NEW f \in Factors, NEW status \in DOMAIN Gov!FactorTransitions,
           NEW hash, Gov!Register(f, status, hash) \/ Gov!MoveFactor(f, status, hash)
    PROVE  GovernanceInv'
  <1>1. /\ Gov!Note(f, status, FALSE) /\ ideas' = ideas
        /\ DOMAIN factors' = Factors /\ factors'[f].status = status
        /\ \A g \in Factors : g # f => factors'[g] = factors[g]
    <2>1. DOMAIN factors = Factors
      BY DEF GovernanceInv
    <2>2. CASE Gov!Register(f, status, hash)
      BY <2>1, <2>2 DEF Gov!Register
    <2>3. CASE Gov!MoveFactor(f, status, hash)
      BY <2>1, <2>3 DEF Gov!MoveFactor
    <2> QED
      BY <2>2, <2>3
  <1>2. status \in FactorStatuses /\ status \in Noted
    BY DEF Gov!FactorTransitions, FactorStatuses, Noted
  <1>3. /\ DOMAIN log' = Ideas \cup Factors
        /\ \A y \in Ideas \cup Factors :
              /\ log'[y] \in Seq(Entry)
              /\ y # f => log'[y] = log[y]
        /\ Len(log[f]) \in Nat /\ Len(log'[f]) = Len(log[f]) + 1
        /\ \A n \in 1..Len(log[f]) : log'[f][n] = log[f][n]
        /\ log'[f][Len(log[f]) + 1].to = status
    <2>1. f \in Ideas \cup Factors /\ FALSE \in BOOLEAN
      OBVIOUS
    <2>2. Appended(f, status, FALSE)
      BY <1>1, <1>2, <2>1, NoteAppends, Zenon
    <2> QED
      BY <2>2 DEF Appended
  <1>4. f \notin Ideas
    BY StandaloneAssumption DEF Gov!GovernanceAssumption
  <1>5. FactorHistory(f)
    BY DEF GovernanceInv
  <1>6. FactorHistory(f)'
    <2>1. CASE Gov!Register(f, status, hash)
      <3>1. log[f] = <<>>
        BY <1>5, <2>1 DEF FactorHistory, Gov!Register, Gov!NoFactor, FactorStatuses
      <3> QED
        BY <1>1, <1>2, <1>3, <3>1 DEF FactorHistory
    <2>2. CASE Gov!MoveFactor(f, status, hash)
      <3>1. /\ factors[f] # Gov!NoFactor
            /\ status \in Gov!FactorTransitions[factors[f].status]
            /\ status \in {"VALIDATED", "APPROVED"} => hash # NoHash
            /\ factors'[f].hash = Gov!Or(hash, factors[f].hash, NoHash)
        BY <2>2, StandaloneAssumption
        DEF Gov!MoveFactor, Gov!GovernanceAssumption, GovernanceInv
      <3>2. /\ factors[f].status \in FactorStatuses /\ Len(log[f]) >= 1
            /\ factors[f].status \in Usable =>
                  \/ log[f][1].to \in Usable
                  \/ /\ factors[f].hash # NoHash
                     /\ \E n \in 1..Len(log[f]) : log[f][n].to = "VALIDATED"
        BY <1>5, <3>1 DEF FactorHistory
      <3>3. status \in Usable /\ status # "VALIDATED" => factors[f].status \in Usable
        BY <3>1, <3>2 DEF Gov!FactorTransitions, FactorStatuses, Usable
      <3>4. factors[f].hash # NoHash \/ hash # NoHash => factors'[f].hash # NoHash
        BY <3>1 DEF Gov!Or
      <3>5. status = "VALIDATED" =>
               factors'[f].hash # NoHash /\ \E n \in 1..Len(log'[f]) : log'[f][n].to = "VALIDATED"
        BY <1>3, <3>1, <3>4
      <3>6. status \in Usable /\ status # "VALIDATED" =>
               \/ log'[f][1].to \in Usable
               \/ /\ factors'[f].hash # NoHash
                  /\ \E n \in 1..Len(log'[f]) : log'[f][n].to = "VALIDATED"
        BY <1>3, <3>2, <3>3, <3>4
      <3> QED
        BY <1>1, <1>2, <1>3, <3>2, <3>5, <3>6 DEF FactorHistory
    <2> QED
      BY <2>1, <2>2
  <1>7. \A g \in Factors : FactorHistory(g)'
    BY <1>1, <1>3, <1>6, FactorStays DEF GovernanceInv
  <1>8. \A i \in Ideas : IdeaHistory(i)'
    BY <1>1, <1>3, <1>4, IdeaStays DEF GovernanceInv
  <1> QED
    BY <1>1, <1>3, <1>7, <1>8 DEF GovernanceInv

LEMMA GovernanceStep == GovernanceInv /\ [Gov!Next]_Gov!vars => GovernanceInv'
  <1>1. ASSUME GovernanceInv, UNCHANGED <<ideas, factors, log>>
        PROVE  GovernanceInv'
    BY <1>1 DEF GovernanceInv, IdeaHistory, AtStage, FactorHistory
  <1>2. ASSUME GovernanceInv, NEW a, Gov!RegisterModel(a)
        PROVE  GovernanceInv'
    BY <1>1, <1>2 DEF Gov!RegisterModel
  <1> QED
    BY <1>1, <1>2, DiscoverPreserves, TransitionPreserves, FactorPreserves
    DEF Gov!Next, Gov!vars

LEMMA GovernanceSafe ==
    ASSUME GovernanceInv
    PROVE  ProductionIsConfirmed
  <1>1. ASSUME NEW i \in Ideas, ideas[i].status = "PRODUCTION"
        PROVE  /\ [n \in 1..Len(log[i]) |-> log[i][n].to] = Stages
               /\ log[i][5].confirmed /\ ideas[i].hash \in GoodHashes
    <2>1. AtStage(i, 6)
      BY <1>1, StagesAreNot DEF GovernanceInv, IdeaHistory, Gov!Unknown, AtStage
    <2>2. Stages = [n \in 1..6 |-> Stages[n]]
      BY DEF Stages
    <2> QED
      BY <2>1, <2>2 DEF AtStage
  <1>2. ASSUME NEW i \in Ideas, NEW n \in 1..Len(log[i]), log[i][n].to = "REJECTED"
        PROVE  i \in Gov!FailureLibrary
    <2>1. ideas[i].status = "REJECTED"
      <3>1. IdeaHistory(i)
        BY DEF GovernanceInv
      <3>2. log[i] # <<>>
        BY <1>2
      <3>3. \A k \in 1..6 : ~AtStage(i, k)
        BY <1>2, StagesAreNot DEF AtStage
      <3> QED
        BY <1>2, <3>1, <3>2, <3>3 DEF IdeaHistory
    <2> QED
      BY <2>1 DEF Gov!FailureLibrary, Gov!Unknown
  <1>3. ASSUME NEW f \in Gov!Eligible
        PROVE  \/ log[f][1].to \in Usable
               \/ /\ factors[f].hash # NoHash
                  /\ \E n \in 1..Len(log[f]) : log[f][n].to = "VALIDATED"
    BY DEF Gov!Eligible, GovernanceInv, FactorHistory, Gov!NoFactor, Usable
  <1> QED
    BY <1>1, <1>2, <1>3
    DEF ProductionIsConfirmed, Gov!ProductionIsConfirmed, Stages, Usable

\* What knowledge is in production passed every stage in order, on evidence and with
\* a confirmed approval; what was rejected stays in the failure library; a usable
\* factor was validated on evidence or registered as validated.
THEOREM ProductionConfirmed == Gov!Spec => []ProductionIsConfirmed
  BY GovernanceInit, GovernanceStep, GovernanceSafe, PTL DEF Gov!Spec

-----------------------------------------------------------------------------
(* Point in time: a table has a latest record of every key that was out,    *)
(* later tables begin with the earlier ones, and an entry of the cache is   *)
(* what its own release says.                                               *)

\* Precedence is a strict order in which records may be level.
LEMMA ExceedsIsAnOrder ==
    ASSUME NEW a \in Pit!Record, NEW b \in Pit!Record, NEW c \in Pit!Record
    PROVE  /\ ~Pit!Exceeds(a, a)
           /\ Pit!Exceeds(a, b) => ~Pit!Exceeds(b, a)
           /\ Pit!Exceeds(a, b) /\ ~Pit!Exceeds(c, b) => Pit!Exceeds(a, c)
  <1>1. \A r \in {a, b, c} : /\ r.available \in Int /\ r.revision \in Int
                             /\ r.ingested \in Int /\ r.id \in Int
    BY DEF Pit!Record
  <1> QED
    BY <1>1 DEF Pit!Exceeds

\* i is the first of the places in part whose records none exceeds.
Foremost(table, part, i) ==
    /\ i \in part
    /\ \A j \in part : /\ ~Pit!Exceeds(table[j], table[i])
                       /\ j < i => Pit!Exceeds(table[i], table[j])

Upto(part, m) == {i \in part : i <= m}

LEMMA UptoGrows ==
    ASSUME NEW n \in Nat, NEW part \in SUBSET (1..n), NEW m \in Nat
    PROVE  /\ Upto(part, 0) = {} /\ Upto(part, n) = part
           /\ Upto(part, m) \subseteq part
           /\ Upto(part, m + 1) = IF m + 1 \in part THEN Upto(part, m) \cup {m + 1}
                                  ELSE Upto(part, m)
  <1>1. \A i \in part : i \in Int /\ 1 <= i /\ i <= n
    OBVIOUS
  <1>2. Upto(part, 0) = {}
    <2>1. \A i \in part : ~(i <= 0)
      BY <1>1
    <2> QED
      BY <2>1, Zenon DEF Upto
  <1>3. Upto(part, n) = part
    BY <1>1 DEF Upto
  <1>4. CASE m + 1 \in part
    <2>1. \A i \in part : i <= m + 1 <=> i <= m \/ i = m + 1
      BY <1>1
    <2> QED
      BY <1>2, <1>3, <1>4, <2>1 DEF Upto
  <1>5. CASE m + 1 \notin part
    <2>1. \A i \in part : i <= m + 1 <=> i <= m
      BY <1>1, <1>5
    <2> QED
      BY <1>2, <1>3, <1>5, <2>1 DEF Upto
  <1> QED
    BY <1>4, <1>5

LEMMA ForemostExists ==
    ASSUME NEW table, NEW n \in Nat, \A i \in 1..n : table[i] \in Pit!Record,
           NEW part \in SUBSET (1..n), part # {}
    PROVE  \E i : Foremost(table, part, i)
  <1> DEFINE Done(m) == Upto(part, m) = {} \/ \E i : Foremost(table, Upto(part, m), i)
             done == {m \in Nat : Done(m)}
  <1>1. 0 \in done
    BY UptoGrows
  <1>2. ASSUME NEW m \in Nat, m \in done
        PROVE  m + 1 \in done
    <2>1. Done(m)
      BY <1>2
    <2>2. CASE m + 1 \notin part
      <3>1. Upto(part, m + 1) = Upto(part, m)
        <4>1. Upto(part, m + 1) = IF m + 1 \in part THEN Upto(part, m) \cup {m + 1}
                                 ELSE Upto(part, m)
          BY UptoGrows
        <4> QED
          BY <2>2, <4>1, Zenon
      <3>2. Done(m + 1)
        BY <2>1, <3>1
      <3> QED
        BY <3>2
    <2>3. CASE m + 1 \in part
      <3>1. Upto(part, m + 1) = Upto(part, m) \cup {m + 1}
        BY <2>3, UptoGrows
      <3>2. CASE Upto(part, m) = {}
        <4>1. table[m + 1] \in Pit!Record /\ Upto(part, m + 1) = {m + 1}
          BY <2>3, <3>1, <3>2
        <4>2. Foremost(table, Upto(part, m + 1), m + 1)
          BY <4>1, ExceedsIsAnOrder DEF Foremost
        <4> QED
          BY <4>2
      <3>3. CASE \E i : Foremost(table, Upto(part, m), i)
        <4> PICK i : Foremost(table, Upto(part, m), i)
          BY <3>3
        <4>1. /\ i \in part /\ i <= m /\ i \in Int
              /\ \A j \in Upto(part, m) : j \in 1..n /\ j < m + 1 /\ table[j] \in Pit!Record
              /\ table[i] \in Pit!Record /\ table[m + 1] \in Pit!Record
              /\ ~(m + 1 < i) /\ ~(m + 1 < m + 1)
          BY <2>3 DEF Foremost, Upto
        <4>2. CASE Pit!Exceeds(table[m + 1], table[i])
          <5>1. \A j \in Upto(part, m) : Pit!Exceeds(table[m + 1], table[j])
            BY <4>1, <4>2, ExceedsIsAnOrder DEF Foremost
          <5>2. \A j \in Upto(part, m) : ~Pit!Exceeds(table[j], table[m + 1])
            BY <4>1, <5>1, ExceedsIsAnOrder
          <5>3. ~Pit!Exceeds(table[m + 1], table[m + 1])
            BY <4>1, ExceedsIsAnOrder
          <5>4. Foremost(table, Upto(part, m + 1), m + 1)
            BY <3>1, <4>1, <5>1, <5>2, <5>3 DEF Foremost
          <5> QED
            BY <5>4
        <4>3. CASE ~Pit!Exceeds(table[m + 1], table[i])
          <5>1. Foremost(table, Upto(part, m + 1), i)
            BY <3>1, <4>1, <4>3 DEF Foremost
          <5> QED
            BY <5>1
        <4> QED
          BY <4>2, <4>3
      <3> QED
        BY <2>1, <3>2, <3>3
    <2> QED
      BY <2>2, <2>3
  <1>3. n \in done
    <2> HIDE DEF done
    <2> QED
      BY <1>1, <1>2, SetInduction
  <1>4. Upto(part, n) = part
    BY UptoGrows
  <1> QED
    BY <1>3, <1>4

\* The records of a key that were out.
Out(table, key, asof) == {i \in Pit!RecordsAsof(table, asof) : table[i].key = key}

\* Latest returns one of them, and none of them exceeds it.
LEMMA LatestIsForemost ==
    ASSUME NEW table \in Seq(Pit!Record), NEW key, NEW asof, Out(table, key, asof) # {}
    PROVE  \E i \in Out(table, key, asof) :
              /\ Pit!Latest(table, key, asof) = table[i]
              /\ \A j \in Out(table, key, asof) : ~Pit!Exceeds(table[j], table[i])
  <1> DEFINE of == Out(table, key, asof)
             best == {i \in of : \A j \in of : ~Pit!Exceeds(table[j], table[i])}
             least == CHOOSE i \in best : \A j \in best : i <= j
  <1>1. /\ Len(table) \in Nat /\ DOMAIN table = 1..Len(table)
        /\ \A i \in 1..Len(table) : table[i] \in Pit!Record
    BY LenProperties, ElementOfSeq
  <1>2. of \in SUBSET (1..Len(table))
    BY <1>1 DEF Out, Pit!RecordsAsof
  <1>3. PICK i : Foremost(table, of, i)
    BY <1>1, <1>2, ForemostExists
  <1>4. i \in best /\ \A j \in best : i <= j
    <2>1. i \in best
      BY <1>3 DEF Foremost
    <2>2. \A j \in of : j \in Int
      BY <1>2
    <2> QED
      BY <1>3, <2>1, <2>2 DEF Foremost
  <1>5. least \in best
    BY <1>4
  <1>6. Pit!Latest(table, key, asof) = table[least]
    BY DEF Pit!Latest, Out
  <1> QED
    BY <1>5, <1>6

-----------------------------------------------------------------------------

\* table begins with early.
Begins(early, table) ==
    Len(early) <= Len(table) /\ \A i \in 1..Len(early) : table[i] = early[i]

PointInTimeInv ==
    /\ today \in Nat
    /\ arrived \in Seq(Pit!Record) /\ releases \in Seq(Seq(Pit!Record))
    /\ \A n \in 1..Len(releases) : Begins(releases[n], arrived)
    /\ \A m, n \in 1..Len(releases) : m <= n => Begins(releases[m], releases[n])
    /\ \A e \in cache : \E n \in 1..Len(releases), d \in Int :
          e.key = Pit!CacheKey(d, n) /\ e.values = Pit!Values(releases[n], d)

LEMMA PointInTimeInit == Pit!Init => PointInTimeInv
  BY StandaloneAssumption DEF Pit!Init, PointInTimeInv, Pit!PointInTimeAssumption

LEMMA BeginsExtended ==
    ASSUME NEW early \in Seq(Pit!Record), NEW table \in Seq(Pit!Record), NEW r \in Pit!Record,
           Begins(early, table)
    PROVE  Begins(early, Append(table, r))
  <1>1. /\ Len(early) \in Nat /\ Len(table) \in Nat
        /\ Len(Append(table, r)) = Len(table) + 1
        /\ \A i \in 1..Len(table) : Append(table, r)[i] = table[i]
    BY LenProperties, AppendProperties
  <1> QED
    BY <1>1 DEF Begins

LEMMA IngestPreserves ==
    ASSUME PointInTimeInv, NEW item \in Items, Pit!Ingest(item)
    PROVE  PointInTimeInv'
  <1> DEFINE r == Pit!Ingested(item)
  <1>1. arrived' = Append(arrived, r) /\ UNCHANGED <<today, releases, cache>>
    BY DEF Pit!Ingest
  <1>2. r \in Pit!Record
    BY StandaloneAssumption
    DEF Pit!PointInTimeAssumption, PointInTimeInv, Pit!Ingested, Pit!Item, Pit!Record
  <1>3. /\ arrived \in Seq(Pit!Record) /\ releases \in Seq(Seq(Pit!Record))
        /\ \A n \in 1..Len(releases) : Begins(releases[n], arrived)
    BY DEF PointInTimeInv
  <1>4. arrived' \in Seq(Pit!Record)
    BY <1>1, <1>2, <1>3, AppendProperties
  <1>5. \A n \in 1..Len(releases') : Begins(releases'[n], arrived')
    <2>1. \A n \in 1..Len(releases) : releases[n] \in Seq(Pit!Record)
      BY <1>3, ElementOfSeq
    <2> QED
      BY <1>1, <1>2, <1>3, <2>1, BeginsExtended
  <1>6. \A e \in cache' : \E n \in 1..Len(releases'), d \in Int :
           e.key = Pit!CacheKey(d, n) /\ e.values = Pit!Values(releases'[n], d)
    BY <1>1 DEF PointInTimeInv
  <1> QED
    BY <1>1, <1>4, <1>5, <1>6 DEF PointInTimeInv

LEMMA ReleasePreserves ==
    ASSUME PointInTimeInv, Pit!Release
    PROVE  PointInTimeInv'
  <1> DEFINE last == Len(releases) + 1
  <1>1. releases' = Append(releases, arrived) /\ UNCHANGED <<today, arrived, cache>>
    BY DEF Pit!Release
  <1>2. /\ arrived \in Seq(Pit!Record) /\ releases \in Seq(Seq(Pit!Record))
        /\ \A n \in 1..Len(releases) : Begins(releases[n], arrived)
        /\ \A m, n \in 1..Len(releases) : m <= n => Begins(releases[m], releases[n])
    BY DEF PointInTimeInv
  <1>3. /\ releases' \in Seq(Seq(Pit!Record)) /\ Len(releases) \in Nat
        /\ Len(releases') = last /\ releases'[last] = arrived
        /\ \A n \in 1..Len(releases) : releases'[n] = releases[n]
    BY <1>1, <1>2, AppendProperties, LenProperties
  <1>4. Begins(arrived, arrived)
    BY <1>2, LenProperties DEF Begins
  <1>5. \A n \in 1..last : n = last \/ n \in 1..Len(releases)
    BY <1>3
  <1>6. \A n \in 1..Len(releases') : Begins(releases'[n], arrived')
    BY <1>1, <1>2, <1>3, <1>4, <1>5
  <1>7. \A m, n \in 1..Len(releases') : m <= n => Begins(releases'[m], releases'[n])
    <2> SUFFICES ASSUME NEW m \in 1..last, NEW n \in 1..last, m <= n
                 PROVE  Begins(releases'[m], releases'[n])
      BY <1>3
    <2>1. CASE n = last
      BY <1>2, <1>3, <1>4, <1>5, <2>1
    <2>2. CASE n \in 1..Len(releases)
      <3>1. m \in 1..Len(releases)
        BY <1>3, <2>2
      <3> QED
        BY <1>2, <1>3, <2>2, <3>1
    <2> QED
      BY <1>5, <2>1, <2>2
  <1>8. \A e \in cache' : \E n \in 1..Len(releases'), d \in Int :
           e.key = Pit!CacheKey(d, n) /\ e.values = Pit!Values(releases'[n], d)
    <2> SUFFICES ASSUME NEW e \in cache
                 PROVE  \E n \in 1..Len(releases'), d \in Int :
                           e.key = Pit!CacheKey(d, n) /\ e.values = Pit!Values(releases'[n], d)
      BY <1>1
    <2> PICK n \in 1..Len(releases), d \in Int :
                e.key = Pit!CacheKey(d, n) /\ e.values = Pit!Values(releases[n], d)
      BY DEF PointInTimeInv
    <2>1. n \in 1..Len(releases') /\ releases'[n] = releases[n]
      BY <1>3
    <2> QED
      BY <2>1
  <1> QED
    BY <1>1, <1>3, <1>6, <1>7, <1>8 DEF PointInTimeInv

LEMMA ComputePreserves ==
    ASSUME PointInTimeInv, NEW n \in DOMAIN releases, NEW until \in Int,
           Pit!Compute(FirstDay..until, n)
    PROVE  PointInTimeInv'
  <1> DEFINE missing == Pit!MissingDates(FirstDay..until, n)
             entries == {[key |-> Pit!CacheKey(d, n), values |-> Pit!Values(releases[n], d)]
                         : d \in missing}
  <1>1. cache' = cache \cup entries /\ UNCHANGED <<today, arrived, releases>>
    BY DEF Pit!Compute, Pit!Put
  <1>2. n \in 1..Len(releases)
    BY LenProperties DEF PointInTimeInv
  <1>3. \A d \in missing : d \in Int
    BY StandaloneAssumption DEF Pit!MissingDates, Pit!PointInTimeAssumption
  <1>4. \A e \in entries : \E m \in 1..Len(releases), d \in Int :
           e.key = Pit!CacheKey(d, m) /\ e.values = Pit!Values(releases[m], d)
    BY <1>2, <1>3
  <1> QED
    BY <1>1, <1>4 DEF PointInTimeInv

LEMMA PointInTimeStep == PointInTimeInv /\ [Pit!Next]_Pit!vars => PointInTimeInv'
  <1> SUFFICES ASSUME PointInTimeInv, [Pit!Next]_Pit!vars
               PROVE  PointInTimeInv'
    OBVIOUS
  <1>0. ASSUME UNCHANGED <<arrived, releases, cache>>, today' \in Nat
        PROVE  PointInTimeInv'
    <2>1. arrived' \in Seq(Pit!Record) /\ releases' \in Seq(Seq(Pit!Record))
      BY <1>0 DEF PointInTimeInv
    <2>2. /\ \A n \in 1..Len(releases') : Begins(releases'[n], arrived')
          /\ \A m, n \in 1..Len(releases') : m <= n => Begins(releases'[m], releases'[n])
      BY <1>0 DEF PointInTimeInv
    <2>3. \A e \in cache' : \E n \in 1..Len(releases'), d \in Int :
             e.key = Pit!CacheKey(d, n) /\ e.values = Pit!Values(releases'[n], d)
      BY <1>0 DEF PointInTimeInv
    <2> QED
      BY <1>0, <2>1, <2>2, <2>3 DEF PointInTimeInv, Begins
  <1>1. CASE Pit!Tick
    <2>1. UNCHANGED <<arrived, releases, cache>> /\ today' \in Nat
      BY <1>1 DEF Pit!Tick, PointInTimeInv
    <2> QED
      BY <1>0, <2>1
  <1>2. CASE UNCHANGED Pit!vars
    <2>1. UNCHANGED <<today, arrived, releases, cache>> /\ today \in Nat
      BY <1>2 DEF Pit!vars, PointInTimeInv
    <2> QED
      BY <1>0, <2>1
  <1>3. CASE \E release_ \in DOMAIN releases, until \in FirstDay..today :
                Pit!Compute(FirstDay..until, release_)
    BY <1>3, ComputePreserves
  <1> QED
    BY <1>1, <1>2, <1>3, IngestPreserves, ReleasePreserves DEF Pit!Next

\* Whatever comes in later, a question about a day is answered by a later release
\* with a record that was out, and with none older than an earlier release's.
THEOREM OnlyRevised == Pit!Spec => []LaterReleasesOnlyRevise
  <1>1. PointInTimeInv => LaterReleasesOnlyRevise
    <2> SUFFICES ASSUME PointInTimeInv,
                        NEW m \in DOMAIN releases, NEW n \in DOMAIN releases, m <= n,
                        NEW asof \in Pit!Days,
                        NEW key \in Pit!KeysAsof(releases[m], asof)
                 PROVE  LET before == Pit!Latest(releases[m], key, asof)
                            after == Pit!Latest(releases[n], key, asof)
                        IN  /\ after # NoRecord /\ after.available <= asof
                            /\ ~Pit!Older(after, before)
      BY DEF LaterReleasesOnlyRevise, Pit!LaterReleasesOnlyRevise
    <2> DEFINE t == releases[m]
               u == releases[n]
    <2>1. /\ t \in Seq(Pit!Record) /\ u \in Seq(Pit!Record) /\ Begins(t, u)
      BY ElementOfSeq, LenProperties DEF PointInTimeInv
    <2>2. /\ Len(t) \in Nat /\ DOMAIN t = 1..Len(t)
          /\ Len(u) \in Nat /\ DOMAIN u = 1..Len(u)
          /\ \A i \in DOMAIN t : i \in DOMAIN u /\ u[i] = t[i]
      BY <2>1, LenProperties DEF Begins
    <2> HIDE DEF t, u
    <2>3. Out(t, key, asof) # {}
      BY DEF Out, Pit!KeysAsof, t
    <2>4. PICK i \in Out(t, key, asof) : Pit!Latest(t, key, asof) = t[i]
      BY <2>1, <2>3, LatestIsForemost
    <2>5. Out(t, key, asof) \subseteq Out(u, key, asof)
      BY <2>2 DEF Out, Pit!RecordsAsof
    <2>6. PICK j \in Out(u, key, asof) :
             /\ Pit!Latest(u, key, asof) = u[j]
             /\ \A k \in Out(u, key, asof) : ~Pit!Exceeds(u[k], u[j])
      BY <2>1, <2>3, <2>5, LatestIsForemost
    <2>7. /\ j \in DOMAIN u /\ u[j] \in Pit!Record /\ u[j].available <= asof
      BY <2>1, <2>2, ElementOfSeq DEF Out, Pit!RecordsAsof
    <2>8. u[j] # NoRecord
      BY <2>7, StandaloneAssumption DEF Pit!PointInTimeAssumption
    <2>9. u[i] = t[i] /\ ~Pit!Exceeds(t[i], u[j]) /\ t[i] \in Pit!Record
      BY <2>1, <2>2, <2>5, <2>6, ElementOfSeq DEF Out, Pit!RecordsAsof
    <2>10. ~Pit!Older(u[j], t[i])
      BY <2>7, <2>9 DEF Pit!Older, Pit!Exceeds, Pit!Record
    <2> QED
      BY <2>4, <2>6, <2>7, <2>8, <2>10 DEF t, u
  <1> QED
    BY PointInTimeInit, PointInTimeStep, <1>1, PTL DEF Pit!Spec

\* A release's values in the cache are those its own table says were known.
THEOREM CacheTrue == Pit!Spec => []CacheHoldsWhatWasKnown
  <1>1. PointInTimeInv => CacheHoldsWhatWasKnown
    <2> SUFFICES ASSUME PointInTimeInv, NEW n \in DOMAIN releases, NEW d \in Pit!Days,
                        NEW e \in cache, e.key = Pit!CacheKey(d, n)
                 PROVE  e.values = Pit!Values(releases[n], d)
      BY DEF CacheHoldsWhatWasKnown, Pit!CacheHoldsWhatWasKnown, Pit!Cached
    <2> PICK m \in 1..Len(releases), c \in Int :
                e.key = Pit!CacheKey(c, m) /\ e.values = Pit!Values(releases[m], c)
      BY DEF PointInTimeInv
    <2>1. m = n /\ c = d
      BY DEF Pit!CacheKey
    <2> QED
      BY <2>1
  <1> QED
    BY PointInTimeInit, PointInTimeStep, <1>1, PTL DEF Pit!Spec

-----------------------------------------------------------------------------
(* Backtest: the ledger is the sum of its fills, each at an open after the  *)
(* order's submission, and nothing the matcher offers is refused.           *)

LEMMA QuotientBelow ==
    ASSUME NEW a \in Int, NEW d \in Nat \ {0}, NEW q \in Int, q <= a \div d
    PROVE  q * d <= a
  <1>1. (a \div d) \in Int /\ d * (a \div d) <= a
    OBVIOUS
  <1>2. ((a \div d) - q) \in Nat /\ d \in Nat
    BY <1>1
  <1>3. ((a \div d) - q) * d >= 0
    BY <1>2
  <1>4. ((a \div d) - q) * d = d * (a \div d) - q * d
    BY <1>1
  <1>5. q * d \in Int /\ d * (a \div d) \in Int
    BY <1>1
  <1> QED
    BY <1>1, <1>3, <1>4, <1>5

LEMMA QuotientSign ==
    ASSUME NEW a \in Int, NEW d \in Nat \ {0}
    PROVE  /\ (a \div d) \in Int
           /\ a >= 0 => (a \div d) >= 0
           /\ a >= 0 => (a \div d) * d >= 0
           /\ (a \div d) < 0 => a < 0
  <1>1. (a \div d) \in Int /\ a < d * (a \div d) + d /\ d * (a \div d) <= a
    OBVIOUS
  <1>2. ASSUME a >= 0 PROVE (a \div d) >= 0
    <2>1. SUFFICES ASSUME (a \div d) + 1 <= 0 PROVE FALSE
      BY <1>1
    <2>2. (0 - ((a \div d) + 1)) \in Nat /\ d \in Nat
      BY <1>1, <2>1
    <2>3. (0 - ((a \div d) + 1)) * d >= 0
      BY <2>2
    <2>4. (0 - ((a \div d) + 1)) * d = 0 - (d * (a \div d) + d)
      BY <1>1
    <2>5. d * (a \div d) \in Int
      BY <1>1
    <2> QED
      BY <1>1, <1>2, <2>3, <2>4, <2>5
  <1>3. ASSUME a >= 0 PROVE (a \div d) * d >= 0
    BY <1>1, <1>2, <1>3
  <1> QED
    BY <1>1, <1>2, <1>3

LEMMA LotsBelow ==
    ASSUME NEW q \in Nat
    PROVE  Test!Lots(q) \in Nat /\ Test!Lots(q) <= q
  <1>1. BoardLot \in Nat \ {0}
    BY StandaloneAssumption DEF Test!MatchingAssumption
  <1>2. /\ (q \div BoardLot) \in Int /\ (q \div BoardLot) * BoardLot >= 0
        /\ (q \div BoardLot) * BoardLot <= q /\ (q \div BoardLot) * BoardLot \in Int
    BY <1>1, QuotientSign, QuotientBelow
  <1> QED
    BY <1>2 DEF Test!Lots

\* A set of numbers up to n has 0 or one of its own members above all the others.
LEMMA LargestExists ==
    ASSUME NEW n \in Nat, NEW S \in SUBSET (0..n)
    PROVE  \E k \in S \cup {0} : \A m \in S : m <= k
  <1> DEFINE Has(j) == \A R \in SUBSET (0..j) : \E k \in R \cup {0} : \A m \in R : m <= k
             good == {j \in Nat : Has(j)}
  <1>1. 0 \in good
    OBVIOUS
  <1>2. ASSUME NEW j \in Nat, j \in good
        PROVE  j + 1 \in good
    <2>1. SUFFICES ASSUME NEW R \in SUBSET (0..(j + 1))
                   PROVE  \E k \in R \cup {0} : \A m \in R : m <= k
      OBVIOUS
    <2>2. CASE j + 1 \in R
      BY <2>1, <2>2
    <2>3. CASE j + 1 \notin R
      <3>1. R \in SUBSET (0..j)
        BY <2>1, <2>3
      <3> QED
        BY <1>2, <3>1
    <2> QED
      BY <2>2, <2>3
  <1>3. n \in good
    <2> HIDE DEF good
    <2> QED
      BY <1>1, <1>2, SetInduction
  <1> QED
    BY <1>3

Sides == {"BUY", "SELL"}
BarStatuses == {"normal", "suspended", "limit_up", "limit_down", "unknown"}
Active == {"OPEN", "PARTIALLY_FILLED"}
BookOrder == [symbol : Instruments, side : Sides, quantity : Nat, submitted : Int,
              filled : Nat, status : Active \cup {"FILLED"}]
Bar == [open : Nat, volume : Nat, status : BarStatuses]
BookedFill == [order : Nat \ {0}, symbol : Instruments, side : Sides, quantity : Nat,
               price : Int, fee : Int, at : Int]

\* What is offered for an order with a remainder, at a bar, to a holder of cash.
Offer(fill, order, maximum, money) ==
    /\ fill.quantity \in Nat /\ fill.price \in Int /\ fill.fee \in Int
    /\ Test!Money(fill.price, fill.quantity) \in Int
    /\ fill.quantity <= order.quantity - order.filled
    /\ fill.quantity # 0 =>
          /\ fill.quantity <= maximum
          /\ order.side = "BUY" => Test!Money(fill.price, fill.quantity) + fill.fee <= money

LEMMA AllowedIsBounded ==
    ASSUME NEW order \in BookOrder, NEW bar \in Bar, NEW maximum \in Nat,
           order.filled <= order.quantity
    PROVE  LET allowed == Test!Allowed(order, bar, maximum) IN
           /\ allowed \in Nat /\ allowed <= maximum
           /\ allowed <= order.quantity - order.filled
  <1> DEFINE volume == (bar.volume * Participation) \div Base
             least == Test!Least(Test!Least(order.quantity - order.filled, maximum), volume)
  <1>1. /\ bar.volume \in Nat /\ Participation \in Nat /\ Base \in Nat \ {0}
        /\ order.quantity - order.filled \in Nat
    BY StandaloneAssumption DEF Test!MatchingAssumption, BookOrder, Bar
  <1>2. bar.volume * Participation \in Nat
    BY <1>1
  <1>3. volume \in Nat
    BY <1>1, <1>2, QuotientSign
  <1>4. /\ least \in Nat /\ least <= maximum /\ least <= order.quantity - order.filled
    <2> HIDE DEF volume
    <2> QED
      BY <1>1, <1>3 DEF Test!Least
  <1>5. Test!Allowed(order, bar, maximum) = Test!Lots(least)
    BY DEF Test!Allowed
  <1> HIDE DEF least
  <1> QED
    BY <1>1, <1>4, <1>5, LotsBelow

LEMMA MoneyIsInteger ==
    ASSUME NEW bar \in Bar, NEW side \in Sides, NEW quantity \in Nat
    PROVE  /\ Test!ExecutionPrice(side, bar) \in Int
           /\ Test!Money(Test!ExecutionPrice(side, bar), quantity) \in Int
           /\ Test!Fee(side, Test!ExecutionPrice(side, bar), quantity) \in Int
  <1> DEFINE price == Test!ExecutionPrice(side, bar)
  <1>1. /\ bar.open \in Int /\ Base \in Int /\ Slippage \in Int /\ CommissionRate \in Int
        /\ MinimumCommission \in Int /\ StampDutyRate \in Int /\ TransferFeeRate \in Int
    BY StandaloneAssumption DEF Test!MatchingAssumption, Bar
  <1>2. price \in Int
    BY <1>1 DEF Test!ExecutionPrice
  <1> HIDE DEF price
  <1>3. price * quantity \in Int
    BY <1>2
  <1>4. Test!Money(price, quantity) \in Int
    BY <1>1, <1>3 DEF Test!Money
  <1>5. /\ price * quantity * CommissionRate \in Int /\ MinimumCommission * Base * Base \in Int
        /\ price * quantity * StampDutyRate \in Int /\ price * quantity * TransferFeeRate \in Int
    BY <1>1, <1>3
  <1>6. Test!Fee(side, price, quantity) \in Int
    BY <1>5 DEF Test!Fee, Test!Greatest
  <1> QED
    BY <1>2, <1>4, <1>6 DEF price

LEMMA NothingOffered ==
    ASSUME NEW order \in BookOrder, NEW maximum, NEW money, order.filled <= order.quantity
    PROVE  Offer(Test!NoFill, order, maximum, money)
  BY StandaloneAssumption
  DEF Offer, Test!NoFill, Test!Money, Test!MatchingAssumption, BookOrder

\* Whole lots, what was traded and what the fees leave: never more than there is.
LEMMA AshareOffer ==
    ASSUME NEW order \in BookOrder, NEW bar \in Bar, NEW maximum \in Int, NEW money \in Int,
           order.filled <= order.quantity,
           maximum >= 0 \/ Test!Blocked(order.side, bar.status)
    PROVE  Offer(Test!Ashare(order, bar, maximum, money), order, maximum, money)
  <1> DEFINE price == Test!ExecutionPrice(order.side, bar)
             allowed == Test!Allowed(order, bar, maximum)
             affordable == Test!Affordable(allowed, price, money)
             largest == CHOOSE n \in affordable \cup {0} : \A m \in affordable : m <= n
             quantity == IF order.side = "SELL" THEN allowed ELSE largest
             fill == Test!Ashare(order, bar, maximum, money)
  <1>1. CASE Test!Blocked(order.side, bar.status) \/ quantity = 0
    <2>1. fill = Test!NoFill
      BY <1>1 DEF Test!Ashare
    <2> QED
      BY <2>1, NothingOffered
  <1>2. CASE ~Test!Blocked(order.side, bar.status) /\ quantity # 0
    <2>1. maximum \in Nat
      BY <1>2
    <2>2. /\ allowed \in Nat /\ allowed <= maximum
          /\ allowed <= order.quantity - order.filled
      BY <2>1, AllowedIsBounded
    <2>3. affordable \in SUBSET (0..allowed)
      BY DEF Test!Affordable
    <2>4. \E k \in affordable \cup {0} : \A m \in affordable : m <= k
      <3> HIDE DEF affordable, allowed
      <3> QED
        BY <2>2, <2>3, LargestExists
    <2>5. largest \in affordable \cup {0}
      <3> HIDE DEF affordable
      <3> QED
        BY <2>4
    <2>6. /\ quantity \in 0..allowed
          /\ order.side = "BUY" => quantity \in affordable
      <3> HIDE DEF allowed, affordable, largest
      <3> QED
        BY <1>2, <2>2, <2>3, <2>5
    <2>7. fill = [quantity |-> quantity, price |-> price,
                  fee |-> Test!Fee(order.side, price, quantity)]
      BY <1>2 DEF Test!Ashare
    <2>8. order.side = "BUY" =>
             Test!Money(price, quantity) + Test!Fee("BUY", price, quantity) <= money
      <3> HIDE DEF quantity
      <3> QED
        BY <2>6 DEF Test!Affordable
    <2>9. order.side \in Sides
      BY DEF BookOrder
    <2>10. /\ quantity \in Nat /\ quantity <= maximum
           /\ quantity <= order.quantity - order.filled
      <3> HIDE DEF allowed, quantity
      <3> QED
        BY <2>1, <2>2, <2>6 DEF BookOrder
    <2>11. /\ price \in Int /\ Test!Money(price, quantity) \in Int
           /\ Test!Fee(order.side, price, quantity) \in Int
      <3> HIDE DEF quantity
      <3> QED
        BY <2>9, <2>10, MoneyIsInteger
    <2>12. Offer(fill, order, maximum, money)
      <3> HIDE DEF price, quantity, fill
      <3>1. /\ fill.quantity = quantity /\ fill.price = price
            /\ fill.fee = Test!Fee(order.side, price, quantity)
        BY <2>7
      <3> QED
        BY <2>8, <2>10, <2>11, <3>1 DEF Offer
    <2> QED
      BY <2>12
  <1> QED
    BY <1>1, <1>2

LEMMA NextOpenOffer ==
    ASSUME NEW order \in BookOrder, NEW bar \in Bar, NEW maximum \in Nat, NEW money \in Int,
           order.filled <= order.quantity, bar.open # 0,
           order.side = "BUY" => maximum <= money \div (bar.open * Base * Base)
    PROVE  Offer(Test!NextOpen(order, bar, maximum), order, maximum, money)
  <1> DEFINE fill == Test!NextOpen(order, bar, maximum)
  <1>1. /\ bar.open \in Nat \ {0} /\ Base \in Nat \ {0} /\ order.quantity - order.filled \in Nat
    BY StandaloneAssumption DEF Test!MatchingAssumption, BookOrder, Bar
  <1>2. /\ fill.quantity \in Nat /\ fill.quantity <= maximum
        /\ fill.quantity <= order.quantity - order.filled
        /\ fill.price = bar.open * Base /\ fill.fee = 0
    BY <1>1 DEF Test!NextOpen, Test!Least
  <1>3. bar.open * Base * Base \in Nat \ {0} /\ bar.open * Base \in Int
    <2>1. \A a, b \in Nat \ {0} : a * b \in Nat \ {0}
      OBVIOUS
    <2>2. bar.open * Base \in Nat \ {0}
      BY <1>1, <2>1
    <2> QED
      BY <1>1, <2>1, <2>2
  <1>4. (money \div (bar.open * Base * Base)) \in Int
    BY <1>3
  <1>5. /\ Test!Money(fill.price, fill.quantity) = fill.quantity * (bar.open * Base * Base)
        /\ Test!Money(fill.price, fill.quantity) \in Int
    <2>1. \A p, q, b \in Int : p * b * q * b = q * (p * b * b) /\ p * b * q * b \in Int
      OBVIOUS
    <2> QED
      BY <1>1, <1>2, <2>1 DEF Test!Money
  <1>6. order.side = "BUY" => Test!Money(fill.price, fill.quantity) <= money
    <2> SUFFICES ASSUME order.side = "BUY"
                 PROVE  fill.quantity * (bar.open * Base * Base) <= money
      BY <1>5
    <2>1. fill.quantity <= money \div (bar.open * Base * Base)
      BY <1>2, <1>4
    <2> QED
      BY <1>2, <1>3, <2>1, QuotientBelow
  <1>7. Offer(fill, order, maximum, money)
    <2> HIDE DEF fill
    <2>1. fill.price \in Int /\ fill.fee \in Int
      BY <1>2, <1>3
    <2>2. Test!Money(fill.price, fill.quantity) + fill.fee
          = Test!Money(fill.price, fill.quantity)
      BY <1>2, <1>5
    <2> QED
      BY <1>2, <1>5, <1>6, <2>1, <2>2 DEF Offer
  <1> QED
    BY <1>7

-----------------------------------------------------------------------------

AtOpens == {Test!OpenAt(calendar[i]) : i \in DOMAIN calendar}

BacktestTyped ==
    /\ matcher \in {"ashare", "next_open"}
    /\ calendar \in Seq(Nat)
    /\ clock \in Int
    /\ market \in [Instruments -> Bar]
    /\ \A s \in Instruments : market[s] # Test!NoBar => market[s].open # 0
    /\ orders \in Seq(BookOrder)
    /\ pending \subseteq DOMAIN orders
    /\ cash \in Int
    /\ position \in [Instruments -> Nat]
    /\ fills \in Seq(BookedFill)

\* The events left are later than the clock, one at a time, and open at opens.
QueueInv ==
    /\ \A e \in queue : /\ e.at \in Int /\ e.at > clock
                        /\ e.priority = 10 => e.at \in AtOpens
    /\ \A e, f \in queue : e.at = f.at => e = f

\* Orders not yet looked at were submitted before this open and have no fill of it.
BookInv ==
    /\ \A i \in DOMAIN orders : orders[i].submitted <= clock /\ orders[i].filled <= orders[i].quantity
    /\ \A i \in pending : /\ orders[i].submitted < clock
                          /\ orders[i].status \in Active
    /\ pending # {} => clock \in AtOpens
    /\ \A m \in DOMAIN fills :
          /\ fills[m].order \in DOMAIN orders
          /\ fills[m].at <= clock
          /\ fills[m].order \in pending => fills[m].at < clock

FillInv(m) ==
    /\ fills[m].at \in AtOpens
    /\ fills[m].at > orders[fills[m].order].submitted
    /\ \A n \in 1..(m - 1) : fills[n].order = fills[m].order => fills[n].at < fills[m].at

\* An overdrawn account was overdrawn by the fee of a sale and has only sold since.
Overdraft ==
    \E m \in DOMAIN fills :
        /\ fills[m].side = "SELL"
        /\ fills[m].fee > Test!Money(fills[m].price, fills[m].quantity)
        /\ \A n \in m..Len(fills) : fills[n].side = "SELL"

Proceeds == [n \in 1..Len(fills) |-> Test!Proceeds(fills[n])]
Gains(s) == [n \in 1..Len(fills) |-> Test!Gain(fills[n], s)]
Shares(i) == [n \in 1..Len(fills) |-> Test!Share(fills[n], i)]

Account ==
    /\ cash = InitialCash * Base * Base + SumUpTo(Proceeds, Len(fills))
    /\ \A s \in Instruments : position[s] = SumUpTo(Gains(s), Len(fills))
    /\ \A i \in DOMAIN orders : orders[i].filled = SumUpTo(Shares(i), Len(fills))

BacktestInv ==
    /\ BacktestTyped /\ QueueInv /\ BookInv
    /\ \A m \in DOMAIN fills : FillInv(m)
    /\ stage # "fill refused"
    /\ stage = "negative maximum" => cash < 0
    /\ cash < 0 => Overdraft
    /\ Account
    /\ stage = "start" => clock = -1 /\ queue = {}

LEMMA BookTypes ==
    ASSUME BacktestTyped
    PROVE  /\ Len(orders) \in Nat /\ DOMAIN orders = 1..Len(orders)
           /\ \A i \in DOMAIN orders :
                 /\ orders[i] \in BookOrder /\ orders[i].symbol \in Instruments
                 /\ orders[i].side \in Sides /\ orders[i].submitted \in Int
                 /\ orders[i].quantity \in Nat /\ orders[i].filled \in Nat
           /\ Len(fills) \in Nat /\ DOMAIN fills = 1..Len(fills)
           /\ \A m \in DOMAIN fills : /\ fills[m] \in BookedFill /\ fills[m].at \in Int
  <1>1. orders \in Seq(BookOrder) /\ fills \in Seq(BookedFill)
    BY DEF BacktestTyped
  <1>2. /\ \A i \in DOMAIN orders : orders[i] \in BookOrder
        /\ \A m \in DOMAIN fills : fills[m] \in BookedFill
        /\ Len(orders) \in Nat /\ DOMAIN orders = 1..Len(orders)
        /\ Len(fills) \in Nat /\ DOMAIN fills = 1..Len(fills)
    BY <1>1, LenProperties, ElementOfSeq
  <1> QED
    BY <1>2 DEF BookOrder, BookedFill

LEMMA BacktestInit == Test!Init => BacktestInv
  <1> SUFFICES ASSUME Test!Init PROVE BacktestInv
    OBVIOUS
  <1>1. /\ Base \in Nat /\ InitialCash \in Nat /\ Matchers \subseteq {"ashare", "next_open"}
        /\ Calendars \subseteq Seq(Nat)
    BY StandaloneAssumption DEF Test!MatchingAssumption, Test!BacktestAssumption
  <1>2. Test!NoBar \in Bar
    BY DEF Test!NoBar, Bar, BarStatuses
  <1>3. InitialCash * Base * Base \in Nat
    <2>1. \A a, b \in Nat : a * b \in Nat
      OBVIOUS
    <2> QED
      BY <1>1, <2>1
  <1>4. fills = <<>> /\ Len(fills) = 0 /\ DOMAIN fills = {} /\ orders = <<>> /\ DOMAIN orders = {}
    BY DEF Test!Init
  <1>5. cash = InitialCash * Base * Base /\ cash \in Nat
    BY <1>3 DEF Test!Init
  <1>6. BacktestTyped
    BY <1>1, <1>2, <1>4, <1>5 DEF Test!Init, BacktestTyped
  <1>7. Account
    BY <1>3, <1>4, <1>5, SumOfNone DEF Test!Init, Account
  <1> QED
    BY <1>4, <1>5, <1>6, <1>7 DEF Test!Init, BacktestInv, QueueInv, BookInv

\* Strictly increasing days never repeat, and so do the times of the events.
LEMMA ScheduleOrders ==
    ASSUME calendar \in Seq(Nat), Test!Chronological
    PROVE  /\ \A e \in Test!SessionEvents : /\ e.at \in Int /\ e.at > -1
                                            /\ e.priority = 10 => e.at \in AtOpens
           /\ \A e, f \in Test!SessionEvents : e.at = f.at => e = f
  <1> DEFINE Below(j) == \A i \in 1..Len(calendar) : i < j /\ j <= Len(calendar)
                                                        => calendar[i] < calendar[j]
             good == {j \in Nat : Below(j)}
  <1>1. /\ Len(calendar) \in Nat /\ DOMAIN calendar = 1..Len(calendar)
        /\ \A i \in 1..Len(calendar) : calendar[i] \in Nat
    BY LenProperties, ElementOfSeq
  <1>2. \A j \in Nat : j \in good
    <2>1. 0 \in good
      BY <1>1
    <2>2. ASSUME NEW j \in Nat, j \in good
          PROVE  j + 1 \in good
      <3>1. SUFFICES ASSUME NEW i \in 1..Len(calendar), i < j + 1, j + 1 <= Len(calendar)
                     PROVE  calendar[i] < calendar[j + 1]
        OBVIOUS
      <3>2. j \in 1..Len(calendar) /\ j + 1 \in 1..Len(calendar) /\ calendar[j] < calendar[j + 1]
        BY <1>1, <3>1 DEF Test!Chronological
      <3>3. i = j \/ calendar[i] < calendar[j]
        BY <1>1, <2>2, <3>1, <3>2
      <3> QED
        BY <1>1, <3>1, <3>2, <3>3
    <2> HIDE DEF good
    <2> QED
      BY <2>1, <2>2, SetInduction
  <1>3. \A i, j \in 1..Len(calendar) : calendar[i] = calendar[j] => i = j
    BY <1>1, <1>2
  <1>4. \A e \in Test!SessionEvents : \E i \in 1..Len(calendar) :
           \/ e = [at |-> 2 * calendar[i], priority |-> 10, sequence |-> 2 * i - 1]
           \/ e = [at |-> 2 * calendar[i] + 1, priority |-> 40, sequence |-> 2 * i]
    BY DEF Test!SessionEvents, Test!OpenAt, Test!CloseAt
  <1>5. ASSUME NEW e \in Test!SessionEvents
        PROVE  e.at \in Int /\ e.at > -1 /\ (e.priority = 10 => e.at \in AtOpens)
    <2> PICK i \in 1..Len(calendar) :
           \/ e = [at |-> 2 * calendar[i], priority |-> 10, sequence |-> 2 * i - 1]
           \/ e = [at |-> 2 * calendar[i] + 1, priority |-> 40, sequence |-> 2 * i]
      BY <1>4
    <2>1. Test!OpenAt(calendar[i]) \in AtOpens /\ Test!OpenAt(calendar[i]) = 2 * calendar[i]
      BY <1>1 DEF AtOpens, Test!OpenAt
    <2>2. e.at \in Int /\ e.at > -1
      BY <1>1
    <2>3. e.priority = 10 => e.at = 2 * calendar[i]
      OBVIOUS
    <2> QED
      BY <2>1, <2>2, <2>3
  <1>6. ASSUME NEW e \in Test!SessionEvents, NEW f \in Test!SessionEvents, e.at = f.at
        PROVE  e = f
    <2> PICK i \in 1..Len(calendar) :
           \/ e = [at |-> 2 * calendar[i], priority |-> 10, sequence |-> 2 * i - 1]
           \/ e = [at |-> 2 * calendar[i] + 1, priority |-> 40, sequence |-> 2 * i]
      BY <1>4
    <2> PICK j \in 1..Len(calendar) :
           \/ f = [at |-> 2 * calendar[j], priority |-> 10, sequence |-> 2 * j - 1]
           \/ f = [at |-> 2 * calendar[j] + 1, priority |-> 40, sequence |-> 2 * j]
      BY <1>4
    <2>1. calendar[i] = calendar[j]
      BY <1>1, <1>6
    <2>2. i = j
      BY <1>3, <2>1
    <2> QED
      BY <1>1, <1>6, <2>2
  <1> QED
    BY <1>5, <1>6

LEMMA SchedulePreserves ==
    ASSUME BacktestInv, Test!Schedule
    PROVE  BacktestInv'
  <1>1. /\ UNCHANGED <<matcher, calendar, clock, market, pending, orders, cash, position, fills>>
        /\ stage' \in {"loop", "bad sessions"} /\ clock = -1 /\ calendar \in Seq(Nat)
    BY DEF Test!Schedule, Test!ledger, BacktestInv, BacktestTyped
  <1>2. QueueInv'
    <2>1. CASE calendar # <<>> /\ Test!Chronological
      <3>1. queue' = Test!SessionEvents
        BY <2>1 DEF Test!Schedule
      <3>2. AtOpens' = AtOpens
        BY <1>1 DEF AtOpens
      <3> QED
        BY <1>1, <2>1, <3>1, <3>2, ScheduleOrders DEF QueueInv
    <2>2. CASE ~(calendar # <<>> /\ Test!Chronological)
      <3>1. queue' = {}
        BY <2>2 DEF Test!Schedule, BacktestInv
      <3> QED
        BY <3>1 DEF QueueInv
    <2> QED
      BY <2>1, <2>2
  <1>3. BacktestTyped' /\ BookInv' /\ (\A m \in DOMAIN fills : FillInv(m))' /\ Account'
        /\ (Overdraft' <=> Overdraft)
    BY <1>1
    DEF BacktestInv, BacktestTyped, BookInv, FillInv, Account, Overdraft, AtOpens, Proceeds,
        Gains, Shares
  <1> QED
    BY <1>1, <1>2, <1>3 DEF BacktestInv

\* The next event moves the clock forward, to an open if it is one.
LEMMA ClockAdvances ==
    ASSUME BacktestInv, NEW e \in queue, Test!Advance(e)
    PROVE  /\ pending = {} /\ stage = "loop"
           /\ clock' = e.at /\ clock' > clock /\ clock' \in Int /\ clock \in Int
           /\ e.priority = 10 => clock' \in AtOpens
           /\ calendar' = calendar => QueueInv'
  <1>1. /\ pending = {} /\ stage = "loop" /\ clock' = e.at /\ e.at > clock
        /\ e.at \in Int /\ clock \in Int /\ queue' = queue \ {e}
        /\ e.priority = 10 => e.at \in AtOpens
        /\ \A f \in queue \ {e} : Test!Before(e, f)
    BY DEF Test!Advance, Test!Pops, BacktestInv, QueueInv, BacktestTyped
  <1>2. \A f \in queue \ {e} : f.at \in Int /\ f.at # e.at /\ f.at >= e.at
    BY <1>1 DEF Test!Before, BacktestInv, QueueInv
  <1>3. ASSUME calendar' = calendar
        PROVE  QueueInv'
    <2>1. AtOpens' = AtOpens
      BY <1>3 DEF AtOpens
    <2> QED
      BY <1>1, <1>2, <2>1 DEF BacktestInv, QueueInv
  <1> QED
    BY <1>1, <1>3

LEMMA OpenPreserves ==
    ASSUME BacktestInv, NEW e \in queue, Test!OpenSession(e)
    PROVE  BacktestInv'
  <1>1. /\ UNCHANGED <<matcher, calendar, stage, orders, cash, position, fills>>
        /\ Test!Advance(e) /\ e.priority = 10 /\ market' \in Markets
        /\ pending' = Test!Eligible(e.at)
    BY DEF Test!OpenSession, Test!ledger
  <1>2. /\ stage = "loop" /\ clock' = e.at /\ clock' > clock /\ clock' \in Int
        /\ clock \in Int /\ clock' \in AtOpens /\ QueueInv' /\ AtOpens' = AtOpens
    BY <1>1, ClockAdvances DEF AtOpens
  <1>3. market' \in [Instruments -> Bar]
        /\ \A s \in Instruments : market'[s] # Test!NoBar => market'[s].open # 0
    <2>1. market' \in [Instruments -> [open : Nat \ {0}, volume : Nat, status : BarStatuses]
                                        \cup {Test!NoBar}]
      BY <1>1, StandaloneAssumption DEF Test!BacktestAssumption, BarStatuses
    <2> QED
      BY <2>1 DEF Bar, Test!NoBar, BarStatuses
  <1>4. /\ DOMAIN orders = 1..Len(orders)
        /\ \A i \in pending' : /\ i \in DOMAIN orders /\ orders[i].submitted < clock'
                               /\ orders[i].status \in Active
    BY <1>1, <1>2, LenProperties DEF Test!Eligible, Active, BacktestInv, BacktestTyped
  <1>5. BacktestTyped'
    BY <1>1, <1>2, <1>3, <1>4 DEF BacktestInv, BacktestTyped
  <1>6. BookInv'
    <2>1. \A i \in DOMAIN orders : orders[i] \in BookOrder /\ orders[i].submitted \in Int
      BY BookTypes DEF BacktestInv
    <2>2. \A m \in DOMAIN fills : fills[m].at \in Int
      BY BookTypes DEF BacktestInv
    <2> QED
      BY <1>1, <1>2, <1>4, <2>1, <2>2 DEF BacktestInv, BookInv
  <1>7. (\A m \in DOMAIN fills : FillInv(m))' /\ Account' /\ (Overdraft' <=> Overdraft)
    BY <1>1, <1>2
    DEF BacktestInv, FillInv, Account, Overdraft, Proceeds, Gains, Shares
  <1> QED
    BY <1>1, <1>2, <1>5, <1>6, <1>7 DEF BacktestInv

LEMMA FinishPreserves ==
    ASSUME BacktestInv, Test!Finish
    PROVE  BacktestInv'
  <1>1. /\ UNCHANGED <<matcher, calendar, queue, clock, market, pending, orders, cash,
                       position, fills>>
        /\ stage' = "done"
    BY DEF Test!Finish, Test!session, Test!ledger
  <1> QED
    BY <1>1
    DEF BacktestInv, BacktestTyped, QueueInv, BookInv, FillInv, Account, Overdraft, AtOpens,
        Proceeds, Gains, Shares

LEMMA ClosePreservesRun ==
    ASSUME BacktestInv, NEW e \in queue, Test!CloseSession(e)
    PROVE  BacktestInv'
  <1>1. /\ UNCHANGED <<matcher, calendar, market, pending, cash, position, fills>>
        /\ Test!Advance(e)
        /\ stage' \in {stage, "missing mark price"}
    BY DEF Test!CloseSession, Test!ledger
  <1>2. /\ pending = {} /\ stage = "loop" /\ clock' = e.at /\ clock' > clock /\ clock' \in Int
        /\ clock \in Int /\ QueueInv' /\ AtOpens' = AtOpens
    BY <1>1, ClockAdvances DEF AtOpens
  <1>3. BacktestTyped
    BY DEF BacktestInv
  <1>4. /\ orders' \in Seq(BookOrder) /\ Len(orders') \in Nat /\ Len(orders') >= Len(orders)
        /\ \A i \in DOMAIN orders : i \in DOMAIN orders' /\ orders'[i] = orders[i]
        /\ \A i \in DOMAIN orders' \ DOMAIN orders :
              /\ orders'[i].filled = 0 /\ orders'[i].submitted = clock'
              /\ orders'[i].quantity \in Nat
    <2>1. CASE orders' = orders
      BY <1>3, <2>1, BookTypes DEF BacktestTyped
    <2>2. CASE orders' # orders
      <3> PICK n \in 0..(MaxOrders - Len(orders)) :
               \E asked \in [1..n -> Requests] :
                   orders' = orders \o [k \in 1..n |-> Test!Submit(asked[k], e.at)]
        BY <2>2 DEF Test!CloseSession
      <3>1. PICK asked \in [1..n -> Requests] :
                orders' = orders \o [k \in 1..n |-> Test!Submit(asked[k], e.at)]
        OBVIOUS
      <3> DEFINE new == [k \in 1..n |-> Test!Submit(asked[k], e.at)]
      <3>2. n \in Nat
        OBVIOUS
      <3>3. \A k \in 1..n : /\ new[k] \in BookOrder /\ new[k].filled = 0
                            /\ new[k].submitted = clock' /\ new[k].quantity \in Nat
        <4>1. \A k \in 1..n : asked[k] \in [symbol : Instruments, side : Sides,
                                            quantity : Nat \ {0}]
          BY StandaloneAssumption DEF Test!BacktestAssumption, Sides
        <4> QED
          BY <1>2, <4>1 DEF Test!Submit, BookOrder, Active
      <3>4. new \in Seq(BookOrder) /\ Len(new) = n
        <4>1. new \in [1..n -> BookOrder]
          BY <3>3
        <4> HIDE DEF new
        <4> QED
          BY <3>2, <4>1
      <3>5. /\ orders' \in Seq(BookOrder) /\ Len(orders') = Len(orders) + n
            /\ \A i \in 1..(Len(orders) + n) :
                  orders'[i] = IF i <= Len(orders) THEN orders[i] ELSE new[i - Len(orders)]
        <4> HIDE DEF new
        <4> QED
          BY <1>3, <3>1, <3>4, ConcatProperties DEF BacktestTyped, new
      <3>6. DOMAIN orders' = 1..(Len(orders) + n) /\ DOMAIN orders = 1..Len(orders)
            /\ Len(orders) \in Nat
        BY <1>3, <3>5, LenProperties, BookTypes
      <3>7. \A i \in DOMAIN orders : i \in DOMAIN orders' /\ orders'[i] = orders[i]
        <4> HIDE DEF new
        <4> QED
          BY <3>2, <3>5, <3>6
      <3>8. \A i \in DOMAIN orders' \ DOMAIN orders :
               /\ orders'[i].filled = 0 /\ orders'[i].submitted = clock'
               /\ orders'[i].quantity \in Nat
        <4> HIDE DEF new
        <4>1. SUFFICES ASSUME NEW i \in DOMAIN orders' \ DOMAIN orders
                       PROVE  /\ orders'[i].filled = 0 /\ orders'[i].submitted = clock'
                              /\ orders'[i].quantity \in Nat
          OBVIOUS
        <4>2. i \in 1..(Len(orders) + n) /\ ~(i <= Len(orders)) /\ i - Len(orders) \in 1..n
          BY <3>2, <3>6, <4>1
        <4>3. orders'[i] = new[i - Len(orders)]
          BY <3>5, <4>2
        <4> QED
          BY <3>3, <4>2, <4>3
      <3>9. orders' \in Seq(BookOrder) /\ Len(orders') \in Nat /\ Len(orders') >= Len(orders)
        BY <3>2, <3>5, <3>6
      <3> QED
        BY <3>7, <3>8, <3>9, Zenon
    <2> QED
      BY <2>1, <2>2
  <1>5. BacktestTyped'
    BY <1>1, <1>2, <1>3, <1>4 DEF BacktestTyped
  <1>6. BookInv'
    <2>1. \A i \in DOMAIN orders : orders[i].submitted \in Int /\ orders[i].submitted <= clock
      BY <1>3, BookTypes DEF BacktestInv, BookInv
    <2>2. \A m \in DOMAIN fills : fills[m].at \in Int /\ fills[m].at <= clock
      BY <1>3, BookTypes DEF BacktestInv, BookInv
    <2>3. \A i \in DOMAIN orders' : orders'[i].submitted <= clock'
                                    /\ orders'[i].filled <= orders'[i].quantity
      BY <1>2, <1>4, <2>1 DEF BacktestInv, BookInv
    <2>4. \A m \in DOMAIN fills : /\ fills[m].order \in DOMAIN orders'
                                  /\ fills[m].at <= clock'
      BY <1>2, <1>4, <2>2 DEF BacktestInv, BookInv
    <2> QED
      BY <1>1, <1>2, <2>3, <2>4 DEF BookInv
  <1>7. (\A m \in DOMAIN fills : FillInv(m))' /\ (Overdraft' <=> Overdraft)
    BY <1>1, <1>2, <1>4 DEF BacktestInv, BookInv, FillInv, Overdraft
  <1>8. Account'
    <2>1. \A i \in DOMAIN orders' : orders'[i].filled = SumUpTo(Shares(i), Len(fills))
      <3>1. SUFFICES ASSUME NEW i \in DOMAIN orders' \ DOMAIN orders
                     PROVE  SumUpTo(Shares(i), Len(fills)) = 0
        BY <1>4 DEF BacktestInv, Account
      <3>2. \A n \in 1..Len(fills) : Shares(i)[n] = 0
        BY <1>3, <3>1, BookTypes DEF Shares, Test!Share, BacktestInv, BookInv
      <3> QED
        BY <1>3, <3>2, BookTypes, SumOfZeros
    <2> QED
      BY <1>1, <2>1 DEF BacktestInv, Account, Proceeds, Gains, Shares
  <1> QED
    BY <1>1, <1>2, <1>5, <1>6, <1>7, <1>8 DEF BacktestInv

-----------------------------------------------------------------------------

LEMMA MaximumIsInteger ==
    ASSUME BacktestInv, NEW i \in pending, market[orders[i].symbol] # Test!NoBar
    PROVE  /\ orders[i] \in BookOrder /\ orders[i].filled <= orders[i].quantity
           /\ market[orders[i].symbol] \in Bar /\ market[orders[i].symbol].open # 0
           /\ Test!Maximum(orders[i]) \in Int /\ cash \in Int
           /\ orders[i].side = "SELL" => /\ Test!Maximum(orders[i]) = position[orders[i].symbol]
                                         /\ Test!Maximum(orders[i]) >= 0
           /\ Test!Maximum(orders[i]) < 0 => cash < 0
           /\ orders[i].side = "BUY" =>
                 Test!Maximum(orders[i]) = cash \div (market[orders[i].symbol].open * Base * Base)
  <1> DEFINE order == orders[i]
             bar == market[orders[i].symbol]
  <1>1. /\ BacktestTyped /\ i \in DOMAIN orders /\ cash \in Int
        /\ order.filled <= order.quantity
        /\ position \in [Instruments -> Nat] /\ market \in [Instruments -> Bar]
    BY DEF BacktestInv, BacktestTyped, BookInv
  <1>2. order \in BookOrder /\ order.symbol \in Instruments /\ order.side \in Sides
    BY <1>1, BookTypes
  <1>3. bar \in Bar /\ bar.open # 0 /\ bar.open \in Nat /\ position[order.symbol] \in Nat
    BY <1>1, <1>2 DEF BacktestTyped, Bar
  <1>4. bar.open * Base * Base \in Nat \ {0}
    <2>1. \A a, b \in Nat \ {0} : a * b \in Nat \ {0}
      OBVIOUS
    <2>2. Base \in Nat \ {0}
      BY StandaloneAssumption DEF Test!MatchingAssumption
    <2>3. bar.open * Base \in Nat \ {0}
      BY <1>3, <2>1, <2>2
    <2> QED
      BY <2>1, <2>2, <2>3
  <1>5. /\ (cash \div (bar.open * Base * Base)) \in Int
        /\ (cash \div (bar.open * Base * Base)) < 0 => cash < 0
    BY <1>1, <1>4, QuotientSign
  <1>6. Test!Maximum(order) = IF order.side = "SELL" THEN position[order.symbol]
                              ELSE cash \div (bar.open * Base * Base)
    BY DEF Test!Maximum
  <1>7. order.side = "BUY" => order.side # "SELL"
    OBVIOUS
  <1> HIDE DEF order, bar
  <1>8. /\ Test!Maximum(order) \in Int
        /\ order.side = "SELL" => Test!Maximum(order) = position[order.symbol]
                                  /\ Test!Maximum(order) >= 0
        /\ Test!Maximum(order) < 0 => cash < 0
        /\ order.side = "BUY" => Test!Maximum(order) = cash \div (bar.open * Base * Base)
    BY <1>3, <1>5, <1>6, <1>7
  <1> QED
    BY <1>1, <1>2, <1>3, <1>8 DEF order, bar

LEMMA MatchedOffer ==
    ASSUME BacktestInv, NEW i \in pending, market[orders[i].symbol] # Test!NoBar,
           \/ Test!Maximum(orders[i]) >= 0
           \/ matcher = "ashare" /\ Test!Blocked(orders[i].side, market[orders[i].symbol].status)
    PROVE  Offer(Test!Matched(orders[i]), orders[i], Test!Maximum(orders[i]), cash)
  <1> DEFINE order == orders[i]
             bar == market[orders[i].symbol]
             maximum == Test!Maximum(orders[i])
  <1>1. /\ order \in BookOrder /\ order.filled <= order.quantity
        /\ bar \in Bar /\ bar.open # 0 /\ maximum \in Int /\ cash \in Int
        /\ order.side = "BUY" => maximum = cash \div (bar.open * Base * Base)
        /\ maximum >= 0 \/ (matcher = "ashare" /\ Test!Blocked(order.side, bar.status))
    BY MaximumIsInteger
  <1>2. CASE matcher = "ashare"
    <2>1. Test!Matched(order) = Test!Ashare(order, bar, maximum, cash)
      BY <1>2 DEF Test!Matched
    <2> HIDE DEF order, bar, maximum
    <2>2. Offer(Test!Ashare(order, bar, maximum, cash), order, maximum, cash)
      BY <1>1, AshareOffer
    <2> QED
      BY <2>1, <2>2 DEF order, maximum
  <1>3. CASE matcher # "ashare"
    <2>1. Test!Matched(order) = Test!NextOpen(order, bar, maximum)
      BY <1>3 DEF Test!Matched
    <2>2. maximum \in Nat
      BY <1>1, <1>3
    <2> HIDE DEF order, bar, maximum
    <2>3. order.side = "BUY" => maximum <= cash \div (bar.open * Base * Base)
      BY <1>1, <2>2
    <2>4. Offer(Test!NextOpen(order, bar, maximum), order, maximum, cash)
      BY <1>1, <2>2, <2>3, NextOpenOffer
    <2> QED
      BY <2>1, <2>4 DEF order, maximum
  <1> QED
    BY <1>2, <1>3

LEMMA NeverRefused ==
    ASSUME BacktestInv, NEW i \in pending, market[orders[i].symbol] # Test!NoBar, NEW fill,
           Offer(fill, orders[i], Test!Maximum(orders[i]), cash), fill.quantity # 0
    PROVE  ~Test!Refused(orders[i], fill)
  <1>1. /\ BacktestTyped /\ i \in DOMAIN orders
        /\ orders[i].status \in Active /\ orders[i].submitted < clock /\ clock \in Int
        /\ \A m \in DOMAIN fills : fills[m].at <= clock
    BY DEF BacktestInv, BacktestTyped, BookInv
  <1>2. orders[i].side = "SELL" => fill.quantity <= position[orders[i].symbol]
    BY MaximumIsInteger DEF Offer
  <1>3. fills # <<>> => Len(fills) \in DOMAIN fills
    BY <1>1, LenProperties, EmptySeq, BookTypes DEF BacktestTyped
  <1>4. orders[i].symbol \in Instruments /\ position[orders[i].symbol] \in Nat /\ cash \in Int
        /\ orders[i].submitted \in Int /\ orders[i].quantity \in Nat /\ orders[i].filled \in Nat
        /\ orders[i].side \in Sides
    BY <1>1, BookTypes DEF BacktestTyped
  <1>5. fills # <<>> => ~(clock < fills[Len(fills)].at)
    BY <1>1, <1>3, BookTypes
  <1>6. /\ fill.quantity \in Nat /\ fill.fee \in Int
        /\ Test!Money(fill.price, fill.quantity) \in Int
        /\ fill.quantity <= orders[i].quantity - orders[i].filled
        /\ orders[i].side = "BUY" =>
              Test!Money(fill.price, fill.quantity) + fill.fee <= cash
    BY DEF Offer
  <1>7. orders[i].status \in {"OPEN", "PARTIALLY_FILLED"}
    BY <1>1 DEF Active
  <1>8. ~(clock <= orders[i].submitted)
    BY <1>1, <1>4
  <1>9. ~(/\ orders[i].side = "BUY"
          /\ Test!Money(fill.price, fill.quantity) + fill.fee > cash)
    BY <1>4, <1>6
  <1>10. ~(orders[i].side = "SELL" /\ fill.quantity > position[orders[i].symbol])
    BY <1>2, <1>4, <1>6
  <1>11. ~(fill.quantity > orders[i].quantity - orders[i].filled)
    BY <1>4, <1>6
  <1> QED
    BY <1>5, <1>7, <1>8, <1>9, <1>10, <1>11 DEF Test!Refused

LEMMA BookedCash ==
    ASSUME BacktestInv, NEW order \in BookOrder, NEW fill, NEW booked,
           Test!Book(order, fill), fill.quantity \in Nat, fill.fee \in Int,
           Test!Money(fill.price, fill.quantity) \in Int,
           booked.side = order.side, booked.symbol = order.symbol,
           booked.quantity = fill.quantity, booked.price = fill.price, booked.fee = fill.fee,
           order.side = "SELL" => fill.quantity <= position[order.symbol],
           order.side = "BUY" => Test!Money(fill.price, fill.quantity) + fill.fee <= cash
    PROVE  /\ cash' = cash + Test!Proceeds(booked) /\ cash' \in Int
           /\ position' \in [Instruments -> Nat]
           /\ \A s \in Instruments : position'[s] = position[s] + Test!Gain(booked, s)
           /\ order.side = "BUY" => cash' >= 0
           /\ order.side = "SELL" /\ cash >= 0 /\ cash' < 0 =>
                 fill.fee > Test!Money(fill.price, fill.quantity)
  <1> DEFINE value == Test!Money(fill.price, fill.quantity)
  <1>1. /\ cash \in Int /\ position \in [Instruments -> Nat]
        /\ order.side \in Sides /\ order.symbol \in Instruments
        /\ position[order.symbol] \in Nat
    BY DEF BacktestInv, BacktestTyped, BookOrder
  <1>2. value \in Int /\ Test!Money(booked.price, booked.quantity) = value
    OBVIOUS
  <1>3. /\ cash' = cash + (IF order.side = "BUY" THEN -value ELSE value) - fill.fee
        /\ position' = [position EXCEPT ![order.symbol] =
                           IF order.side = "BUY" THEN position[order.symbol] + fill.quantity
                           ELSE position[order.symbol] - fill.quantity]
    BY DEF Test!Book
  <1>4. Test!Proceeds(booked) = (IF order.side = "BUY" THEN -value ELSE value) - fill.fee
    BY <1>2 DEF Test!Proceeds
  <1> HIDE DEF value
  <1>5. /\ cash' = cash + Test!Proceeds(booked) /\ cash' \in Int
        /\ order.side = "BUY" /\ value + fill.fee <= cash => cash' >= 0
        /\ order.side = "SELL" /\ cash >= 0 /\ cash' < 0 => fill.fee > value
    BY <1>1, <1>2, <1>3, <1>4 DEF Sides
  <1>6. /\ position' \in [Instruments -> Nat]
        /\ \A s \in Instruments : position'[s] = position[s] + Test!Gain(booked, s)
    BY <1>1, <1>3 DEF Test!Gain, Sides
  <1> QED
    BY <1>5, <1>6 DEF value

LEMMA ProceedsAreIntegers ==
    ASSUME NEW f \in BookedFill
    PROVE  Test!Proceeds(f) \in Int
  <1>1. f.price \in Int /\ f.quantity \in Int /\ f.fee \in Int /\ Base \in Int
    BY StandaloneAssumption DEF Test!MatchingAssumption, BookedFill
  <1>2. Test!Money(f.price, f.quantity) \in Int
    BY <1>1 DEF Test!Money
  <1> QED
    BY <1>1, <1>2 DEF Test!Proceeds

\* ApplyFill: the book's, the ledger's and the account's sums move together.
LEMMA AccountGrows ==
    ASSUME BacktestInv, NEW i \in DOMAIN orders, NEW booked \in BookedFill,
           fills' = Append(fills, booked), booked.order = i,
           cash' = cash + Test!Proceeds(booked),
           \A s \in Instruments : position'[s] = position[s] + Test!Gain(booked, s),
           DOMAIN orders' = DOMAIN orders,
           orders'[i].filled = orders[i].filled + booked.quantity,
           \A j \in DOMAIN orders : j # i => orders'[j].filled = orders[j].filled
    PROVE  Account'
  <1> DEFINE n == Len(fills)
  <1>0. BacktestTyped /\ fills \in Seq(BookedFill)
    BY DEF BacktestInv, BacktestTyped
  <1>1. /\ n \in Nat /\ DOMAIN fills = 1..n /\ Len(fills') = n + 1
        /\ \A k \in 1..n : fills'[k] = fills[k] /\ fills[k] \in BookedFill
        /\ fills'[n + 1] = booked
    <2>1. n \in Nat /\ DOMAIN fills = 1..n /\ \A k \in 1..n : fills[k] \in BookedFill
      BY <1>0, BookTypes
    <2>2. /\ Len(fills') = n + 1 /\ fills'[n + 1] = booked
          /\ \A k \in 1..n : fills'[k] = fills[k]
      BY <1>0, AppendProperties
    <2> QED
      BY <2>1, <2>2
  <1>2. InitialCash * Base * Base \in Int
    <2>1. Base \in Int /\ InitialCash \in Int
      BY StandaloneAssumption DEF Test!MatchingAssumption, Test!BacktestAssumption
    <2> QED
      BY <2>1
  <1>3. cash' = InitialCash * Base * Base + SumUpTo(Proceeds', n + 1)
    <2>1. /\ \A k \in 1..n : Proceeds'[k] = Proceeds[k] /\ Proceeds[k] \in Int
          /\ Proceeds'[n + 1] = Test!Proceeds(booked)
      BY <1>1, ProceedsAreIntegers DEF Proceeds
    <2>2. SumUpTo(Proceeds', n + 1) = SumUpTo(Proceeds, n) + Test!Proceeds(booked)
      BY ONLY n \in Nat, <2>1, SumExtended
    <2>3. SumUpTo(Proceeds, n) \in Int /\ Test!Proceeds(booked) \in Int
      BY <1>1, <2>1, SumIsInteger, ProceedsAreIntegers
    <2>4. cash = InitialCash * Base * Base + SumUpTo(Proceeds, n)
      BY DEF BacktestInv, Account
    <2>5. \A a, b, c \in Int : (a + b) + c = a + (b + c)
      OBVIOUS
    <2>6. cash' = (InitialCash * Base * Base + SumUpTo(Proceeds, n)) + Test!Proceeds(booked)
      BY <2>4, Zenon
    <2> HIDE DEF n
    <2> QED
      BY ONLY <1>2, <2>2, <2>3, <2>5, <2>6
  <1>4. ASSUME NEW s \in Instruments
        PROVE  position'[s] = SumUpTo(Gains(s)', n + 1)
    <2>1. /\ \A k \in 1..n : Gains(s)'[k] = Gains(s)[k]
          /\ Gains(s)'[n + 1] = Test!Gain(booked, s)
      BY <1>1 DEF Gains
    <2>2. SumUpTo(Gains(s)', n + 1) = SumUpTo(Gains(s), n) + Test!Gain(booked, s)
      BY ONLY n \in Nat, <2>1, SumExtended
    <2> QED
      BY <2>2 DEF BacktestInv, Account
  <1>5. ASSUME NEW j \in DOMAIN orders
        PROVE  orders'[j].filled = SumUpTo(Shares(j)', n + 1)
    <2>1. /\ \A k \in 1..n : Shares(j)'[k] = Shares(j)[k]
          /\ Shares(j)'[n + 1] = Test!Share(booked, j)
      BY <1>1 DEF Shares
    <2>2. SumUpTo(Shares(j)', n + 1) = SumUpTo(Shares(j), n) + Test!Share(booked, j)
      BY ONLY n \in Nat, <2>1, SumExtended
    <2>3. orders'[j].filled = orders[j].filled + Test!Share(booked, j)
      <3>1. orders[j].filled \in Nat
        BY <1>0, BookTypes
      <3> QED
        BY <3>1 DEF Test!Share
    <2> QED
      BY <2>2, <2>3 DEF BacktestInv, Account
  <1> QED
    BY <1>1, <1>3, <1>4, <1>5 DEF Account

\* A fill that no check refuses leaves everything as the invariant wants it.
LEMMA FillPreserves ==
    ASSUME BacktestInv, NEW i \in pending, stage = "loop",
           market[orders[i].symbol] # Test!NoBar, NEW fill,
           Offer(fill, orders[i], Test!Maximum(orders[i]), cash), fill.quantity # 0,
           Test!ApplyFill(i, fill), pending' = pending \ {i},
           UNCHANGED <<matcher, calendar, queue, clock, market, stage>>
    PROVE  BacktestInv'
  <1> DEFINE order == orders[i]
             booked == [order |-> i, symbol |-> order.symbol, side |-> order.side,
                        quantity |-> fill.quantity, price |-> fill.price, fee |-> fill.fee,
                        at |-> clock]
             n == Len(fills)
  <1>1. BacktestTyped /\ i \in DOMAIN orders /\ order \in BookOrder /\ i \in Nat \ {0}
        /\ order.symbol \in Instruments /\ order.side \in Sides /\ order.filled \in Nat
        /\ order.quantity \in Nat /\ order.submitted \in Int /\ cash \in Int /\ clock \in Int
    BY BookTypes DEF BacktestInv, BacktestTyped
  <1>2. /\ fill.quantity \in Nat /\ fill.price \in Int /\ fill.fee \in Int
        /\ Test!Money(fill.price, fill.quantity) \in Int
        /\ fill.quantity <= order.quantity - order.filled
        /\ order.side = "BUY" => Test!Money(fill.price, fill.quantity) + fill.fee <= cash
        /\ order.side = "SELL" => fill.quantity <= position[order.symbol]
    BY MaximumIsInteger DEF Offer
  <1>3. /\ orders' = [orders EXCEPT ![i] = Test!Filled(order, fill.quantity)]
        /\ Test!Book(order, fill) /\ fills' = Append(fills, booked)
    BY DEF Test!ApplyFill
  <1>4. booked \in BookedFill
    BY <1>1, <1>2 DEF BookedFill
  <1>5. /\ Test!Filled(order, fill.quantity) \in BookOrder
        /\ Test!Filled(order, fill.quantity).filled = order.filled + fill.quantity
        /\ Test!Filled(order, fill.quantity).submitted = order.submitted
        /\ Test!Filled(order, fill.quantity).quantity = order.quantity
    <2> DEFINE status == IF order.filled + fill.quantity = order.quantity THEN "FILLED"
                         ELSE "PARTIALLY_FILLED"
    <2> HIDE DEF order
    <2>1. Test!Filled(order, fill.quantity) =
             [symbol |-> order.symbol, side |-> order.side, quantity |-> order.quantity,
              submitted |-> order.submitted, filled |-> order.filled + fill.quantity,
              status |-> status]
      <3> DEFINE filled == order.filled + fill.quantity
                 mid == [order EXCEPT !.filled = filled]
      <3>1. mid = [symbol |-> order.symbol, side |-> order.side, quantity |-> order.quantity,
                   submitted |-> order.submitted, filled |-> filled, status |-> order.status]
        <4> HIDE DEF filled
        <4> QED
          BY <1>1 DEF BookOrder
      <3>2. Test!Filled(order, fill.quantity) = [mid EXCEPT !.status = status]
        BY DEF Test!Filled
      <3> HIDE DEF mid, status, filled
      <3> QED
        BY <3>1, <3>2 DEF filled
    <2>2. status \in Active \cup {"FILLED"}
      BY DEF Active
    <2>3. order.filled + fill.quantity \in Nat
      BY <1>1, <1>2
    <2> HIDE DEF status
    <2> QED
      BY <1>1, <2>1, <2>2, <2>3 DEF BookOrder
  <1>6. /\ DOMAIN orders' = DOMAIN orders /\ orders' \in Seq(BookOrder)
        /\ orders'[i].filled = order.filled + fill.quantity
        /\ orders'[i].submitted = order.submitted /\ orders'[i].quantity = order.quantity
        /\ \A j \in DOMAIN orders : j # i => orders'[j] = orders[j]
    <2> HIDE DEF order
    <2>1. orders \in Seq(BookOrder)
      BY <1>1 DEF BacktestTyped
    <2>2. orders' \in Seq(BookOrder) /\ DOMAIN orders' = DOMAIN orders
      BY <1>1, <1>3, <1>5, <2>1, ExceptSeq
    <2> QED
      BY <1>1, <1>3, <1>5, <2>2
  <1>7. /\ cash' = cash + Test!Proceeds(booked) /\ cash' \in Int
        /\ position' \in [Instruments -> Nat]
        /\ \A s \in Instruments : position'[s] = position[s] + Test!Gain(booked, s)
        /\ order.side = "BUY" => cash' >= 0
        /\ order.side = "SELL" /\ cash >= 0 /\ cash' < 0 =>
              fill.fee > Test!Money(fill.price, fill.quantity)
    <2>1. /\ booked.side = order.side /\ booked.symbol = order.symbol
          /\ booked.quantity = fill.quantity /\ booked.price = fill.price
          /\ booked.fee = fill.fee
      OBVIOUS
    <2> HIDE DEF booked, order
    <2> QED
      BY <1>1, <1>2, <1>3, <2>1, BookedCash
  <1>8. Account'
    <2>1. booked.order = i /\ booked.quantity = fill.quantity
      OBVIOUS
    <2> HIDE DEF booked
    <2> QED
      BY <1>1, <1>3, <1>4, <1>6, <1>7, <2>1, AccountGrows
  <1>9. /\ n \in Nat /\ DOMAIN fills = 1..n /\ Len(fills') = n + 1
        /\ DOMAIN fills' = 1..(n + 1) /\ fills' \in Seq(BookedFill)
        /\ \A k \in 1..n : fills'[k] = fills[k] /\ fills[k].at \in Int
        /\ fills'[n + 1] = booked
    <2>1. n \in Nat /\ DOMAIN fills = 1..n /\ (\A k \in 1..n : fills[k].at \in Int)
          /\ fills \in Seq(BookedFill)
      BY <1>1, BookTypes DEF BacktestTyped
    <2> HIDE DEF booked
    <2>2. /\ Len(fills') = n + 1 /\ fills'[n + 1] = booked /\ fills' \in Seq(BookedFill)
          /\ \A k \in 1..n : fills'[k] = fills[k]
      BY <1>3, <1>4, <2>1, AppendProperties
    <2> QED
      BY <2>1, <2>2, LenProperties
  <1>10. BacktestTyped'
    BY <1>1, <1>6, <1>7, <1>9 DEF BacktestTyped
  <1>11. /\ order.submitted < clock /\ clock \in AtOpens /\ AtOpens' = AtOpens
         /\ \A m \in 1..n : /\ fills[m].order \in DOMAIN orders /\ fills[m].at <= clock
                            /\ fills[m].order \in pending => fills[m].at < clock
         /\ booked.at = clock /\ booked.order = i
    BY <1>9 DEF BacktestInv, BookInv, AtOpens
  <1>12. BookInv'
    <2>1. \A j \in DOMAIN orders : /\ orders'[j].submitted <= clock
                                   /\ orders'[j].filled <= orders'[j].quantity
      <3>1. \A j \in DOMAIN orders : /\ orders[j].submitted <= clock
                                     /\ orders[j].filled <= orders[j].quantity
        BY DEF BacktestInv, BookInv
      <3> HIDE DEF order
      <3>2. orders'[i].submitted <= clock /\ orders'[i].filled <= orders'[i].quantity
        BY <1>1, <1>2, <1>6, <3>1 DEF order
      <3> QED
        BY <1>6, <3>1, <3>2
    <2>2. \A j \in pending' : orders'[j].submitted < clock /\ orders'[j].status \in Active
      <3>1. \A j \in pending' : j \in pending /\ j # i /\ j \in DOMAIN orders
        BY <1>1 DEF BacktestTyped
      <3> QED
        BY <1>6, <3>1 DEF BacktestInv, BookInv
    <2>3. \A m \in 1..(n + 1) : /\ fills'[m].order \in DOMAIN orders /\ fills'[m].at <= clock
                                /\ fills'[m].order \in pending' => fills'[m].at < clock
      <3>1. i \notin pending' /\ pending' \subseteq pending
        OBVIOUS
      <3>2. \A m \in 1..(n + 1) : m = n + 1 \/ m \in 1..n
        BY <1>9
      <3> HIDE DEF booked
      <3> QED
        BY <1>1, <1>9, <1>11, <3>1, <3>2
    <2> QED
      BY <1>6, <1>9, <1>11, <2>1, <2>2, <2>3 DEF BookInv
  <1>13. ASSUME NEW m \in 1..(n + 1)
         PROVE  FillInv(m)'
    <2>1. CASE m \in 1..n
      <3>1. /\ fills[m].at \in AtOpens /\ fills[m].at > orders[fills[m].order].submitted
            /\ \A k \in 1..(m - 1) : fills[k].order = fills[m].order => fills[k].at < fills[m].at
        BY <1>9, <2>1 DEF BacktestInv, FillInv
      <3>2. /\ fills'[m] = fills[m] /\ \A k \in 1..(m - 1) : fills'[k] = fills[k]
            /\ fills[m].order \in DOMAIN orders
        BY <1>9, <1>11, <2>1
      <3>3. orders'[fills[m].order].submitted = orders[fills[m].order].submitted
        BY <1>6, <3>2
      <3> QED
        BY <1>11, <3>1, <3>2, <3>3 DEF FillInv
    <2>2. CASE m = n + 1
      <3>1. \A k \in 1..(m - 1) : fills'[k] = fills[k] /\ k \in 1..n
        BY <1>9, <2>2
      <3>2. \A k \in 1..n : fills[k].order = i => fills[k].at < clock
        BY <1>11
      <3>3. fills'[m].order = i /\ fills'[m].at = clock
        BY <1>9, <2>2
      <3> QED
        BY <1>6, <1>11, <3>1, <3>2, <3>3 DEF FillInv
    <2> QED
      BY <1>9, <2>1, <2>2
  <1>14. cash' < 0 => Overdraft'
    <2>1. SUFFICES ASSUME cash' < 0 PROVE Overdraft'
      OBVIOUS
    <2>2. order.side = "SELL" /\ booked.side = "SELL"
      BY <1>1, <1>7, <2>1 DEF Sides
    <2>3. CASE cash < 0
      <3>1. PICK m \in 1..n : /\ fills[m].side = "SELL"
                              /\ fills[m].fee > Test!Money(fills[m].price, fills[m].quantity)
                              /\ \A k \in m..n : fills[k].side = "SELL"
        BY <1>9, <2>3 DEF BacktestInv, Overdraft
      <3>2. m \in 1..(n + 1) /\ fills'[m] = fills[m]
        BY <1>9
      <3>3. \A k \in m..(n + 1) : fills'[k].side = "SELL"
        <4>1. \A k \in m..(n + 1) : k = n + 1 \/ (k \in m..n /\ k \in 1..n)
          BY <1>9
        <4> QED
          BY <1>9, <2>2, <3>1, <4>1
      <3> HIDE DEF booked
      <3> QED
        BY <1>9, <3>1, <3>2, <3>3 DEF Overdraft
    <2>4. CASE ~(cash < 0)
      <3>1. fill.fee > Test!Money(fill.price, fill.quantity)
        BY <1>1, <1>7, <2>1, <2>2, <2>4
      <3>2. /\ booked.fee = fill.fee /\ booked.price = fill.price
            /\ booked.quantity = fill.quantity
        OBVIOUS
      <3>3. n + 1 \in 1..(n + 1) /\ \A k \in (n + 1)..(n + 1) : k = n + 1
        BY <1>9
      <3> HIDE DEF booked
      <3> QED
        BY <1>9, <2>2, <3>1, <3>2, <3>3 DEF Overdraft
    <2> QED
      BY <2>3, <2>4
  <1>15. QueueInv' /\ stage' = "loop"
    BY <1>11 DEF BacktestInv, QueueInv
  <1> HIDE DEF booked, order
  <1> QED
    BY <1>8, <1>9, <1>10, <1>12, <1>13, <1>14, <1>15 DEF BacktestInv

LEMMA MatchPreserves ==
    ASSUME BacktestInv, NEW i \in pending, Test!MatchOrder(i)
    PROVE  BacktestInv'
  <1> DEFINE order == orders[i]
             fill == Test!Matched(order)
  <1>1. /\ stage = "loop" /\ UNCHANGED <<matcher, calendar, queue, clock, market>>
    BY DEF Test!MatchOrder, Test!session
  <1>2. ASSUME stage' \in {"loop", "negative maximum"}, stage' # "loop" => cash < 0,
               pending' \subseteq pending, UNCHANGED <<orders, cash, position, fills>>
        PROVE  BacktestInv'
    <2>1. BacktestTyped' /\ QueueInv' /\ BookInv'
      BY <1>1, <1>2 DEF BacktestInv, BacktestTyped, QueueInv, BookInv, AtOpens
    <2>2. (\A m \in DOMAIN fills : FillInv(m))' /\ Account' /\ (Overdraft' <=> Overdraft)
      BY <1>1, <1>2
      DEF BacktestInv, FillInv, Account, Overdraft, AtOpens, Proceeds, Gains, Shares
    <2> QED
      BY <1>2, <2>1, <2>2 DEF BacktestInv
  <1>3. CASE market[order.symbol] = Test!NoBar
    BY <1>1, <1>2, <1>3 DEF Test!MatchOrder, Test!Rest, Test!ledger
  <1>4. CASE /\ market[order.symbol] # Test!NoBar
             /\ Test!Maximum(order) < 0 /\ stage' = "negative maximum"
             /\ UNCHANGED <<pending, orders, cash, position, fills>>
    <2>1. cash < 0
      BY <1>4, MaximumIsInteger
    <2> QED
      BY <1>2, <1>4, <2>1
  <1>5. CASE /\ market[order.symbol] # Test!NoBar
             /\ \/ Test!Maximum(order) >= 0
                \/ matcher = "ashare" /\ Test!Blocked(order.side, market[order.symbol].status)
             /\ IF fill.quantity = 0
                THEN pending' = pending \ {i} /\ UNCHANGED <<stage, orders, cash, position, fills>>
                ELSE IF Test!Refused(order, fill)
                THEN stage' = "fill refused"
                ELSE Test!ApplyFill(i, fill) /\ pending' = pending \ {i} /\ UNCHANGED stage
    <2>1. Offer(fill, order, Test!Maximum(order), cash)
      BY <1>5, MatchedOffer
    <2>2. CASE fill.quantity = 0
      BY <1>1, <1>2, <1>5, <2>2
    <2>3. CASE fill.quantity # 0
      <3>1. ~Test!Refused(order, fill)
        BY <1>5, <2>1, <2>3, NeverRefused
      <3>2. Test!ApplyFill(i, fill) /\ pending' = pending \ {i} /\ UNCHANGED stage
        BY <1>5, <2>3, <3>1
      <3> HIDE DEF fill
      <3> QED
        BY <1>1, <1>5, <2>1, <2>3, <3>2, FillPreserves
    <2> QED
      BY <2>2, <2>3
  <1> QED
    BY <1>3, <1>4, <1>5 DEF Test!MatchOrder, Test!Rest, Test!ledger

LEMMA BacktestStep == BacktestInv /\ [Test!Next]_Test!vars => BacktestInv'
  <1>1. ASSUME BacktestInv, UNCHANGED Test!vars
        PROVE  BacktestInv'
    BY <1>1
    DEF BacktestInv, BacktestTyped, QueueInv, BookInv, FillInv, Account, Overdraft, AtOpens,
        Proceeds, Gains, Shares, Test!vars
  <1> QED
    BY <1>1, SchedulePreserves, FinishPreserves, OpenPreserves, ClosePreservesRun, MatchPreserves
    DEF Test!Next

LEMMA SameSum ==
    ASSUME NEW f, NEW n
    PROVE  Test!SumUpTo(f, n) = SumUpTo(f, n)
  BY DEF Test!SumUpTo, SumUpTo

\* Cash, every position and every order's filled quantity are what the fills of a run
\* add up to, whatever the calendar, the bars, the strategy and the rates.
THEOREM FillsExplainAccount == Test!Spec => []AccountMatchesFills
  <1>1. BacktestInv => AccountMatchesFills
    <2>1. SUFFICES ASSUME BacktestInv PROVE AccountMatchesFills
      OBVIOUS
    <2>2. DOMAIN orders = 1..Len(orders)
      BY <2>1, BookTypes DEF BacktestInv
    <2>3. Account
      BY <2>1 DEF BacktestInv
    <2> QED
      BY <2>2, <2>3, SameSum
      DEF AccountMatchesFills, Test!AccountMatchesFills, Test!Total, Account, Proceeds, Gains,
          Shares
  <1> QED
    BY BacktestInit, BacktestStep, <1>1, PTL DEF Test!Spec

\* No fill the matcher offers is refused by the book or the ledger, though the
\* engine's largest quantity leaves out fees and slippage; no event is in the past.
THEOREM OffersAreAccepted == Test!Spec => []FillsAreAccepted
  <1>1. BacktestInv => FillsAreAccepted
    BY DEF BacktestInv, QueueInv, FillsAreAccepted, Test!FillsAreAccepted
  <1> QED
    BY BacktestInit, BacktestStep, <1>1, PTL DEF Test!Spec

\* Fills happen at opens, after the order's submission, one per order and open.
THEOREM TradesLater == Test!Spec => []TradesAtLaterOpens
  <1>1. BacktestInv => TradesAtLaterOpens
    <2>1. SUFFICES ASSUME BacktestInv PROVE TradesAtLaterOpens
      OBVIOUS
    <2>2. /\ DOMAIN fills = 1..Len(fills) /\ DOMAIN calendar = 1..Len(calendar)
          /\ \A m \in DOMAIN fills : FillInv(m)
      BY <2>1, BookTypes, LenProperties DEF BacktestInv, BacktestTyped
    <2>3. \A t \in AtOpens : \E i \in 1..Len(calendar) : t = Test!OpenAt(calendar[i])
      BY <2>2 DEF AtOpens
    <2> QED
      BY <2>2, <2>3 DEF TradesAtLaterOpens, Test!TradesAtLaterOpens, FillInv
  <1> QED
    BY BacktestInit, BacktestStep, <1>1, PTL DEF Test!Spec

\* Cash goes below zero only by the fee of a sale that was worth less, and from then
\* on nothing is bought; only then does a run fail on a negative quantity.
THEOREM OverdrawnByCommission == Test!Spec => []OnlyCommissionOverdraws
  <1>1. BacktestInv => OnlyCommissionOverdraws
    <2>1. SUFFICES ASSUME BacktestInv PROVE OnlyCommissionOverdraws
      OBVIOUS
    <2>2. DOMAIN fills = 1..Len(fills)
      BY <2>1, BookTypes DEF BacktestInv
    <2> QED
      BY <2>1, <2>2
      DEF BacktestInv, Overdraft, OnlyCommissionOverdraws, Test!OnlyCommissionOverdraws
  <1> QED
    BY BacktestInit, BacktestStep, <1>1, PTL DEF Test!Spec

-----------------------------------------------------------------------------
(* Settings: what a merge of files knows of their names, and with it which  *)
(* settings a program that may submit cannot have been without.             *)

\* m is the function of what the first files merge to.
Merges(m, layers, n) ==
    m = [k \in 0..n |-> IF k = 0 THEN Set!Empty ELSE Set!Merge(m[k - 1], layers[k])]

LEMMA MergesExist ==
    ASSUME NEW layers
    PROVE  \A n \in Nat : \E m : Merges(m, layers, n)
  <1> DEFINE good == {n \in Nat : \E m : Merges(m, layers, n)}
  <1>1. 0 \in good
    <2> DEFINE m == [k \in 0..0 |-> Set!Empty]
    <2>1. Merges(m, layers, 0)
      BY DEF Merges
    <2> QED
      BY <2>1
  <1>2. ASSUME NEW n \in Nat, n \in good
        PROVE  n + 1 \in good
    <2> PICK m : Merges(m, layers, n)
      BY <1>2
    <2> DEFINE t == [k \in 0..(n + 1) |-> IF k = n + 1 THEN Set!Merge(m[n], layers[n + 1])
                                          ELSE m[k]]
    <2>1. \A k \in 0..n : m[k] = IF k = 0 THEN Set!Empty ELSE Set!Merge(m[k - 1], layers[k])
      BY DEF Merges
    <2>2. \A k \in 0..(n + 1) :
             t[k] = IF k = 0 THEN Set!Empty ELSE Set!Merge(t[k - 1], layers[k])
      <3> SUFFICES ASSUME NEW k \in 0..(n + 1)
                   PROVE  t[k] = IF k = 0 THEN Set!Empty ELSE Set!Merge(t[k - 1], layers[k])
        OBVIOUS
      <3>1. CASE k = n + 1
        BY <3>1
      <3>2. CASE k \in 1..n
        BY <2>1, <3>2
      <3>3. CASE k = 0
        BY <2>1, <3>3
      <3> QED
        BY <3>1, <3>2, <3>3
    <2>3. Merges(t, layers, n + 1)
      <3>1. t = [k \in 0..(n + 1) |-> t[k]]
        OBVIOUS
      <3> HIDE DEF t
      <3>2. [k \in 0..(n + 1) |-> t[k]]
            = [k \in 0..(n + 1) |-> IF k = 0 THEN Set!Empty ELSE Set!Merge(t[k - 1], layers[k])]
        BY <2>2
      <3> QED
        BY <3>1, <3>2 DEF Merges
    <2> QED
      BY <2>3
  <1> HIDE DEF good
  <1>3. Nat \subseteq good
    BY <1>1, <1>2, SetInduction
  <1> QED
    BY <1>3 DEF good

Names(layer) == DOMAIN layer

LEMMA MergeNames ==
    ASSUME NEW base, NEW layer
    PROVE  /\ Names(Set!Merge(base, layer)) \subseteq Names(base) \cup Names(layer)
           /\ Names(layer) \subseteq Names(Set!Merge(base, layer))
           /\ "misspelt" \in Names(base) => "misspelt" \in Names(Set!Merge(base, layer))
  BY DEF Names, Set!Merge, Set!BrokerKeys

\* A name is in the merge of files only if it is in one of them; and one that is of
\* no setting stays in it.
LEMMA MergedNames ==
    ASSUME NEW layers, Len(layers) \in Nat
    PROVE  /\ \A x \in Names(Set!MergedFiles(layers)) :
                 \E i \in 1..Len(layers) : x \in Names(layers[i])
           /\ \A i \in 1..Len(layers) :
                 "misspelt" \in Names(layers[i]) => "misspelt" \in Names(Set!MergedFiles(layers))
  <1> DEFINE n == Len(layers)
             m == CHOOSE f : Merges(f, layers, n)
  <1>1. Set!MergedFiles(layers) = m[n]
    BY DEF Set!MergedFiles, Merges
  <1>2. \A k \in 0..n : m[k] = IF k = 0 THEN Set!Empty ELSE Set!Merge(m[k - 1], layers[k])
    <2>1. Merges(m, layers, n)
      BY MergesExist
    <2> HIDE DEF m
    <2> QED
      BY <2>1 DEF Merges
  <1> HIDE DEF m
  <1> DEFINE Known(k) == /\ \A x \in Names(m[k]) : \E i \in 1..k : x \in Names(layers[i])
                         /\ \A i \in 1..k :
                               "misspelt" \in Names(layers[i]) => "misspelt" \in Names(m[k])
             good == {k \in Nat : k <= n => Known(k)}
  <1>3. 0 \in good
    BY <1>2 DEF Names, Set!Empty
  <1>4. ASSUME NEW k \in Nat, k \in good
        PROVE  k + 1 \in good
    <2>1. SUFFICES ASSUME k + 1 <= n PROVE Known(k + 1)
      OBVIOUS
    <2>2. Known(k) /\ m[k + 1] = Set!Merge(m[k], layers[k + 1])
      BY <1>2, <1>4, <2>1
    <2>3. /\ Names(m[k + 1]) \subseteq Names(m[k]) \cup Names(layers[k + 1])
          /\ Names(layers[k + 1]) \subseteq Names(m[k + 1])
          /\ "misspelt" \in Names(m[k]) => "misspelt" \in Names(m[k + 1])
      BY <2>2, MergeNames
    <2>4. \A i \in 1..(k + 1) : i \in 1..k \/ i = k + 1
      OBVIOUS
    <2>5. k + 1 \in 1..(k + 1) /\ 1..k \subseteq 1..(k + 1)
      OBVIOUS
    <2> HIDE DEF n
    <2> QED
      BY <2>2, <2>3, <2>4, <2>5
  <1>5. n \in good
    <2> HIDE DEF good
    <2> QED
      BY <1>3, <1>4, SetInduction
  <1> QED
    BY <1>1, <1>5

\* The same of what is given in all, files and environment.
LEMMA GivenNames ==
    ASSUME NEW layers, NEW env, Len(layers) \in Nat
    PROVE  /\ \A x \in Names(Set!Merged(layers, env)) :
                 x \in Names(env) \/ \E i \in 1..Len(layers) : x \in Names(layers[i])
           /\ "misspelt" \in Names(env) \/ (\E i \in 1..Len(layers) : "misspelt" \in Names(layers[i]))
                 => "misspelt" \in Names(Set!Merged(layers, env))
  BY MergedNames, MergeNames DEF Set!Merged

\* What a program that may submit was given; what is not given is as by default.
LEMMA LoadedSubmits ==
    ASSUME NEW layers, NEW env, Set!Submits(Set!Load(layers, env))
    PROVE  /\ Set!Load(layers, env).manual /\ Set!Load(layers, env).guards
           /\ Set!Gates \subseteq Names(Set!Merged(layers, env))
  <1> DEFINE given == Set!Merged(layers, env)
             c == Set!WithDefaults(given)
  <1>1. /\ Set!Load(layers, env) = c /\ c.submit
        /\ Set!Guarded(c) /\ Set!SoundBroker(c) /\ Set!LiveGate(c)
    BY DEF Set!Submits, Set!Load
  <1>2. /\ c.manual /\ c.guards /\ c.submit /\ c.mode = "LIVE" /\ c.liveEnabled
        /\ c.brokerEnabled /\ c.brokerMode = "LIVE"
    BY <1>1 DEF Set!Guarded, Set!SoundBroker, Set!LiveGate
  <1>3. \A x \in Set!Gates : x \notin DOMAIN given => c[x] = Set!Defaults[x]
    BY DEF Set!WithDefaults, Set!Names, Set!Defaults, Set!Gates
  <1> HIDE DEF c, given
  <1>4. /\ "mode" \in DOMAIN given /\ "liveEnabled" \in DOMAIN given
        /\ "brokerMode" \in DOMAIN given /\ "brokerEnabled" \in DOMAIN given
        /\ "submit" \in DOMAIN given
    BY <1>2, <1>3 DEF Set!Gates, Set!Defaults
  <1> QED
    BY <1>1, <1>2, <1>4 DEF Names, Set!Gates, given

SettingsInv ==
    /\ files \in Seq(Layers)
    /\ settings # NotRunning => settings = Set!Load(files, environ)

LEMMA SettingsStep == SettingsInv /\ [Set!Next]_Set!vars => SettingsInv'
  <1> SUFFICES ASSUME SettingsInv, [Set!Next]_Set!vars PROVE SettingsInv'
    OBVIOUS
  <1>1. CASE UNCHANGED Set!vars
    BY <1>1 DEF SettingsInv, Set!vars
  <1>2. ASSUME NEW n \in 1..MaxFiles, NEW layer \in Layers, Set!Write(n, layer)
        PROVE  SettingsInv'
    <2>1. files' \in Seq(Layers)
      <3>1. CASE n > Len(files)
        BY <1>2, <3>1, AppendProperties DEF Set!Write, SettingsInv
      <3>2. CASE ~(n > Len(files))
        <4>1. n \in 1..Len(files) /\ files' = [files EXCEPT ![n] = layer]
          BY <1>2, <3>2, LenProperties DEF Set!Write, SettingsInv
        <4> QED
          BY <4>1, ExceptSeq, LenProperties DEF SettingsInv
      <3> QED
        BY <3>1, <3>2
    <2> QED
      BY <1>2, <2>1 DEF Set!Write, SettingsInv
  <1>3. ASSUME NEW env \in Environments, Set!SetEnviron(env)
        PROVE  SettingsInv'
    BY <1>3 DEF Set!SetEnviron, SettingsInv
  <1>4. CASE Set!Start
    BY <1>4 DEF Set!Start, SettingsInv
  <1>5. CASE Set!Stop
    BY <1>5 DEF Set!Stop, SettingsInv
  <1> QED
    BY <1>1, <1>2, <1>3, <1>4, <1>5 DEF Set!Next

\* A program that may submit asks for confirmation and keeps the guards; without a
\* gate in its configuration it could not submit, and with one misspelt not start,
\* whatever files and environment it was given.
THEOREM GatesAreNeeded == Set!Spec => []EveryGateIsNeeded
  <1>1. Set!Init => SettingsInv
    BY DEF Set!Init, SettingsInv
  <1>2. SettingsInv => EveryGateIsNeeded
    <2> SUFFICES ASSUME SettingsInv, Set!Submits(settings)
                 PROVE  /\ settings.manual /\ settings.guards
                        /\ \A n \in Set!Gates : /\ ~Set!Submits(Set!LoadedAs(Set!Without, n))
                                                /\ Set!LoadedAs(Set!Misspelt, n) = NotRunning
      BY DEF EveryGateIsNeeded, Set!EveryGateIsNeeded
    <2>1. /\ settings = Set!Load(files, environ) /\ Len(files) \in Nat
          /\ DOMAIN files = 1..Len(files)
      BY LenProperties DEF SettingsInv, Set!Submits
    <2>2. settings.manual /\ settings.guards /\ Set!Gates \subseteq Names(Set!Merged(files, environ))
      BY <2>1, LoadedSubmits
    <2>3. ASSUME NEW n \in Set!Gates
          PROVE  ~Set!Submits(Set!LoadedAs(Set!Without, n))
      <3> DEFINE layers == [i \in DOMAIN files |-> Set!Without(files[i], n)]
                 env == Set!Without(environ, n)
      <3>1. Len(layers) = Len(files) /\ DOMAIN layers = 1..Len(files)
        BY <2>1
      <3>2. n \notin Names(env) /\ \A i \in 1..Len(layers) : n \notin Names(layers[i])
        BY <2>1, <3>1 DEF Names, Set!Without
      <3>3. Set!LoadedAs(Set!Without, n) = Set!Load(layers, env)
        BY DEF Set!LoadedAs
      <3> HIDE DEF layers, env
      <3>4. n \notin Names(Set!Merged(layers, env))
        BY <2>1, <3>1, <3>2, GivenNames
      <3> QED
        BY <3>3, <3>4, LoadedSubmits
    <2>4. ASSUME NEW n \in Set!Gates
          PROVE  Set!LoadedAs(Set!Misspelt, n) = NotRunning
      <3> DEFINE layers == [i \in DOMAIN files |-> Set!Misspelt(files[i], n)]
                 env == Set!Misspelt(environ, n)
      <3>1. Len(layers) = Len(files) /\ DOMAIN layers = 1..Len(files)
        BY <2>1
      <3>2. n \in Names(environ) \/ \E i \in 1..Len(files) : n \in Names(files[i])
        BY <2>1, <2>2, GivenNames
      <3>3. "misspelt" \in Names(env) \/ \E i \in 1..Len(layers) : "misspelt" \in Names(layers[i])
        BY <2>1, <3>1, <3>2 DEF Names, Set!Misspelt
      <3>4. Set!LoadedAs(Set!Misspelt, n) = Set!Load(layers, env)
        BY DEF Set!LoadedAs
      <3> HIDE DEF layers, env
      <3>5. "misspelt" \in DOMAIN Set!Merged(layers, env)
        BY <2>1, <3>1, <3>3, GivenNames DEF Names
      <3>6. "misspelt" \notin Set!Names
        BY DEF Set!Names, Set!Defaults
      <3> QED
        BY <3>4, <3>5, <3>6 DEF Set!Load
    <2> QED
      BY <2>2, <2>3, <2>4
  <1> QED
    BY <1>1, <1>2, SettingsStep, PTL DEF Set!Spec

-----------------------------------------------------------------------------
(* The desk.  What its numbers are: powers of two, greatest and least      *)
(* members of finite sets, sums over finite sets.                          *)

\* As the number of subsets of 1..n.
LEMMA PowerOfTwo == \A n \in Nat : 2 ^ n \in Nat \ {0}
  <1> TAKE n \in Nat
  <1>1. IsFiniteSet(1..n) /\ Cardinality(1..n) = n
    BY FS_Interval
  <1>2. IsFiniteSet(SUBSET (1..n)) /\ Cardinality(SUBSET (1..n)) = 2 ^ n
    BY <1>1, FS_SUBSET
  <1>3. SUBSET (1..n) # {}
    OBVIOUS
  <1> QED
    BY <1>2, <1>3, FS_EmptySet, FS_CardinalityType

LEMMA FiniteImage ==
    ASSUME NEW S, IsFiniteSet(S), NEW R, NEW f \in [S -> R],
           NEW T, \A y \in T : \E x \in S : y = f[x]
    PROVE  IsFiniteSet(T)
  <1>1. f \in Surjection(S, {f[x] : x \in S})
    BY DEF Surjection
  <1>2. IsFiniteSet({f[x] : x \in S})
    BY <1>1, FS_Surjection
  <1>3. T \in SUBSET {f[x] : x \in S}
    OBVIOUS
  <1> QED
    BY ONLY <1>2, <1>3, FS_Subset

\* The subsets of S with n members.
Subsets(S, n) == {T \in SUBSET S : Cardinality(T) = n}

\* By induction over the number of members.
LEMMA MaxIsMember ==
    ASSUME NEW S \in SUBSET Int, IsFiniteSet(S), S # {}
    PROVE  Desk!Max(S) \in S /\ \A x \in S : Desk!Max(S) >= x
  <1> DEFINE good == {n \in Nat : \A T \in Subsets(S, n + 1) :
                                     \E m \in T : \A x \in T : m >= x}
  <1>1. 0 \in good
    <2> SUFFICES ASSUME NEW T \in Subsets(S, 1)
                 PROVE  \E m \in T : \A x \in T : m >= x
      OBVIOUS
    <2>1. IsFiniteSet(T) /\ Cardinality(T) = 1
      BY FS_Subset DEF Subsets
    <2>2. PICK a : T = {a}
      BY <2>1, FS_Singleton
    <2> QED
      BY <2>2 DEF Subsets
  <1>2. ASSUME NEW n \in Nat, n \in good
        PROVE  n + 1 \in good
    <2> SUFFICES ASSUME NEW T \in Subsets(S, n + 1 + 1)
                 PROVE  \E m \in T : \A x \in T : m >= x
      OBVIOUS
    <2>1. IsFiniteSet(T) /\ Cardinality(T) = n + 1 + 1 /\ T \subseteq S
      BY FS_Subset DEF Subsets
    <2>2. T # {}
      BY <2>1, FS_EmptySet
    <2>3. PICK a \in T : TRUE
      BY <2>2
    <2> DEFINE rest == T \ {a}
    <2>4. rest \in Subsets(S, n + 1)
      <3>1. Cardinality(rest) = (n + 1 + 1) - 1
        BY <2>1, <2>3, FS_RemoveElement
      <3> QED
        BY <2>1, <3>1 DEF Subsets
    <2>5. PICK m \in rest : \A x \in rest : m >= x
      BY <1>2, <2>4
    <2>6. CASE m >= a
      BY <2>5, <2>6
    <2>7. CASE ~(m >= a)
      <3>1. \A x \in T : a >= x
        BY <2>1, <2>5, <2>7
      <3> QED
        BY <3>1
    <2> QED
      BY <2>6, <2>7
  <1> HIDE DEF good
  <1>3. Nat \subseteq good
    BY <1>1, <1>2, SetInduction
  <1>4. PICK n \in Nat : S \in Subsets(S, n + 1)
    <2>1. Cardinality(S) \in Nat \ {0}
      BY FS_CardinalityType, FS_EmptySet
    <2>2. S \in Subsets(S, (Cardinality(S) - 1) + 1) /\ Cardinality(S) - 1 \in Nat
      BY <2>1 DEF Subsets
    <2> QED
      BY <2>2
  <1>5. \E m \in S : \A x \in S : m >= x
    BY <1>3, <1>4 DEF good
  <1> QED
    BY <1>5 DEF Desk!Max

LEMMA MinIsMember ==
    ASSUME NEW S \in SUBSET Int, IsFiniteSet(S), S # {}
    PROVE  Desk!Min(S) \in S /\ \A x \in S : Desk!Min(S) <= x
  <1> DEFINE opposite == [x \in S |-> -x]
             T == {opposite[x] : x \in S}
  <1>1. T \in SUBSET Int /\ T # {} /\ IsFiniteSet(T)
    <2>1. opposite \in [S -> Int] /\ S # {}
      OBVIOUS
    <2>2. IsFiniteSet(T)
      BY <2>1, FiniteImage
    <2>3. T # {} /\ T \in SUBSET Int
      BY <2>1
    <2> QED
      BY <2>2, <2>3
  <1>2. PICK m \in T : \A x \in T : m >= x
    BY <1>1, MaxIsMember
  <1>3. PICK a \in S : m = -a
    BY <1>2
  <1>4. \A x \in S : a <= x
    <2> TAKE x \in S
    <2>1. m >= -x
      BY <1>2
    <2> QED
      BY <1>3, <2>1
  <1> QED
    BY <1>4 DEF Desk!Min

-----------------------------------------------------------------------------

\* The member of T that is summed first.
First(T) == CHOOSE x \in T : TRUE

\* s is the function of the sums of f over the sets in D.
Totals(s, f, D) ==
    s = [T \in D |-> IF T = {} THEN 0 ELSE f[First(T)] + s[T \ {First(T)}]]

\* The subsets of S with at most n members.
UpTo(S, n) == {T \in SUBSET S : Cardinality(T) <= n}

LEMMA Counted ==
    ASSUME NEW S, IsFiniteSet(S)
    PROVE  \A T \in SUBSET S : Cardinality(T) \in Nat /\ (Cardinality(T) = 0 <=> T = {})
  BY FS_Subset, FS_CardinalityType, FS_EmptySet

LEMMA Smaller ==
    ASSUME NEW S, IsFiniteSet(S), NEW T \in SUBSET S, T # {}
    PROVE  /\ First(T) \in T /\ T \ {First(T)} \in SUBSET S
           /\ Cardinality(T) \in Nat /\ Cardinality(T) > 0
           /\ Cardinality(T \ {First(T)}) = Cardinality(T) - 1
  <1>1. First(T) \in T
    BY DEF First
  <1>2. IsFiniteSet(T)
    BY FS_Subset
  <1>3. Cardinality(T) \in Nat \ {0}
    BY <1>2, FS_CardinalityType, FS_EmptySet
  <1>4. Cardinality(T \ {First(T)}) = Cardinality(T) - 1
    BY ONLY <1>1, <1>2, FS_RemoveElement
  <1> QED
    BY <1>1, <1>3, <1>4

\* A sum over a finite set is one over a smaller set and a value more.
LEMMA TotalsExist ==
    ASSUME NEW S, IsFiniteSet(S), NEW f
    PROVE  \E s : Totals(s, f, SUBSET S)
  <1> DEFINE good == {n \in Nat : \E s : Totals(s, f, UpTo(S, n))}
  <1>1. 0 \in good
    <2>1. \A T \in UpTo(S, 0) : T = {}
      BY Counted DEF UpTo
    <2> DEFINE s == [T \in UpTo(S, 0) |-> 0]
    <2>2. Totals(s, f, UpTo(S, 0))
      BY <2>1 DEF Totals
    <2> QED
      BY <2>2
  <1>2. ASSUME NEW n \in Nat, n \in good
        PROVE  n + 1 \in good
    <2> PICK s : Totals(s, f, UpTo(S, n))
      BY <1>2
    <2> DEFINE value(T) == IF T = {} THEN 0 ELSE f[First(T)] + s[T \ {First(T)}]
               t == [T \in UpTo(S, n + 1) |-> value(T)]
    <2>1. \A T \in UpTo(S, n) : T \in UpTo(S, n + 1) /\ s[T] = value(T)
      <3>1. \A T \in UpTo(S, n) : Cardinality(T) \in Nat /\ T \in SUBSET S
        BY Counted DEF UpTo
      <3>2. \A T \in UpTo(S, n) : s[T] = value(T)
        BY DEF Totals
      <3> QED
        BY <3>1, <3>2 DEF UpTo
    <2>2. \A T \in UpTo(S, n + 1) : T # {} => T \ {First(T)} \in UpTo(S, n)
      BY Smaller DEF UpTo
    <2> HIDE DEF value
    <2>3. \A T \in UpTo(S, n + 1) : T # {} => t[T \ {First(T)}] = s[T \ {First(T)}]
      BY <2>1, <2>2
    <2>4. Totals(t, f, UpTo(S, n + 1))
      BY <2>3 DEF Totals, value
    <2> QED
      BY <2>4
  <1> HIDE DEF good
  <1>3. Nat \subseteq good
    BY <1>1, <1>2, SetInduction
  <1>4. Cardinality(S) \in Nat /\ UpTo(S, Cardinality(S)) = SUBSET S
    BY FS_CardinalityType, FS_Subset DEF UpTo
  <1> QED
    BY <1>3, <1>4 DEF good

\* SumOver is the function of sums at the domain of f.
LEMMA SumOverIsTotal ==
    ASSUME NEW S, IsFiniteSet(S), NEW f, DOMAIN f = S
    PROVE  \E s : Totals(s, f, SUBSET S) /\ Desk!SumOver(f) = s[S]
  <1>1. Desk!SumOver(f) = (CHOOSE s : Totals(s, f, SUBSET S))[S]
    BY DEF Desk!SumOver, Desk!MapThenSumSet, Desk!MapThenFoldSet, Totals, First
  <1> QED
    BY <1>1, TotalsExist

\* A sum is among the numbers its terms are among, if these are closed under addition;
\* and it is one of its terms and what the others amount to.
LEMMA SumOverIn ==
    ASSUME NEW V \in SUBSET Int, 0 \in V, \A a, b \in V : a + b \in V,
           NEW S, IsFiniteSet(S), NEW f \in [S -> V]
    PROVE  /\ Desk!SumOver(f) \in V
           /\ S # {} => \E x \in S, r \in V : Desk!SumOver(f) = f[x] + r
  <1> PICK s : Totals(s, f, SUBSET S) /\ Desk!SumOver(f) = s[S]
    BY SumOverIsTotal
  <1>0. \A T \in SUBSET S : s[T] = IF T = {} THEN 0 ELSE f[First(T)] + s[T \ {First(T)}]
    BY DEF Totals
  <1> DEFINE good == {n \in Nat : \A T \in Subsets(S, n) : s[T] \in V}
  <1>1. 0 \in good
    <2>1. \A T \in Subsets(S, 0) : T = {}
      BY Counted DEF Subsets
    <2> QED
      BY <1>0, <2>1
  <1>2. ASSUME NEW n \in Nat, n \in good
        PROVE  n + 1 \in good
    <2> SUFFICES ASSUME NEW T \in Subsets(S, n + 1)
                 PROVE  s[T] \in V
      OBVIOUS
    <2>1. T \in SUBSET S /\ T # {}
      BY Counted, n + 1 # 0 DEF Subsets
    <2>2. First(T) \in S /\ T \ {First(T)} \in Subsets(S, n)
      BY <2>1, Smaller DEF Subsets
    <2>3. f[First(T)] \in V /\ s[T \ {First(T)}] \in V
      BY <1>2, <2>2
    <2> QED
      BY <1>0, <2>1, <2>3
  <1> HIDE DEF good
  <1>3. Nat \subseteq good
    BY <1>1, <1>2, SetInduction
  <1>4. \A T \in SUBSET S : s[T] \in V
    <2> TAKE T \in SUBSET S
    <2>1. Cardinality(T) \in Nat
      BY FS_Subset, FS_CardinalityType
    <2> QED
      BY <1>3, <2>1 DEF good, Subsets
  <1>5. S # {} => First(S) \in S /\ S \ {First(S)} \in SUBSET S
    BY DEF First
  <1> QED
    BY <1>0, <1>4, <1>5

-----------------------------------------------------------------------------
(* What the desk's numbers are. *)

\* What SoundEvidence and _validate_observations leave of an observation, and
\* SoundOutcome of a label.
Measured(o, H) ==
    /\ \A h \in H : o.bits[h] \in Int
    /\ {o.quality.proximity, o.quality.reliability, o.quality.independence,
        o.quality.timeliness, o.quality.gap} \subseteq Nat

Labelled(l) == {l.predicted, l.realized} \subseteq Int

\* What StandaloneAssumption says of the constants of the desk.
LEMMA DeskConstants ==
    /\ Unit \in Nat \ {0} /\ MinimumClusters \in Nat \ {0, 1} /\ PriorWeight \in Nat \ {0}
    /\ Whole \in Nat /\ Quantum \in Nat \ {0}
    /\ {ObservationCap, EvidenceCap, CoreCap} \subseteq Nat \ {0}
    /\ MinimumEdge \in Nat /\ CorrelationFloor \in Nat
    /\ SizingMultiplier \in Nat \ {0}
  BY StandaloneAssumption DEF Desk!BeliefsAssumption, Desk!PolicyAssumption

\* The instance's own copy of FiniteSets is FiniteSets.
LEMMA SameFiniteSets ==
    \A S : Desk!Cardinality(S) = Cardinality(S) /\ (Desk!IsFiniteSet(S) <=> IsFiniteSet(S))
  <1>1. \A S : Desk!Cardinality(S) = Cardinality(S)
    BY DEF Desk!Cardinality, Cardinality
  <1>2. \A S : Desk!IsFiniteSet(S) <=> IsFiniteSet(S)
    BY DEF Desk!IsFiniteSet, IsFiniteSet
  <1> QED
    BY <1>1, <1>2

LEMMA NatProduct == \A a, b \in Nat : a * b \in Nat
  OBVIOUS

LEMMA PositiveProduct == \A a, b \in Nat \ {0} : a * b \in Nat \ {0}
  OBVIOUS

LEMMA NatQuotient == \A a \in Nat, d \in Nat \ {0} : a \div d \in Nat
  OBVIOUS

LEMMA IntQuotient == \A a \in Int, d \in Nat \ {0} : a \div d \in Int
  OBVIOUS

LEMMA SumOfInts ==
    ASSUME NEW S, IsFiniteSet(S), NEW f \in [S -> Int]
    PROVE  Desk!SumOver(f) \in Int
  <1>1. /\ Int \in SUBSET Int /\ 0 \in Int /\ \A a, b \in Int : a + b \in Int
    OBVIOUS
  <1> QED
    BY <1>1, SumOverIn

LEMMA SumOfNats ==
    ASSUME NEW S, IsFiniteSet(S), NEW f \in [S -> Nat]
    PROVE  Desk!SumOver(f) \in Nat
  <1>1. /\ Nat \in SUBSET Int /\ 0 \in Nat /\ \A a, b \in Nat : a + b \in Nat
    OBVIOUS
  <1> QED
    BY <1>1, SumOverIn

LEMMA SumOfPositives ==
    ASSUME NEW S, IsFiniteSet(S), S # {}, NEW f \in [S -> Nat \ {0}]
    PROVE  Desk!SumOver(f) \in Nat \ {0}
  <1>1. /\ Nat \in SUBSET Int /\ 0 \in Nat /\ (\A a, b \in Nat : a + b \in Nat)
        /\ f \in [S -> Nat]
    OBVIOUS
  <1>2. PICK x \in S, r \in Nat : Desk!SumOver(f) = f[x] + r
    BY <1>1, SumOverIn
  <1> QED
    BY <1>2

LEMMA SkillIsNat == \A l : Labelled(l) => Desk!Skill(l) \in Nat
  <1> SUFFICES ASSUME NEW l, Labelled(l)
               PROVE  Desk!Skill(l) \in Nat
    OBVIOUS
  <1> DEFINE error == l.predicted - l.realized
  <1>1. error \in Int
    BY DEF Labelled
  <1>2. 4 * error * error \in Int
    BY <1>1
  <1>3. (4 * error * error) \div Unit \in Int
    BY <1>2, IntQuotient, DeskConstants
  <1> QED
    BY <1>3, DeskConstants DEF Desk!Skill

\* An effective quality is a number however many labels its source has.
LEMMA QualityIsNat ==
    ASSUME NEW marks, IsFiniteSet(marks), \A l \in marks : Labelled(l),
           NEW o, Measured(o, {}), NEW asof
    PROVE  Desk!Quality(o, marks, asof) \in Nat
  <1> DEFINE of == Desk!Track(o, marks, asof)
             skill == [l \in of |-> Desk!Skill(l)]
  <1>1. IsFiniteSet(of) /\ \A l \in of : Labelled(l)
    BY FS_Subset DEF Desk!Track, Desk!OutcomesAsof
  <1>2. skill \in [of -> Nat]
    BY <1>1, SkillIsNat
  <1>3. Desk!SumOver(skill) \in Nat /\ Cardinality(of) \in Nat
    <2> HIDE DEF of, skill
    <2> QED
      BY <1>1, <1>2, SumOfNats, FS_CardinalityType
  <1>4. PriorWeight * o.quality.reliability \in Nat
    BY DeskConstants, NatProduct DEF Measured
  <1>5. PriorWeight + Cardinality(of) \in Nat \ {0}
    BY <1>3, DeskConstants
  <1>6. Desk!Reliability(o, marks, asof)
           = (PriorWeight * o.quality.reliability + Desk!SumOver(skill))
                \div (PriorWeight + Cardinality(of))
    BY SameFiniteSets DEF Desk!Reliability
  <1>7. Desk!Reliability(o, marks, asof) \in Nat
    <2> HIDE DEF of, skill
    <2>1. PriorWeight * o.quality.reliability + Desk!SumOver(skill) \in Nat
      BY <1>3, <1>4
    <2> QED
      BY <1>5, <1>6, <2>1, NatQuotient
  <1>8. o.quality.proximity * Desk!Reliability(o, marks, asof) \in Nat
    BY <1>7, NatProduct DEF Measured
  <1>9. o.quality.proximity * Desk!Reliability(o, marks, asof) * o.quality.independence \in Nat
    BY <1>8, NatProduct DEF Measured
  <1>10. o.quality.proximity * Desk!Reliability(o, marks, asof) * o.quality.independence
            * o.quality.timeliness \in Nat
    BY <1>9, NatProduct DEF Measured
  <1> QED
    BY <1>10, NatProduct DEF Measured, Desk!Quality

\* What still counts of some observations: finitely many, each of a weight above zero.
WeighedSet(weighed, H) ==
    /\ IsFiniteSet(weighed)
    /\ \A w \in weighed : w.weight \in Nat \ {0} /\ Measured(w.item, H)

LEMMA WeighedIsSet ==
    ASSUME NEW marks, IsFiniteSet(marks), \A l \in marks : Labelled(l), NEW H,
           NEW seen, IsFiniteSet(seen), \A o \in seen : Measured(o, H), NEW asof
    PROVE  WeighedSet(Desk!Weighed(seen, marks, asof), H)
  <1> DEFINE all == [o \in seen |-> [item |-> o, weight |-> Desk!Quality(o, marks, asof)]]
             R == {all[o] : o \in seen}
  <1>1. \A o \in seen : Desk!Quality(o, marks, asof) \in Nat
    BY QualityIsNat DEF Measured
  <1>2. IsFiniteSet(R)
    <2>1. all \in [seen -> [item : seen, weight : Nat]]
      BY <1>1
    <2> DEFINE V == [item : seen, weight : Nat]
    <2>2. all \in [seen -> V]
      BY <2>1
    <2> HIDE DEF all, V
    <2> QED
      BY ONLY IsFiniteSet(seen), <2>2, FiniteImage
  <1>3. Desk!Weighed(seen, marks, asof) = {w \in R : w.weight > 0}
    BY DEF Desk!Weighed
  <1>4. \A w \in Desk!Weighed(seen, marks, asof) :
           w.weight \in Nat \ {0} /\ Measured(w.item, H)
    BY <1>1, <1>3
  <1>5. IsFiniteSet(Desk!Weighed(seen, marks, asof))
    <2> HIDE DEF R
    <2> QED
      BY <1>2, <1>3, FS_Subset
  <1> QED
    BY <1>4, <1>5 DEF WeighedSet

LEMMA ClusterIsPart ==
    ASSUME NEW H, NEW weighed, WeighedSet(weighed, H),
           NEW c \in Desk!ClustersOf(Desk!Effective(weighed))
    PROVE  WeighedSet(Desk!Cluster(c, weighed), H) /\ Desk!Cluster(c, weighed) # {}
  <1>1. Desk!Cluster(c, weighed) # {}
    BY DEF Desk!ClustersOf, Desk!Effective, Desk!Cluster
  <1> QED
    BY <1>1, FS_Subset DEF WeighedSet, Desk!Cluster

LEMMA BestIsPositive ==
    ASSUME NEW H, NEW members, WeighedSet(members, H), members # {}
    PROVE  Desk!BestWeight(members) \in Nat \ {0}
  <1> DEFINE weight == [w \in members |-> w.weight]
             R == {weight[w] : w \in members}
  <1>1. weight \in [members -> Nat \ {0}] /\ IsFiniteSet(members)
    BY DEF WeighedSet
  <1>2. R \in SUBSET Int /\ R \subseteq Nat \ {0} /\ R # {}
    BY <1>1
  <1>3. IsFiniteSet(R)
    <2> HIDE DEF weight
    <2> QED
      BY <1>1, FiniteImage
  <1>4. Desk!Max(R) \in Nat \ {0}
    <2> HIDE DEF R
    <2> QED
      BY <1>2, <1>3, MaxIsMember
  <1>5. R = {w.weight : w \in members}
    OBVIOUS
  <1> QED
    BY <1>4, <1>5 DEF Desk!BestWeight

LEMMA ClusterBitsIsInt ==
    ASSUME NEW H, NEW members, WeighedSet(members, H), members # {}, NEW h \in H
    PROVE  Desk!ClusterBits(members, h) \in Int
  <1> DEFINE weight == [w \in members |-> w.weight]
             bits == [w \in members |-> w.item.bits[h] * w.weight]
  <1>1. IsFiniteSet(members) /\ weight \in [members -> Nat \ {0}]
    BY DEF WeighedSet
  <1>2. bits \in [members -> Int]
    <2>1. \A w \in members : w.item.bits[h] \in Int /\ w.weight \in Int
      BY DEF WeighedSet, Measured
    <2> QED
      BY <2>1
  <1> HIDE DEF weight, bits
  <1>3. Desk!SumOver(bits) \in Int /\ Desk!SumOver(weight) \in Nat \ {0}
    BY <1>1, <1>2, SumOfInts, SumOfPositives
  <1>4. Desk!BestWeight(members) \in Nat \ {0}
    BY BestIsPositive
  <1>5. Desk!SumOver(bits) * Desk!BestWeight(members) \in Int
    BY <1>3, <1>4
  <1>6. Desk!SumOver(weight) * Unit \in Nat \ {0}
    BY <1>3, PositiveProduct, DeskConstants
  <1>7. Desk!SumOver(weight) * Unit * Unit \in Nat \ {0}
    BY <1>6, PositiveProduct, DeskConstants
  <1>8. Desk!SumOver(weight) * Unit * Unit * Unit \in Nat \ {0}
    BY <1>7, PositiveProduct, DeskConstants
  <1>9. Desk!SumOver(weight) * Unit * Unit * Unit * Unit \in Nat \ {0}
    BY <1>8, PositiveProduct, DeskConstants
  <1>10. Desk!SumOver(weight) * Unit * Unit * Unit * Unit * Unit \in Nat \ {0}
    BY <1>9, PositiveProduct, DeskConstants
  <1>11. Desk!ClusterBits(members, h)
            = (Desk!SumOver(bits) * Desk!BestWeight(members))
                 \div (Desk!SumOver(weight) * Unit * Unit * Unit * Unit * Unit)
    BY DEF Desk!ClusterBits, bits, weight
  <1> QED
    BY ONLY <1>5, <1>10, <1>11, IntQuotient

\* There are no more clusters than observations.
LEMMA FewClusters ==
    ASSUME NEW S, IsFiniteSet(S)
    PROVE  IsFiniteSet(Desk!ClustersOf(S))
  <1> DEFINE cluster == [o \in S |-> o.cluster]
             V == {o.cluster : o \in S}
  <1>1. cluster \in [S -> V]
    OBVIOUS
  <1>2. \A c \in Desk!ClustersOf(S) : \E o \in S : c = cluster[o]
    BY DEF Desk!ClustersOf
  <1> HIDE DEF cluster, V
  <1> QED
    BY ONLY IsFiniteSet(S), <1>1, <1>2, FiniteImage

\* What counts are the observations with a quality above 0.
LEMMA WhatCounts ==
    \A seen, marks, asof :
        Desk!Effective(Desk!Weighed(seen, marks, asof))
           = {o \in seen : Desk!Quality(o, marks, asof) > 0}
  <1> TAKE seen, marks, asof
  <1>1. ASSUME NEW o \in seen, Desk!Quality(o, marks, asof) > 0
        PROVE  o \in Desk!Effective(Desk!Weighed(seen, marks, asof))
    <2> DEFINE w == [item |-> o, weight |-> Desk!Quality(o, marks, asof)]
    <2>1. w \in Desk!Weighed(seen, marks, asof) /\ w.item = o
      BY <1>1 DEF Desk!Weighed
    <2> HIDE DEF w
    <2> QED
      BY <2>1 DEF Desk!Effective
  <1>2. ASSUME NEW o \in Desk!Effective(Desk!Weighed(seen, marks, asof))
        PROVE  o \in seen /\ Desk!Quality(o, marks, asof) > 0
    <2>1. PICK w \in Desk!Weighed(seen, marks, asof) : o = w.item
      BY DEF Desk!Effective
    <2> QED
      BY <2>1 DEF Desk!Weighed
  <1> QED
    BY <1>1, <1>2

LEMMA ClustersAreFinite ==
    ASSUME NEW H, NEW weighed, WeighedSet(weighed, H)
    PROVE  /\ IsFiniteSet(Desk!Effective(weighed))
           /\ IsFiniteSet(Desk!ClustersOf(Desk!Effective(weighed)))
           /\ IsFiniteSet(Desk!ClustersOf(Desk!NonPrice(Desk!Effective(weighed))))
           /\ Desk!ClustersOf(Desk!NonPrice(Desk!Effective(weighed)))
                 \subseteq Desk!ClustersOf(Desk!Effective(weighed))
  <1> DEFINE item == [w \in weighed |-> w.item]
  <1>1. \A o \in Desk!Effective(weighed) : \E w \in weighed : o = item[w]
    BY DEF Desk!Effective
  <1>2. item \in [weighed -> Desk!Effective(weighed)] /\ IsFiniteSet(weighed)
    BY DEF Desk!Effective, WeighedSet
  <1>3. IsFiniteSet(Desk!Effective(weighed))
    <2> HIDE DEF item
    <2> QED
      BY <1>1, <1>2, FiniteImage
  <1>4. Desk!NonPrice(Desk!Effective(weighed)) \subseteq Desk!Effective(weighed)
    BY DEF Desk!NonPrice
  <1>5. IsFiniteSet(Desk!NonPrice(Desk!Effective(weighed)))
    BY <1>3, <1>4, FS_Subset
  <1> QED
    BY <1>3, <1>4, <1>5, FewClusters DEF Desk!ClustersOf

LEMMA BitsIsInt ==
    ASSUME NEW H, NEW weighed, WeighedSet(weighed, H), NEW h \in H
    PROVE  Desk!Bits(weighed, h) \in Int
  <1> DEFINE C == Desk!ClustersOf(Desk!Effective(weighed))
             bits == [c \in C |-> Desk!ClusterBits(Desk!Cluster(c, weighed), h)]
  <1>1. \A c \in C : Desk!ClusterBits(Desk!Cluster(c, weighed), h) \in Int
    BY ClusterIsPart, ClusterBitsIsInt
  <1>2. bits \in [C -> Int] /\ IsFiniteSet(C)
    BY <1>1, ClustersAreFinite
  <1>3. Desk!SumOver(bits) \in Int
    <2> HIDE DEF C, bits
    <2> QED
      BY <1>2, SumOfInts
  <1> QED
    BY <1>3 DEF Desk!Bits

\* A case whose hypotheses have priors: SoundCase and the field types.
PriorCase(case) ==
    /\ IsFiniteSet(DOMAIN case.hypotheses)
    /\ \A h \in DOMAIN case.hypotheses : case.hypotheses[h].prior \in Nat \ {0}
    /\ Desk!Fundamental(case) \in DOMAIN case.hypotheses

\* The odds of the three hypotheses are numbers and the sum is positive, so that a
\* posterior is a share.
LEMMA OddsArePositive ==
    ASSUME NEW case, PriorCase(case), NEW weighed,
           WeighedSet(weighed, DOMAIN case.hypotheses)
    PROVE  /\ Desk!Odds(case, weighed) \in [DOMAIN case.hypotheses -> Nat \ {0}]
           /\ Desk!SumOver(Desk!Odds(case, weighed)) \in Nat \ {0}
  <1> DEFINE H == DOMAIN case.hypotheses
             bits == [h \in H |-> Desk!Bits(weighed, h)]
             R == {bits[h] : h \in H}
             odds == [h \in H |-> case.hypotheses[h].prior * 2 ^ (bits[h] - Desk!Min(R))]
  <1>1. bits \in [H -> Int]
    BY BitsIsInt
  <1>2. IsFiniteSet(R) /\ R \in SUBSET Int /\ R # {} /\ H # {}
    <2>1. IsFiniteSet(H) /\ H # {}
      BY DEF PriorCase
    <2>2. IsFiniteSet(R)
      <3> HIDE DEF bits, H
      <3> QED
        BY <1>1, <2>1, FiniteImage
    <2>3. R \in SUBSET Int /\ R # {}
      BY <1>1, <2>1
    <2> QED
      BY <2>1, <2>2, <2>3
  <1>3. Desk!Min(R) \in Int /\ \A b \in R : Desk!Min(R) <= b
    <2> HIDE DEF R
    <2> QED
      BY <1>2, MinIsMember
  <1>4. \A h \in H : bits[h] - Desk!Min(R) \in Nat
    <2>1. \A h \in H : bits[h] \in R /\ bits[h] \in Int
      BY <1>1
    <2> HIDE DEF R, bits, H
    <2> QED
      BY <1>3, <2>1
  <1>5. odds \in [H -> Nat \ {0}]
    <2>1. ASSUME NEW h \in H
          PROVE  case.hypotheses[h].prior * 2 ^ (bits[h] - Desk!Min(R)) \in Nat \ {0}
      <3>1. case.hypotheses[h].prior \in Nat \ {0}
        BY DEF PriorCase
      <3>2. 2 ^ (bits[h] - Desk!Min(R)) \in Nat \ {0}
        <4> HIDE DEF R, bits, H
        <4> QED
          BY <1>4, PowerOfTwo
      <3> QED
        BY ONLY <3>1, <3>2, PositiveProduct
    <2> QED
      BY <2>1
  <1>6. Desk!Odds(case, weighed) = odds
    BY DEF Desk!Odds
  <1>7. IsFiniteSet(H)
    BY DEF PriorCase
  <1> HIDE DEF odds, H
  <1>8. Desk!SumOver(odds) \in Nat \ {0}
    BY <1>2, <1>5, <1>7, SumOfPositives
  <1> QED
    BY <1>5, <1>6, <1>8 DEF H

LEMMA StrengthIsNat ==
    ASSUME NEW H, NEW weighed, WeighedSet(weighed, H)
    PROVE  Desk!Strength(weighed) \in Nat
  <1> DEFINE C == Desk!ClustersOf(Desk!NonPrice(Desk!Effective(weighed)))
             n == Cardinality(C)
             best == [c \in C |-> Desk!BestWeight(Desk!Cluster(c, weighed))]
  <1>1. IsFiniteSet(C) /\ C \subseteq Desk!ClustersOf(Desk!Effective(weighed))
    BY ClustersAreFinite
  <1>2. best \in [C -> Nat]
    BY <1>1, ClusterIsPart, BestIsPositive
  <1>3. n \in Nat /\ Desk!SumOver(best) \in Nat
    <2> HIDE DEF C, best
    <2> QED
      BY <1>1, <1>2, FS_CardinalityType, SumOfNats
  <1>4. Desk!Strength(weighed)
           = IF n = 0 THEN 0 ELSE (Desk!SumOver(best) * Desk!Min({n, 4})) \div (4 * n)
    BY SameFiniteSets DEF Desk!Strength
  <1> HIDE DEF n, best, C
  <1>5. Desk!Min({n, 4}) \in Nat
    <2>1. \E x \in {n, 4} : \A y \in {n, 4} : x <= y
      BY <1>3
    <2> QED
      BY <1>3, <2>1 DEF Desk!Min
  <1>6. Desk!SumOver(best) * Desk!Min({n, 4}) \in Nat
    BY ONLY <1>3, <1>5, NatProduct
  <1>7. n # 0 => 4 * n \in Nat \ {0}
    BY <1>3
  <1> QED
    BY ONLY <1>4, <1>6, <1>7, NatQuotient

-----------------------------------------------------------------------------
(* From a belief to a target. *)

\* A stage with a cap stands on clusters beside the price, and on no falsifier.
LEMMA StageIsEarned ==
    ASSUME NEW H, NEW weighed, WeighedSet(weighed, H),
           Desk!Cap(Desk!Stage(Desk!Effective(weighed))) # 0
    PROVE  /\ \A o \in Desk!Effective(weighed) : ~o.falsifies
           /\ Cardinality(Desk!ClustersOf(Desk!NonPrice(Desk!Effective(weighed)))) >= 2
  <1> DEFINE E == Desk!Effective(weighed)
             n == Cardinality(Desk!ClustersOf(Desk!NonPrice(E)))
  <1>1. n \in Nat /\ MinimumClusters \in Nat /\ MinimumClusters >= 2
    BY ClustersAreFinite, FS_CardinalityType, DeskConstants
  <1>2. Desk!Stage(E) \notin {"INVALIDATED", "RADAR", "HYPOTHESIS", "WATCHLIST"}
    BY DEF Desk!Cap
  <1>3. /\ ~\E o \in E : o.falsifies
        /\ ~(n < MinimumClusters)
    <2> HIDE DEF E
    <2> QED
      BY <1>2, SameFiniteSets DEF Desk!Stage
  <1> QED
    BY <1>1, <1>3

\* A belief with numbers, as Update makes it.
Numbers(belief) ==
    /\ belief.odds \in Nat \ {0} /\ belief.total \in Nat \ {0} /\ belief.strength \in Nat

SizedPayoff(payoff) ==
    /\ {payoff.upside, payoff.loss} \subseteq Nat \ {0} /\ payoff.correlation \in Nat

\* No more is wanted than the cap of the stage, and no less than nothing.
LEMMA WantedIsNat ==
    ASSUME NEW belief, Numbers(belief), NEW expectation, expectation.implied \in Int,
           NEW payoff, SizedPayoff(payoff), Desk!CanSize(belief, expectation, payoff)
    PROVE  LET wanted == Desk!Wanted(belief, expectation, payoff) IN
           /\ wanted \in Nat
           /\ wanted > 0 => Desk!Cap(belief.stage) # 0 /\ wanted <= Desk!Cap(belief.stage)
  <1> DEFINE return == Desk!ExpectedReturn(belief, payoff)
             cap == Desk!Cap(belief.stage)
             floor == Desk!Max({payoff.correlation, CorrelationFloor})
             raw == Desk!RawWeight(belief, payoff)
  <1>1. return \in Int
    <2>1. belief.odds * payoff.upside \in Int
      BY DEF Numbers, SizedPayoff
    <2>2. (belief.total - belief.odds) * payoff.loss \in Int
      BY DEF Numbers, SizedPayoff
    <2> QED
      BY <2>1, <2>2 DEF Desk!ExpectedReturn
  <1>2. cap \in Nat
    BY DeskConstants DEF Desk!Cap
  <1>3. floor \in Nat
    <2>1. \E x \in {payoff.correlation, CorrelationFloor} :
             \A y \in {payoff.correlation, CorrelationFloor} : x >= y
      BY DeskConstants DEF SizedPayoff
    <2> QED
      BY <2>1, DeskConstants DEF Desk!Max, SizedPayoff
  <1>4. CASE ~Desk!Eligible(belief, expectation, payoff)
    BY <1>4 DEF Desk!Wanted
  <1>5. CASE Desk!Eligible(belief, expectation, payoff)
    <2>1. return \in Nat /\ floor \in Nat \ {0} /\ cap # 0
      <3>1. return > 0 /\ cap # 0
        BY <1>5 DEF Desk!Eligible
      <3>2. floor > 0
        BY <1>5 DEF Desk!CanSize
      <3> HIDE DEF return, floor, cap
      <3> QED
        BY <1>1, <1>3, <3>1, <3>2
    <2> HIDE DEF return, floor, cap
    <2>2. SizingMultiplier * belief.strength * return * Whole \in Nat
      <3>1. SizingMultiplier * belief.strength \in Nat
        BY DeskConstants, NatProduct DEF Numbers
      <3>2. SizingMultiplier * belief.strength * return \in Nat
        BY ONLY <2>1, <3>1, NatProduct
      <3> QED
        BY ONLY <3>2, NatProduct, DeskConstants
    <2>3. belief.total * Unit * Unit * Unit * Unit * Unit \in Nat \ {0}
      <3>1. belief.total * Unit \in Nat \ {0}
        BY PositiveProduct, DeskConstants DEF Numbers
      <3>2. belief.total * Unit * Unit \in Nat \ {0}
        BY <3>1, PositiveProduct, DeskConstants
      <3>3. belief.total * Unit * Unit * Unit \in Nat \ {0}
        BY <3>2, PositiveProduct, DeskConstants
      <3>4. belief.total * Unit * Unit * Unit * Unit \in Nat \ {0}
        BY <3>3, PositiveProduct, DeskConstants
      <3> QED
        BY <3>4, PositiveProduct, DeskConstants
    <2>4. belief.total * Unit * Unit * Unit * Unit * Unit * payoff.loss * floor \in Nat \ {0}
      <3>1. payoff.loss \in Nat \ {0}
        BY DEF SizedPayoff
      <3>2. belief.total * Unit * Unit * Unit * Unit * Unit * payoff.loss \in Nat \ {0}
        BY ONLY <2>3, <3>1, PositiveProduct
      <3> QED
        BY ONLY <2>1, <3>2, PositiveProduct
    <2>5. raw = (SizingMultiplier * belief.strength * return * Whole)
                   \div (belief.total * Unit * Unit * Unit * Unit * Unit * payoff.loss * floor)
      BY DEF Desk!RawWeight, return, floor
    <2>6. raw \in Nat
      BY ONLY <2>2, <2>4, <2>5, NatQuotient
    <2>7. Desk!Wanted(belief, expectation, payoff) = Desk!Min({cap, raw})
      BY <1>5 DEF Desk!Wanted, cap
    <2> HIDE DEF raw
    <2>8. \E x \in {cap, raw} : \A y \in {cap, raw} : x <= y
      BY <1>2, <2>6
    <2>9. Desk!Min({cap, raw}) \in {cap, raw} /\ Desk!Min({cap, raw}) <= cap
      BY <2>8 DEF Desk!Min
    <2> QED
      BY <1>2, <2>1, <2>6, <2>7, <2>9 DEF cap
  <1> QED
    BY <1>4, <1>5

\* Rounding down to a quantum loses less than one.
LEMMA Quantised ==
    ASSUME NEW w \in Nat
    PROVE  /\ (w \div Quantum) * Quantum \in Nat
           /\ (w \div Quantum) * Quantum <= w /\ w < (w \div Quantum) * Quantum + Quantum
  <1>1. Quantum \in Nat \ {0}
    BY DeskConstants
  <1>2. /\ w \div Quantum \in Nat
        /\ Quantum * (w \div Quantum) <= w /\ w < Quantum * (w \div Quantum) + Quantum
    BY <1>1
  <1>3. (w \div Quantum) * Quantum = Quantum * (w \div Quantum)
    BY <1>1, <1>2
  <1> QED
    BY <1>1, <1>2, <1>3

\* A target is within the cap of its stage; a refused purchase rounds the position down.
LEMMA TargetIsEarned ==
    ASSUME NEW belief, Numbers(belief), NEW expectation, expectation.implied \in Int,
           NEW payoff, SizedPayoff(payoff), Desk!CanSize(belief, expectation, payoff),
           NEW former, former.weight \in Nat
    PROVE  LET aim == Desk!Target(belief, expectation, payoff, former) IN
           /\ aim \in Nat
           /\ aim > 0 => Desk!Cap(belief.stage) # 0 /\ aim <= Desk!Cap(belief.stage)
           /\ Desk!AddBlocked(belief, expectation, payoff, former) =>
                 aim <= former.weight /\ former.weight < aim + Quantum
  <1> DEFINE wanted == Desk!Wanted(belief, expectation, payoff)
             blocked == Desk!AddBlocked(belief, expectation, payoff, former)
             aim == Desk!Target(belief, expectation, payoff, former)
             cap == Desk!Cap(belief.stage)
             w == IF blocked THEN former.weight ELSE wanted
  <1>1. wanted \in Nat /\ (wanted > 0 => cap # 0 /\ wanted <= cap)
    BY WantedIsNat
  <1>2. cap \in Nat
    BY DeskConstants DEF Desk!Cap
  <1>3. aim = (w \div Quantum) * Quantum
    BY DEF Desk!Target
  <1>4. blocked => former.weight < wanted
    BY <1>1 DEF Desk!AddBlocked
  <1> HIDE DEF wanted, blocked, aim, cap
  <1>5. w \in Nat /\ w <= wanted
    BY <1>1, <1>4
  <1>6. aim \in Nat /\ aim <= w /\ w < aim + Quantum
    <2> HIDE DEF w
    <2> QED
      BY <1>3, <1>5, Quantised
  <1>7. aim > 0 => cap # 0 /\ aim <= cap
    BY <1>1, <1>2, <1>5, <1>6
  <1> QED
    BY <1>6, <1>7 DEF aim, cap, blocked

-----------------------------------------------------------------------------
(* The desk's invariant. *)

\* A belief depends on what was visible and on the measurements of what was visible.
LEMMA SameUpdate ==
    ASSUME NEW case, NEW seen1, NEW seen2, NEW marks1, NEW marks2, NEW asof, NEW under,
           Desk!Visible(seen1, asof) = Desk!Visible(seen2, asof),
           \A o \in Desk!Visible(seen1, asof) :
               Desk!Track(o, marks1, asof) = Desk!Track(o, marks2, asof)
    PROVE  Desk!Update(case, seen1, marks1, asof, under)
              = Desk!Update(case, seen2, marks2, asof, under)
  <1> DEFINE seen == Desk!Visible(seen1, asof)
  <1>1. \A o \in seen : Desk!Reliability(o, marks1, asof) = Desk!Reliability(o, marks2, asof)
    BY DEF Desk!Reliability
  <1>2. \A o \in seen : Desk!Quality(o, marks1, asof) = Desk!Quality(o, marks2, asof)
    BY <1>1 DEF Desk!Quality
  <1>3. {[item |-> o, weight |-> Desk!Quality(o, marks1, asof)] : o \in seen}
           = {[item |-> o, weight |-> Desk!Quality(o, marks2, asof)] : o \in seen}
    BY <1>2
  <1>4. Desk!Weighed(seen, marks1, asof) = Desk!Weighed(seen, marks2, asof)
    BY <1>3 DEF Desk!Weighed
  <1> QED
    BY <1>4 DEF Desk!Update

\* The cases, evidence and outcomes that the value types accept.
DeskCases == {c \in DOMAIN Cases : Desk!SoundCase(Cases[c])}
DeskEvidence == {o \in DOMAIN Evidence : Desk!SoundEvidence(Evidence[o])}
DeskOutcomes == {l \in DOMAIN Outcomes : Desk!SoundOutcome(Outcomes[l])}

\* What p, made from read, rested on.
SeenIn(p, read) ==
    Desk!Visible(Desk!Observations(Desk!CaseOf(p), read), p.belief.asof)

CountedIn(p, read) ==
    {o \in SeenIn(p, read) : Desk!Quality(o, Desk!Labels(read), p.belief.asof) > 0}

RestsOnEvidence(p, read) ==
    /\ Cardinality(Desk!ClustersOf(Desk!NonPrice(CountedIn(p, read)))) >= 2
    /\ \A o \in CountedIn(p, read) : ~o.falsifies

\* What is said of a proposal and of what was read for it.
ProposalInv(p, read) ==
    /\ p.belief.case \in opened /\ p.symbol = Cases[p.belief.case].symbol
    /\ p.belief.asof \in 0..now
    /\ read.evidence \subseteq archive /\ read.labels \subseteq labels
    /\ p = Desk!Proposal(Desk!CaseOf(p),
                         Desk!Belief(Desk!CaseOf(p), read, p.belief.asof, p.belief.release),
                         p.expectation, p.payoff, p.prior)
    /\ p.target \in Nat
    /\ p.target > 0 => p.target <= Desk!Cap(p.belief.stage) /\ RestsOnEvidence(p, read)
    /\ p.blocked => p.target <= p.prior.weight /\ p.prior.weight < p.target + Quantum

\* Only what the value types accept, and finitely much, is archived.
ArchiveInv ==
    /\ now \in Nat /\ opened \subseteq DeskCases
    /\ archive \subseteq DeskEvidence /\ IsFiniteSet(archive)
    /\ labels \subseteq DeskOutcomes /\ IsFiniteSet(labels)

ProposalsInv ==
    /\ \E S : proposals \in Seq(S)
    /\ \E S : basis \in Seq(S)
    /\ Len(basis) = Len(proposals)
    /\ \A i \in 1..Len(proposals) : ProposalInv(proposals[i], basis[i])

\* An approval of a proposal that was there.
ApprovalInv(a) ==
    /\ a.of \in 1..Len(proposals) /\ a.weight \in 0..proposals[a.of].target
    /\ a.at \in Int /\ proposals[a.of].belief.asof <= a.at

\* A position is of the portfolio's own release and time.
PositionInv(a) ==
    /\ a.weight > 0
    /\ proposals[a.of].belief.release = portfolio.release
    /\ proposals[a.of].belief.asof <= portfolio.at

PriorInv ==
    /\ DOMAIN prior = Desk!Symbols
    /\ \A s \in Desk!Symbols : "weight" \in DOMAIN prior[s] /\ prior[s].weight \in Nat

\* Whoever is held is in the portfolio.
HeldInv ==
    \A s \in Desk!Held : \E a \in portfolio.positions : proposals[a.of].symbol = s

DeskInv ==
    /\ ArchiveInv /\ ProposalsInv
    /\ \A a \in approvals : ApprovalInv(a)
    /\ portfolio.positions \subseteq approvals
    /\ \A a \in portfolio.positions : PositionInv(a)
    /\ PriorInv /\ HeldInv

LEMMA DeskInit == Desk!Init => DeskInv
  <1> SUFFICES ASSUME Desk!Init
               PROVE  DeskInv
    OBVIOUS
  <1>1. ArchiveInv
    BY FS_EmptySet DEF Desk!Init, ArchiveInv
  <1>2. ProposalsInv
    <2>1. /\ proposals \in Seq({}) /\ Len(proposals) = 0
          /\ basis \in Seq({}) /\ Len(basis) = 0
      BY DEF Desk!Init
    <2> QED
      BY <2>1 DEF ProposalsInv
  <1>3. approvals = {} /\ portfolio.positions = {}
    BY DEF Desk!Init, Desk!NoPortfolio
  <1>4. PriorInv /\ \A s \in Desk!Symbols : prior[s].weight = 0
    BY DEF Desk!Init, PriorInv, Desk!NoPrior
  <1>5. HeldInv
    BY <1>4 DEF HeldInv, Desk!Held
  <1> QED
    BY <1>1, <1>2, <1>3, <1>4, <1>5 DEF DeskInv

LEMMA DeskValues ==
    /\ \A c \in DeskCases :
          PriorCase(Cases[c]) /\ Cases[c].id = c /\ Cases[c].symbol \in Desk!Symbols
    /\ \A c \in DeskCases, o \in DeskEvidence :
          Desk!Concerns(Evidence[o], Cases[c])
             => Measured(Evidence[o], DOMAIN Cases[c].hypotheses)
    /\ \A l \in DeskOutcomes : Labelled(Outcomes[l])
    /\ \A o \in DeskEvidence : Evidence[o].available \in Int
    /\ \A l \in DeskOutcomes : Outcomes[l].availableAt \in Int
  <1>1. ASSUME NEW c \in DeskCases
        PROVE  PriorCase(Cases[c]) /\ Cases[c].id = c /\ Cases[c].symbol \in Desk!Symbols
    <2> DEFINE case == Cases[c]
    <2>1. c \in DOMAIN Cases /\ Desk!SoundCase(case)
      BY DEF DeskCases
    <2>2. case.id = c /\ IsFiniteSet(DOMAIN case.hypotheses)
      BY <2>1, StandaloneAssumption, SameFiniteSets DEF Desk!DeskAssumption
    <2>3. /\ \A h \in DOMAIN case.hypotheses : case.hypotheses[h].prior \in Nat \ {0}
          /\ {case.hypotheses[h].kind : h \in DOMAIN case.hypotheses} = Desk!HypothesisKinds
      <3>1. /\ \A h \in DOMAIN case.hypotheses : Desk!SoundHypothesis(case.hypotheses[h])
            /\ {case.hypotheses[h].kind : h \in DOMAIN case.hypotheses}
                  = Desk!HypothesisKinds
        BY ONLY <2>1 DEF Desk!SoundCase
      <3> QED
        BY <3>1 DEF Desk!SoundHypothesis
    <2>4. Desk!Fundamental(case) \in DOMAIN case.hypotheses
      <3>1. "FUNDAMENTAL" \in Desk!HypothesisKinds
        BY DEF Desk!HypothesisKinds
      <3>2. \E h \in DOMAIN case.hypotheses : case.hypotheses[h].kind = "FUNDAMENTAL"
        BY <2>3, <3>1
      <3> QED
        BY <3>2 DEF Desk!Fundamental
    <2> QED
      BY <2>1, <2>2, <2>3, <2>4 DEF PriorCase, Desk!Symbols
  <1>2. ASSUME NEW c \in DeskCases, NEW o \in DeskEvidence,
               Desk!Concerns(Evidence[o], Cases[c])
        PROVE  Measured(Evidence[o], DOMAIN Cases[c].hypotheses)
    <2>1. /\ {"proximity", "reliability", "independence", "timeliness", "gap"}
                = DOMAIN Evidence[o].quality
          /\ Desk!SoundEvidence(Evidence[o])
      BY StandaloneAssumption DEF Desk!DeskAssumption, DeskEvidence
    <2>2. \A f \in DOMAIN Evidence[o].quality : Evidence[o].quality[f] \in Nat
      BY <2>1, DeskConstants DEF Desk!SoundEvidence
    <2>3. \A h \in DOMAIN Cases[c].hypotheses : Evidence[o].bits[h] \in Int
      BY <1>2, <2>1 DEF Desk!SoundEvidence, Desk!Concerns
    <2> QED
      BY <2>1, <2>2, <2>3 DEF Measured
  <1>3. \A l \in DeskOutcomes : Labelled(Outcomes[l])
    BY DeskConstants DEF DeskOutcomes, Desk!SoundOutcome, Labelled
  <1>4. /\ \A o \in DeskEvidence : Evidence[o].available \in Int
        /\ \A l \in DeskOutcomes : Outcomes[l].availableAt \in Int
    BY StandaloneAssumption DEF Desk!DeskAssumption, DeskEvidence, DeskOutcomes
  <1> QED
    BY <1>1, <1>2, <1>3, <1>4

\* Time goes on, and nothing is taken out of the archive.
LEMMA ArchiveStep ==
    ASSUME ArchiveInv, [Desk!Next]_Desk!vars
    PROVE  /\ ArchiveInv' /\ now <= now' /\ opened \subseteq opened'
           /\ archive \subseteq archive' /\ labels \subseteq labels'
  <1> USE DEF ArchiveInv
  <1>1. CASE Desk!Tick
    BY <1>1 DEF Desk!Tick, Desk!research
  <1>2. CASE \E c \in DOMAIN Cases : Desk!OpenCase(c)
    BY <1>2 DEF Desk!OpenCase, DeskCases
  <1>3. ASSUME NEW batch \in EvidenceBatches, Desk!Collect(batch)
        PROVE  /\ ArchiveInv' /\ UNCHANGED <<now, opened, labels>>
               /\ archive' = archive \cup batch
    <2>1. batch \subseteq DOMAIN Evidence /\ IsFiniteSet(batch)
      BY StandaloneAssumption, SameFiniteSets DEF Desk!DeskAssumption
    <2>2. batch \subseteq DeskEvidence
      BY <1>3, <2>1 DEF Desk!Collect, DeskEvidence
    <2>3. archive' = archive \cup batch /\ UNCHANGED <<now, opened, labels>>
      BY <1>3 DEF Desk!Collect
    <2>4. IsFiniteSet(archive \cup batch)
      BY <2>1, FS_Union
    <2> QED
      BY <2>2, <2>3, <2>4
  <1>4. ASSUME NEW batch \in OutcomeBatches, Desk!Label(batch)
        PROVE  /\ ArchiveInv' /\ UNCHANGED <<now, opened, archive>>
               /\ labels' = labels \cup batch
    <2>1. batch \subseteq DOMAIN Outcomes /\ IsFiniteSet(batch)
      BY StandaloneAssumption, SameFiniteSets DEF Desk!DeskAssumption
    <2>2. batch \subseteq DeskOutcomes
      BY <1>4, <2>1 DEF Desk!Label, DeskOutcomes
    <2>3. labels' = labels \cup batch /\ UNCHANGED <<now, opened, archive>>
      BY <1>4 DEF Desk!Label
    <2>4. IsFiniteSet(labels \cup batch)
      BY <2>1, FS_Union
    <2> QED
      BY <2>2, <2>3, <2>4
  <1>5. CASE \E batch \in EvidenceBatches : Desk!Collect(batch)
    BY <1>3, <1>5
  <1>6. CASE \E batch \in OutcomeBatches : Desk!Label(batch)
    BY <1>4, <1>6
  <1>7. CASE UNCHANGED <<now, opened, archive, labels>>
    BY <1>7
  <1>8. ASSUME \/ \E c \in opened, e \in Expectations, p \in Payoffs :
                     Desk!Review(Cases[c], e, p)
               \/ \E i \in DOMAIN proposals, share \in ApprovedShares :
                     Desk!Approve(i, (proposals[i].target * share) \div 100)
               \/ \E chosen \in SUBSET approvals : Desk!Build(chosen)
               \/ \E s \in Desk!Symbols, by \in Drifts : Desk!Drift(s, by)
               \/ UNCHANGED Desk!vars
        PROVE  UNCHANGED <<now, opened, archive, labels>>
    BY <1>8 DEF Desk!Review, Desk!Approve, Desk!Build, Desk!Drift, Desk!vars, Desk!research
  <1> QED
    BY <1>1, <1>2, <1>5, <1>6, <1>7, <1>8 DEF Desk!Next

\* What was decided, and what was read for it, stay as they were.
LEMMA ProposalKept ==
    ASSUME ArchiveInv, [Desk!Next]_Desk!vars, NEW p, NEW read, ProposalInv(p, read)
    PROVE  ProposalInv(p, read)'
  <1>1. /\ opened \subseteq opened' /\ 0..now \subseteq 0..now'
        /\ archive \subseteq archive' /\ labels \subseteq labels'
    BY ArchiveStep DEF ArchiveInv
  <1>2. /\ Desk!Belief(Desk!CaseOf(p), read, p.belief.asof, p.belief.release)'
              = Desk!Belief(Desk!CaseOf(p), read, p.belief.asof, p.belief.release)
        /\ SeenIn(p, read)' = SeenIn(p, read)
    BY DEF Desk!Belief, Desk!CaseOf, SeenIn, Desk!Observations, Desk!Labels
  <1>3. RestsOnEvidence(p, read)' <=> RestsOnEvidence(p, read)
    BY <1>2 DEF RestsOnEvidence, CountedIn, Desk!Labels
  <1> QED
    BY <1>1, <1>2, <1>3 DEF ProposalInv, Desk!CaseOf

LEMMA LabelsAreFinite ==
    ASSUME ArchiveInv
    PROVE  IsFiniteSet(Desk!Labels(Desk!Archived)) /\ \A l \in Desk!Labels(Desk!Archived) : Labelled(l)
  <1> DEFINE of == [l \in labels |-> Outcomes[l]]
             V == {Outcomes[l] : l \in labels}
  <1>1. of \in [labels -> V] /\ IsFiniteSet(labels)
    BY DEF ArchiveInv
  <1>2. {of[l] : l \in labels} = Desk!Labels(Desk!Archived)
    BY DEF Desk!Labels, Desk!Archived
  <1>3. \A l \in Desk!Labels(Desk!Archived) : Labelled(l)
    BY DeskValues DEF ArchiveInv, Desk!Labels, Desk!Archived
  <1> HIDE DEF of, V
  <1> QED
    BY <1>1, <1>2, <1>3, FiniteImage

LEMMA ObservationsAreFinite ==
    ASSUME ArchiveInv, NEW case
    PROVE  IsFiniteSet(Desk!Observations(case, Desk!Archived))
  <1> DEFINE S == {o \in archive : Evidence[o].case = case.id}
             of == [o \in S |-> Evidence[o]]
             V == {Evidence[o] : o \in S}
  <1>1. of \in [S -> V]
    OBVIOUS
  <1>2. IsFiniteSet(S)
    BY FS_Subset DEF ArchiveInv
  <1>3. {of[o] : o \in S} = Desk!Observations(case, Desk!Archived)
    BY DEF Desk!Observations, Desk!Archived
  <1> HIDE DEF of, V, S
  <1> QED
    BY <1>1, <1>2, <1>3, FiniteImage

\* A review makes a proposal of which all that is true.
LEMMA ReviewProposes ==
    ASSUME ArchiveInv, PriorInv, NEW c \in opened, NEW e \in Expectations, NEW payoff \in Payoffs,
           Desk!Review(Cases[c], e, payoff)
    PROVE  \E p : /\ proposals' = Append(proposals, p) /\ ProposalInv(p, Desk!Archived)
                  /\ basis' = Append(basis, Desk!Archived)
                  /\ UNCHANGED <<now, release, opened, archive, labels, approvals, prior,
                                 portfolio>>
  <1> DEFINE case == Cases[c]
             H == DOMAIN case.hypotheses
             seen == Desk!Visible(Desk!Observations(case, Desk!Archived), now)
             weighed == Desk!Weighed(seen, Desk!Labels(Desk!Archived), now)
             effective == Desk!Effective(weighed)
             belief == Desk!Belief(case, Desk!Archived, now, release)
             former == prior[case.symbol]
             p == Desk!Proposal(case, belief, e, payoff, former)
  <1>1. /\ c \in DeskCases /\ PriorCase(case) /\ case.id = c /\ case.symbol \in Desk!Symbols
        /\ now \in Nat
    BY DeskValues DEF ArchiveInv
  <1>2. /\ \A o \in Desk!Observations(case, Desk!Archived) : Desk!Concerns(o, case)
        /\ Desk!SoundPayoff(payoff) /\ Desk!CanSize(belief, e, payoff)
        /\ proposals' = Append(proposals, p) /\ basis' = Append(basis, Desk!Archived)
        /\ UNCHANGED <<now, release, opened, archive, labels, approvals, prior, portfolio>>
    BY DEF Desk!Review, Desk!research
  <1>3. IsFiniteSet(seen) /\ \A o \in seen : Measured(o, H)
    <2>1. \A o \in Desk!Observations(case, Desk!Archived) : Measured(o, H)
      BY <1>1, <1>2, DeskValues DEF Desk!Observations, Desk!Archived, ArchiveInv
    <2>2. seen \subseteq Desk!Observations(case, Desk!Archived)
      BY DEF Desk!Visible
    <2> QED
      BY <2>1, <2>2, ObservationsAreFinite, FS_Subset
  <1>4. WeighedSet(weighed, H)
    BY <1>3, LabelsAreFinite, WeighedIsSet
  <1>5. /\ belief.case = c /\ belief.asof = now /\ belief.release = release
        /\ belief.stage = Desk!Stage(effective)
        /\ belief.odds = Desk!Odds(case, weighed)[Desk!Fundamental(case)]
        /\ belief.total = Desk!SumOver(Desk!Odds(case, weighed))
        /\ belief.strength = Desk!Strength(weighed)
    BY <1>1 DEF Desk!Belief, Desk!Update
  <1>6. Numbers(belief)
    <2> HIDE DEF belief, weighed
    <2>1. Desk!Fundamental(case) \in H
      BY <1>1 DEF PriorCase
    <2>2. Desk!Odds(case, weighed)[Desk!Fundamental(case)] \in Nat \ {0}
      BY <1>1, <1>4, <2>1, OddsArePositive
    <2> QED
      BY <1>1, <1>4, <1>5, <2>2, OddsArePositive, StrengthIsNat DEF Numbers
  <1>7. SizedPayoff(payoff) /\ e.implied \in Int /\ former.weight \in Nat
    <2>1. {payoff.upside, payoff.loss, payoff.correlation} \subseteq Int /\ e.implied \in Int
      BY StandaloneAssumption DEF Desk!DeskAssumption
    <2>2. former.weight \in Nat
      BY <1>1 DEF PriorInv
    <2>3. payoff.upside > 0 /\ payoff.loss > 0 /\ payoff.correlation \in 0..100
      BY <1>2 DEF Desk!SoundPayoff
    <2>4. payoff.upside \in Nat \ {0} /\ payoff.loss \in Nat \ {0} /\ payoff.correlation \in Nat
      BY ONLY <2>1, <2>3
    <2> QED
      BY <2>1, <2>2, <2>4 DEF SizedPayoff
  <1>8. /\ p.symbol = case.symbol /\ p.belief = belief /\ p.expectation = e
        /\ p.payoff = payoff /\ p.prior = former
        /\ p.target = Desk!Target(belief, e, payoff, former)
        /\ p.blocked = Desk!AddBlocked(belief, e, payoff, former)
    BY DEF Desk!Proposal
  <1>9. /\ p.target \in Nat
        /\ p.target > 0 => Desk!Cap(belief.stage) # 0 /\ p.target <= Desk!Cap(belief.stage)
        /\ p.blocked => p.target <= former.weight /\ former.weight < p.target + Quantum
    <2> HIDE DEF p, belief, former
    <2> QED
      BY <1>2, <1>6, <1>7, <1>8, TargetIsEarned
  <1> HIDE DEF p, belief, former
  <1>10. Desk!CaseOf(p) = case /\ SeenIn(p, Desk!Archived) = seen
    BY <1>5, <1>8 DEF Desk!CaseOf, SeenIn
  <1>11. ASSUME p.target > 0
         PROVE  RestsOnEvidence(p, Desk!Archived)
    <2>1. /\ \A o \in effective : ~o.falsifies
          /\ Cardinality(Desk!ClustersOf(Desk!NonPrice(effective))) >= 2
      <3> HIDE DEF weighed
      <3> QED
        BY <1>4, <1>5, <1>9, <1>11, StageIsEarned
    <2>2. effective = {o \in seen : Desk!Quality(o, Desk!Labels(Desk!Archived), now) > 0}
      BY WhatCounts
    <2>3. effective = CountedIn(p, Desk!Archived)
      BY <1>5, <1>8, <1>10, <2>2 DEF CountedIn
    <2> HIDE DEF effective
    <2> QED
      BY <2>1, <2>3 DEF RestsOnEvidence
  <1>12. p = Desk!Proposal(Desk!CaseOf(p),
                           Desk!Belief(Desk!CaseOf(p), Desk!Archived, p.belief.asof,
                                       p.belief.release),
                           p.expectation, p.payoff, p.prior)
    BY <1>5, <1>8, <1>10 DEF p, belief
  <1>13. Desk!Archived.evidence \subseteq archive /\ Desk!Archived.labels \subseteq labels
    BY DEF Desk!Archived
  <1>14. ProposalInv(p, Desk!Archived)
    BY <1>1, <1>5, <1>8, <1>9, <1>11, <1>12, <1>13 DEF ProposalInv
  <1> QED
    BY <1>2, <1>14 DEF p, belief, former

LEMMA ProposalsKept ==
    ASSUME ArchiveInv, ProposalsInv, [Desk!Next]_Desk!vars, UNCHANGED <<proposals, basis>>
    PROVE  ProposalsInv'
  <1>1. \A p, read : ProposalInv(p, read) => ProposalInv(p, read)'
    BY ProposalKept
  <1>2. ASSUME NEW i \in 1..Len(proposals)
        PROVE  ProposalInv(proposals[i], basis[i])'
    <2> DEFINE p == proposals[i]
               read == basis[i]
    <2>1. ProposalInv(p, read) /\ p' = p /\ read' = read
      BY DEF ProposalsInv
    <2> HIDE DEF p, read
    <2>2. ProposalInv(p, read)'
      BY <1>1, <2>1
    <2> QED
      BY <2>2 DEF p, read
  <1> QED
    BY <1>2 DEF ProposalsInv

LEMMA ReviewKeepsDesk ==
    ASSUME DeskInv, [Desk!Next]_Desk!vars,
           NEW c \in opened, NEW e \in Expectations, NEW payoff \in Payoffs,
           Desk!Review(Cases[c], e, payoff)
    PROVE  DeskInv'
  <1>1. PICK p : /\ proposals' = Append(proposals, p) /\ ProposalInv(p, Desk!Archived)
                 /\ basis' = Append(basis, Desk!Archived)
                 /\ UNCHANGED <<now, release, opened, archive, labels, approvals, prior,
                                portfolio>>
    BY ReviewProposes DEF DeskInv
  <1>2. PICK S, B : proposals \in Seq(S) /\ basis \in Seq(B)
    BY DEF DeskInv, ProposalsInv
  <1> DEFINE read == Desk!Archived
  <1>3. /\ proposals' \in Seq(S \cup {p}) /\ Len(proposals) \in Nat
        /\ Len(proposals') = Len(proposals) + 1
        /\ proposals'[Len(proposals) + 1] = p
        /\ \A i \in 1..Len(proposals) : proposals'[i] = proposals[i]
    <2>1. proposals \in Seq(S \cup {p})
      BY <1>2
    <2> QED
      BY <1>1, <2>1, AppendProperties, LenProperties
  <1> HIDE DEF read
  <1>4. /\ basis' \in Seq(B \cup {read}) /\ Len(basis') = Len(proposals) + 1
        /\ basis'[Len(proposals) + 1] = read
        /\ \A i \in 1..Len(proposals) : basis'[i] = basis[i]
    <2>1. basis \in Seq(B \cup {read}) /\ Len(basis) = Len(proposals)
      BY <1>2 DEF DeskInv, ProposalsInv
    <2>2. basis' = Append(basis, read)
      BY <1>1 DEF read
    <2> QED
      BY <2>1, <2>2, AppendProperties, LenProperties
  <1>5. \A q, b : ProposalInv(q, b) => ProposalInv(q, b)'
    BY ProposalKept DEF DeskInv
  <1>6. ASSUME NEW i \in 1..Len(proposals')
        PROVE  ProposalInv(proposals[i], basis[i])'
    <2>1. PICK q, b : q = proposals'[i] /\ b = basis'[i] /\ ProposalInv(q, b)
      <3>1. CASE i = Len(proposals) + 1
        BY <1>1, <1>3, <1>4, <3>1 DEF read
      <3>2. CASE i # Len(proposals) + 1
        <4>1. i \in 1..Len(proposals)
          BY <1>3, <3>2
        <4>2. ProposalInv(proposals[i], basis[i])
          BY <4>1 DEF DeskInv, ProposalsInv
        <4> QED
          BY <1>3, <1>4, <4>1, <4>2
      <3> QED
        BY <3>1, <3>2
    <2> DEFINE q0 == proposals[i]
               b0 == basis[i]
    <2>2. q0' = q /\ b0' = b
      BY <2>1
    <2> HIDE DEF q0, b0
    <2>3. ProposalInv(q0, b0)'
      BY <1>5, <2>1, <2>2
    <2> QED
      BY <2>3 DEF q0, b0
  <1>7. ArchiveInv' /\ ProposalsInv'
    BY <1>3, <1>4, <1>6, ArchiveStep DEF DeskInv, ProposalsInv
  <1>8. \A a \in approvals : a.of \in 1..Len(proposals)
    BY DEF DeskInv, ApprovalInv
  <1>9. \A a \in approvals' : ApprovalInv(a)'
    BY <1>1, <1>3, <1>8 DEF DeskInv, ApprovalInv
  <1>10. /\ portfolio'.positions \subseteq approvals'
        /\ \A a \in portfolio'.positions : PositionInv(a)'
    BY <1>1, <1>3, <1>8 DEF DeskInv, PositionInv
  <1>11. PriorInv'
    BY <1>1 DEF DeskInv, PriorInv
  <1>12. HeldInv'
    <2>1. Desk!Held' = Desk!Held
      BY <1>1 DEF Desk!Held
    <2> QED
      BY <1>1, <1>3, <1>8, <2>1 DEF DeskInv, HeldInv
  <1> QED
    BY <1>7, <1>9, <1>10, <1>11, <1>12 DEF DeskInv

LEMMA ApproveKeepsDesk ==
    ASSUME DeskInv, [Desk!Next]_Desk!vars, NEW i \in DOMAIN proposals, NEW weight,
           Desk!Approve(i, weight)
    PROVE  DeskInv'
  <1> DEFINE given == [of |-> i, weight |-> weight, at |-> now]
  <1>1. /\ approvals' = approvals \cup {given}
        /\ Desk!CanApprove(proposals[i], weight, now)
        /\ UNCHANGED <<now, release, opened, archive, labels, proposals, prior, portfolio, basis>>
    BY DEF Desk!Approve, Desk!research
  <1>2. i \in 1..Len(proposals)
    BY LenProperties DEF DeskInv, ProposalsInv
  <1>3. ApprovalInv(given)
    BY <1>1, <1>2 DEF ApprovalInv, Desk!CanApprove, DeskInv, ArchiveInv
  <1> HIDE DEF given
  <1>4. ArchiveInv' /\ ProposalsInv'
    BY <1>1, ArchiveStep, ProposalsKept DEF DeskInv
  <1>5. \A a \in approvals' : ApprovalInv(a)'
    BY <1>1, <1>3 DEF DeskInv, ApprovalInv
  <1>6. /\ portfolio'.positions \subseteq approvals'
        /\ \A a \in portfolio'.positions : PositionInv(a)'
    BY <1>1 DEF DeskInv, PositionInv
  <1>7. PriorInv' /\ HeldInv'
    BY <1>1 DEF DeskInv, PriorInv, HeldInv, Desk!Held
  <1> QED
    BY <1>4, <1>5, <1>6, <1>7 DEF DeskInv

LEMMA BuildKeepsDesk ==
    ASSUME DeskInv, [Desk!Next]_Desk!vars, NEW chosen \in SUBSET approvals, Desk!Build(chosen)
    PROVE  DeskInv'
  <1>1. /\ Desk!CanBuild(Desk!Book(chosen), Desk!Held, now, release)
        /\ portfolio'.at = now /\ portfolio'.release = release
        /\ portfolio'.positions = {a \in chosen : a.weight > 0}
        /\ prior' = [s \in Desk!Symbols |-> Desk!PriorAfter(s, chosen)]
        /\ UNCHANGED <<now, release, opened, archive, labels, proposals, approvals, basis>>
    BY DEF Desk!Build, Desk!research
  <1>2. ArchiveInv' /\ ProposalsInv'
    BY <1>1, ArchiveStep, ProposalsKept DEF DeskInv
  <1>3. \A a \in approvals' : ApprovalInv(a)'
    BY <1>1 DEF DeskInv, ApprovalInv
  <1>4. \A a \in chosen : /\ ApprovalInv(a) /\ a.at <= now /\ now \in Int
                          /\ proposals[a.of].belief.release = release
                          /\ proposals[a.of].belief.asof \in Int
                          /\ a.weight \in Nat
    <2> TAKE a \in chosen
    <2>1. ApprovalInv(a) /\ ProposalInv(proposals[a.of], basis[a.of]) /\ now \in Int
      BY DEF DeskInv, ProposalsInv, ApprovalInv, ArchiveInv
    <2>2. a.at <= now /\ proposals[a.of].belief.release = release
      <3> DEFINE b == [proposal |-> proposals[a.of], weight |-> a.weight, at |-> a.at]
      <3>1. b \in Desk!Book(chosen) /\ b.at = a.at /\ b.proposal = proposals[a.of]
        BY DEF Desk!Book
      <3> HIDE DEF b
      <3> QED
        BY <1>1, <3>1 DEF Desk!CanBuild
    <2> QED
      BY <2>1, <2>2 DEF ApprovalInv, ProposalInv
  <1>5. /\ portfolio'.positions \subseteq approvals'
        /\ \A a \in portfolio'.positions : PositionInv(a)'
    BY <1>1, <1>4 DEF PositionInv, ApprovalInv
  <1>6. ASSUME NEW s \in Desk!Symbols
        PROVE  /\ "weight" \in DOMAIN prior'[s] /\ prior'[s].weight \in Nat
               /\ prior'[s].weight > 0 =>
                     \E a \in portfolio'.positions : proposals[a.of].symbol = s
    <2>1. prior'[s] = Desk!PriorAfter(s, chosen)
      BY <1>1
    <2>2. CASE \E a \in chosen : proposals[a.of].symbol = s
      <3> DEFINE a == CHOOSE a \in chosen : proposals[a.of].symbol = s
      <3>1. a \in chosen /\ proposals[a.of].symbol = s
        BY <2>2
      <3>2. prior'[s] = IF a.weight = 0 THEN Desk!NoPrior
                        ELSE [weight |-> a.weight, stage |-> proposals[a.of].belief.stage,
                              strength |-> proposals[a.of].belief.strength,
                              hash |-> proposals[a.of].belief.hash,
                              domains |-> proposals[a.of].belief.domains]
        BY <2>1, <2>2 DEF Desk!PriorAfter
      <3> HIDE DEF a
      <3>3. "weight" \in DOMAIN prior'[s] /\ prior'[s].weight = a.weight
        BY <3>2 DEF Desk!NoPrior
      <3> QED
        BY <1>1, <1>4, <3>1, <3>3
    <2>3. CASE ~\E a \in chosen : proposals[a.of].symbol = s
      <3>1. prior'[s] = prior[s]
        BY <2>1, <2>3 DEF Desk!PriorAfter
      <3>2. s \notin Desk!Held
        <4>1. Desk!Held \subseteq {b.proposal.symbol : b \in Desk!Book(chosen)}
          BY <1>1 DEF Desk!CanBuild
        <4>2. \A b \in Desk!Book(chosen) : \E a \in chosen : b.proposal = proposals[a.of]
          BY DEF Desk!Book
        <4> QED
          BY <2>3, <4>1, <4>2
      <3> QED
        BY <3>1, <3>2 DEF DeskInv, PriorInv, Desk!Held
    <2> QED
      BY <2>2, <2>3
  <1>7. PriorInv'
    BY <1>1, <1>6 DEF PriorInv
  <1>8. HeldInv'
    BY <1>1, <1>6 DEF HeldInv, Desk!Held
  <1> QED
    BY <1>2, <1>3, <1>5, <1>7, <1>8 DEF DeskInv

LEMMA DriftKeepsDesk ==
    ASSUME DeskInv, [Desk!Next]_Desk!vars, NEW s \in Desk!Symbols, NEW by \in Drifts,
           Desk!Drift(s, by)
    PROVE  DeskInv'
  <1>1. /\ prior[s].weight > 0 /\ prior[s].weight + by \in 0..Whole
        /\ prior' = [prior EXCEPT ![s].weight = @ + by]
        /\ UNCHANGED <<now, release, opened, archive, labels, proposals, approvals, portfolio,
                       basis>>
    BY DEF Desk!Drift, Desk!research
  <1>2. ArchiveInv' /\ ProposalsInv'
    BY <1>1, ArchiveStep, ProposalsKept DEF DeskInv
  <1>3. \A a \in approvals' : ApprovalInv(a)'
    BY <1>1 DEF DeskInv, ApprovalInv
  <1>4. /\ portfolio'.positions \subseteq approvals'
        /\ \A a \in portfolio'.positions : PositionInv(a)'
    BY <1>1 DEF DeskInv, PositionInv
  <1>5. /\ DOMAIN prior' = Desk!Symbols
        /\ "weight" \in DOMAIN prior'[s] /\ prior'[s].weight \in Nat
        /\ \A r \in Desk!Symbols \ {s} : prior'[r] = prior[r]
    <2>1. DOMAIN prior = Desk!Symbols /\ "weight" \in DOMAIN prior[s]
      BY DEF DeskInv, PriorInv
    <2> DEFINE after == [prior[s] EXCEPT !.weight = @ + by]
    <2>2. prior' = [prior EXCEPT ![s] = after]
      BY <1>1
    <2>3. DOMAIN after = DOMAIN prior[s] /\ after.weight = prior[s].weight + by
      BY <2>1
    <2>4. prior[s].weight + by \in Nat
      BY <1>1, DeskConstants
    <2> HIDE DEF after
    <2> QED
      BY <2>1, <2>2, <2>3, <2>4
  <1>6. PriorInv'
    <2>1. \A r \in Desk!Symbols : "weight" \in DOMAIN prior'[r] /\ prior'[r].weight \in Nat
      BY <1>5 DEF DeskInv, PriorInv
    <2> QED
      BY <1>5, <2>1 DEF PriorInv
  <1>7. HeldInv'
    <2>1. Desk!Held' \subseteq Desk!Held
      BY <1>1, <1>5 DEF Desk!Held
    <2> QED
      BY <1>1, <2>1 DEF DeskInv, HeldInv
  <1> QED
    BY <1>2, <1>3, <1>4, <1>6, <1>7 DEF DeskInv

LEMMA DeskStep == DeskInv /\ [Desk!Next]_Desk!vars => DeskInv'
  <1> SUFFICES ASSUME DeskInv, [Desk!Next]_Desk!vars
               PROVE  DeskInv'
    OBVIOUS
  <1>1. ASSUME UNCHANGED <<proposals, approvals, prior, portfolio, basis>>
        PROVE  DeskInv'
    <2>1. ArchiveInv' /\ ProposalsInv'
      BY <1>1, ArchiveStep, ProposalsKept DEF DeskInv
    <2>2. \A a \in approvals' : ApprovalInv(a)'
      BY <1>1 DEF DeskInv, ApprovalInv
    <2>3. /\ portfolio'.positions \subseteq approvals'
          /\ \A a \in portfolio'.positions : PositionInv(a)'
      BY <1>1 DEF DeskInv, PositionInv
    <2>4. PriorInv' /\ HeldInv'
      BY <1>1 DEF DeskInv, PriorInv, HeldInv, Desk!Held
    <2> QED
      BY <2>1, <2>2, <2>3, <2>4 DEF DeskInv
  <1>2. ASSUME \/ Desk!Tick \/ \E c \in DOMAIN Cases : Desk!OpenCase(c)
               \/ \E batch \in EvidenceBatches : Desk!Collect(batch)
               \/ \E batch \in OutcomeBatches : Desk!Label(batch)
               \/ UNCHANGED Desk!vars
        PROVE  DeskInv'
    <2>1. UNCHANGED <<proposals, approvals, prior, portfolio, basis>>
      BY <1>2 DEF Desk!Tick, Desk!OpenCase, Desk!Collect, Desk!Label, Desk!vars, Desk!decisions
    <2> QED
      BY <1>1, <2>1
  <1>3. CASE \E c \in opened, e \in Expectations, p \in Payoffs : Desk!Review(Cases[c], e, p)
    BY <1>3, ReviewKeepsDesk
  <1>4. CASE \E i \in DOMAIN proposals, share \in ApprovedShares :
                Desk!Approve(i, (proposals[i].target * share) \div 100)
    BY <1>4, ApproveKeepsDesk
  <1>5. CASE \E chosen \in SUBSET approvals : Desk!Build(chosen)
    BY <1>5, BuildKeepsDesk
  <1>6. CASE \E s \in Desk!Symbols, by \in Drifts : Desk!Drift(s, by)
    BY <1>6, DriftKeepsDesk
  <1> QED
    BY <1>2, <1>3, <1>4, <1>5, <1>6 DEF Desk!Next

LEMMA DeskInvariance == Desk!Spec => []DeskInv
  BY DeskInit, DeskStep, PTL DEF Desk!Spec

\* What was read, and what came later: without late evidence the same is visible, and
\* without late labels of what is visible the same measurements count.
LEMMA ReplayReads ==
    ASSUME DeskInv, NEW i \in 1..Len(proposals),
           Desk!LateEvidence(i) = {}, Desk!LateLabels(i) = {}
    PROVE  LET p == proposals[i]
               then == Desk!Observations(Desk!CaseOf(p), basis[i])
               again == Desk!Observations(Desk!CaseOf(p), Desk!Archived)
           IN  /\ Desk!Visible(again, p.belief.asof) = Desk!Visible(then, p.belief.asof)
               /\ \A o \in Desk!Visible(again, p.belief.asof) :
                     Desk!Track(o, Desk!Labels(Desk!Archived), p.belief.asof)
                        = Desk!Track(o, Desk!Labels(basis[i]), p.belief.asof)
  <1> DEFINE t == proposals[i].belief.asof
             case == Desk!CaseOf(proposals[i])
             read == basis[i]
             then == Desk!Visible(Desk!Observations(case, read), t)
  <1>1. read.evidence \subseteq archive /\ read.labels \subseteq labels
    BY DEF DeskInv, ProposalsInv, ProposalInv
  <1>2. Desk!Visible(Desk!Observations(case, Desk!Archived), t) = then
    <2>1. \A e \in archive \ read.evidence :
             Evidence[e].case = case.id => ~(Evidence[e].available <= t)
      BY DEF Desk!LateEvidence
    <2> HIDE DEF t, case, read
    <2> QED
      BY <1>1, <2>1 DEF Desk!Visible, Desk!Observations, Desk!Archived
  <1>3. ASSUME NEW o \in then
        PROVE  Desk!Track(o, Desk!Labels(Desk!Archived), t) = Desk!Track(o, Desk!Labels(read), t)
    <2>1. \A l \in labels \ read.labels :
             ~(/\ Outcomes[l].availableAt <= t /\ Outcomes[l].layer = Desk!Measurement
               /\ Outcomes[l].source = o.source /\ Outcomes[l].method = o.method)
      BY <1>3 DEF Desk!LateLabels, Desk!Seen
    <2> HIDE DEF t, case, read, then
    <2> QED
      BY <1>1, <2>1 DEF Desk!Track, Desk!OutcomesAsof, Desk!Labels, Desk!Archived
  <1> QED
    BY <1>2, <1>3

\* Whatever evidence, labels and releases came later, a decision recomputed at its own
\* time is the decision that was made, unless an entry came late that was available by
\* then and that the decision would have read.
THEOREM DecisionsReplay == Desk!Spec => []OnlyLateEntriesChangeReplay
  <1>1. ASSUME DeskInv, NEW i \in 1..Len(proposals),
               Desk!LateEvidence(i) = {}, Desk!LateLabels(i) = {}
        PROVE  Desk!Again(i) = proposals[i]
    <2> DEFINE p == proposals[i]
    <2>1. p = Desk!Proposal(Desk!CaseOf(p),
                            Desk!Belief(Desk!CaseOf(p), basis[i], p.belief.asof,
                                        p.belief.release),
                            p.expectation, p.payoff, p.prior)
      BY <1>1 DEF DeskInv, ProposalsInv, ProposalInv
    <2>2. Desk!Belief(Desk!CaseOf(p), Desk!Archived, p.belief.asof, p.belief.release)
             = Desk!Belief(Desk!CaseOf(p), basis[i], p.belief.asof, p.belief.release)
      <3> DEFINE then == Desk!Observations(Desk!CaseOf(p), basis[i])
                 again == Desk!Observations(Desk!CaseOf(p), Desk!Archived)
      <3>1. /\ Desk!Visible(again, p.belief.asof) = Desk!Visible(then, p.belief.asof)
            /\ \A o \in Desk!Visible(again, p.belief.asof) :
                  Desk!Track(o, Desk!Labels(Desk!Archived), p.belief.asof)
                     = Desk!Track(o, Desk!Labels(basis[i]), p.belief.asof)
        BY <1>1, ReplayReads
      <3> HIDE DEF then, again, p
      <3>2. Desk!Update(Desk!CaseOf(p), again, Desk!Labels(Desk!Archived), p.belief.asof,
                        p.belief.release)
               = Desk!Update(Desk!CaseOf(p), then, Desk!Labels(basis[i]), p.belief.asof,
                             p.belief.release)
        BY <3>1, SameUpdate
      <3> QED
        BY <3>2 DEF Desk!Belief, then, again
    <2>3. Desk!Again(i)
             = Desk!Proposal(Desk!CaseOf(p),
                             Desk!Belief(Desk!CaseOf(p), Desk!Archived, p.belief.asof,
                                         p.belief.release),
                             p.expectation, p.payoff, p.prior)
      BY DEF Desk!Again
    <2> HIDE DEF p
    <2>4. Desk!Again(i) = p
      BY <2>1, <2>2, <2>3
    <2> QED
      BY <2>4 DEF p
  <1>2. DeskInv => OnlyLateEntriesChangeReplay
    BY <1>1, LenProperties
    DEF DeskInv, ProposalsInv, OnlyLateEntriesChangeReplay, Desk!OnlyLateEntriesChangeReplay
  <1> QED
    BY <1>2, DeskInvariance, PTL

\* A refused purchase keeps the position but for less than a quantum.
THEOREM RefusedPurchaseKeeps == Desk!Spec => []BlockedAddKeepsPosition
  <1>1. DeskInv => BlockedAddKeepsPosition
    BY LenProperties
    DEF DeskInv, ProposalsInv, ProposalInv, BlockedAddKeepsPosition, Desk!BlockedAddKeepsPosition
  <1> QED
    BY <1>1, DeskInvariance, PTL

\* No portfolio has a position without two clusters of evidence beside the price, with
\* a falsifier that counts, beyond its stage's cap or of another release's proposal,
\* and none leaves out a symbol that was held.
THEOREM EveryPositionIsEarned == Desk!Spec => []PositionsAreEarned
  <1>1. ASSUME DeskInv
        PROVE  PositionsAreEarned
    <2>1. ASSUME NEW a \in portfolio.positions
          PROVE  LET p == proposals[a.of] IN
                 /\ p.belief.release = portfolio.release /\ p.belief.asof <= portfolio.at
                 /\ RestsOnEvidence(p, basis[a.of]) /\ a.weight <= Desk!Cap(p.belief.stage)
      <3> DEFINE p == proposals[a.of]
      <3>1. /\ a.of \in 1..Len(proposals) /\ a.weight \in 0..p.target /\ PositionInv(a)
        BY <1>1 DEF DeskInv, ApprovalInv
      <3>2. ProposalInv(p, basis[a.of])
        BY <1>1, <3>1 DEF DeskInv, ProposalsInv
      <3>3. p.target \in Nat /\ p.target > 0 /\ a.weight \in Nat
        BY <3>1, <3>2 DEF ProposalInv, PositionInv
      <3>4. p.target <= Desk!Cap(p.belief.stage) /\ RestsOnEvidence(p, basis[a.of])
        BY <3>2, <3>3 DEF ProposalInv
      <3>5. Desk!Cap(p.belief.stage) \in Nat
        BY DeskConstants DEF Desk!Cap
      <3>6. a.weight <= Desk!Cap(p.belief.stage)
        <4> HIDE DEF p
        <4> QED
          BY <3>1, <3>3, <3>4, <3>5
      <3> QED
        BY <3>1, <3>4, <3>6 DEF PositionInv
    <2>2. \A s \in Desk!Held : \E a \in portfolio.positions : proposals[a.of].symbol = s
      BY <1>1 DEF DeskInv, HeldInv
    <2>3. Desk!PositionsAreEarned
      BY <2>1, <2>2, SameFiniteSets
      DEF Desk!PositionsAreEarned, Desk!Counted, RestsOnEvidence, CountedIn, SeenIn, Desk!Seen
    <2> QED
      BY <2>3 DEF PositionsAreEarned
  <1> QED
    BY <1>1, DeskInvariance, PTL
=============================================================================
