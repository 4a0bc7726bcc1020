---------------------------- MODULE PointInTime ----------------------------
(***************************************************************************)
(* What was known when: PointInTimeTable, repository and context           *)
(* (data/point_in_time/), and FactorValueCache (factors/registry/cache.py) *)
(* over the tables of successive data releases.  A table is the sequence   *)
(* of records a release was built from; statements and index memberships   *)
(* are records under keys of their own.  Values are computed from what a   *)
(* release says was known, and only for the dates the cache lacks.         *)
(***************************************************************************)
EXTENDS Integers, Sequences, FiniteSets

CONSTANTS
    Items,          \* records that may arrive, before they are ingested
    FirstDay, LastDay,
    NoRecord,
    MaxReleases,    \* bounds: data releases, and records in a table
    MaxRecords

Key == [kind : {"statement", "member"}, index : STRING, symbol : STRING]
Value == [from : Nat, to : Nat, metric : Int]

\* A record of a table says besides when it was ingested.
Item == [key : Key, value : Value, announced : Nat, available : Nat, revision : Int,
         source : STRING, id : Nat]
Record == [key : Key, value : Value, announced : Nat, available : Nat, revision : Int,
           source : STRING, id : Nat, ingested : Nat]

PointInTimeAssumption ==
    /\ FirstDay \in Nat /\ LastDay \in Nat /\ MaxReleases \in Nat /\ MaxRecords \in Nat
    /\ Items \subseteq Item /\ NoRecord \notin Record

VARIABLES
    today,
    arrived,    \* records ingested so far, in the order of the next table
    releases,   \* the tables of the data releases
    cache       \* FactorValueCache._values, as a set of entries

vars == <<today, arrived, releases, cache>>

Days == FirstDay..LastDay

Init == today = FirstDay /\ arrived = <<>> /\ releases = <<>> /\ cache = {}

-----------------------------------------------------------------------------
(* PointInTimeRecord and PointInTimeTable. *)

Ingested(item) ==
    [key |-> item.key, value |-> item.value, announced |-> item.announced,
     available |-> item.available, revision |-> item.revision, source |-> item.source,
     id |-> item.id, ingested |-> today]

SoundRecord(r) == r.announced <= r.available /\ r.available <= r.ingested /\ r.revision >= 0

Identity(r) == <<r.key, r.source, r.id, r.revision>>

RecordsAsof(table, asof) == {i \in DOMAIN table : table[i].available <= asof}

\* Mutant: what came in last comes first.
LatestIngestedFirst(r, q) ==
    \/ r.ingested > q.ingested
    \/ r.ingested = q.ingested /\ r.available > q.available

\* _precedence(r) > _precedence(q); ids are numbers, in their order.
Exceeds(r, q) ==
    \/ r.available > q.available
    \/ r.available = q.available /\ r.revision > q.revision
    \/ r.available = q.available /\ r.revision = q.revision /\ r.ingested > q.ingested
    \/ /\ r.available = q.available /\ r.revision = q.revision
       /\ r.ingested = q.ingested /\ r.id > q.id

\* latest_by_key keeps the first of the records that none exceeds.
Latest(table, key, asof) ==
    LET of == {i \in RecordsAsof(table, asof) : table[i].key = key}
        best == {i \in of : \A j \in of : ~Exceeds(table[j], table[i])}
    IN  IF of = {} THEN NoRecord ELSE table[CHOOSE i \in best : \A j \in best : i <= j]

KeysAsof(table, asof) == {table[i].key : i \in RecordsAsof(table, asof)}

-----------------------------------------------------------------------------
(* PointInTimeRepository. *)

\* IndexMembership.contains; to is 0 when the membership is open.
Contains(value, day) == value.from <= day /\ (value.to = 0 \/ day <= value.to)

Constituents(table, index, day, asof) ==
    {k.symbol : k \in {m \in KeysAsof(table, asof) :
        m.kind = "member" /\ m.index = index /\ Contains(Latest(table, m, asof).value, day)}}

Statement(table, symbol, asof) ==
    Latest(table, [kind |-> "statement", index |-> "", symbol |-> symbol], asof)

\* A factor's values of a day: the metric of each constituent, where there is one.
Values(table, day) ==
    {<<s, Statement(table, s, day)>> : s \in Constituents(table, "hs300", day, day)}

-----------------------------------------------------------------------------

Tick == today < LastDay /\ today' = today + 1 /\ UNCHANGED <<arrived, releases, cache>>

\* A record comes in; a table refuses a second one of the same identity.
Ingest(item) ==
    /\ Len(arrived) < MaxRecords
    /\ SoundRecord(Ingested(item))
    /\ \A i \in DOMAIN arrived : Identity(arrived[i]) # Identity(Ingested(item))
    /\ arrived' = Append(arrived, Ingested(item))
    /\ UNCHANGED <<today, releases, cache>>

Release ==
    /\ Len(releases) < MaxReleases
    /\ releases' = Append(releases, arrived)
    /\ UNCHANGED <<today, arrived, cache>>

\* Mutant: the release is left out of the key.
KeyOfDay(day, release) == [day |-> day, release |-> 1]

\* FactorCacheKey, for one expression and parameter.
CacheKey(day, release) == [day |-> day, release |-> release]

Cached(key) == {e \in cache : e.key = key}

MissingDates(days, release) == {d \in days : Cached(CacheKey(d, release)) = {}}

\* put() keeps equal values and refuses different ones.
Put(entries) ==
    /\ \A e \in entries : \A c \in Cached(e.key) : c.values = e.values
    /\ cache' = cache \cup entries

\* The missing dates are computed from the release's table.
Compute(days, release) ==
    /\ MissingDates(days, release) # {}
    /\ Put({[key |-> CacheKey(d, release), values |-> Values(releases[release], d)]
            : d \in MissingDates(days, release)})
    /\ UNCHANGED <<today, arrived, releases>>

Next ==
    \/ Tick \/ Release
    \/ \E item \in Items : Ingest(item)
    \/ \E release \in DOMAIN releases, until \in FirstDay..today :
          Compute(FirstDay..until, release)

Spec == Init /\ [][Next]_vars

-----------------------------------------------------------------------------

Older(r, q) ==
    \/ r.available < q.available
    \/ r.available = q.available /\ r.revision < q.revision

\* Whatever arrives late, a later release answers a question about a day in the past
\* with the same record or a newer revision, and never with one that was not out.
LaterReleasesOnlyRevise ==
    \A m, n \in DOMAIN releases, day \in Days : m <= n =>
        \A key \in KeysAsof(releases[m], day) :
            LET before == Latest(releases[m], key, day)
                after == Latest(releases[n], key, day)
            IN  after # NoRecord /\ after.available <= day /\ ~Older(after, before)

\* Whoever reads a release's values from the cache reads what that release says was
\* known on the day, also where another release was computed before.
CacheHoldsWhatWasKnown ==
    \A release \in DOMAIN releases, day \in Days :
        \A e \in Cached(CacheKey(day, release)) : e.values = Values(releases[release], day)
=============================================================================
