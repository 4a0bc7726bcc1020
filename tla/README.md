# A verified model of the ashare research and trading platform

These TLA+ modules model the parts of the repository that decide something over time:
the execution side, which must not lose or repeat an order; the data side, which must
not publish what it should not; the decisions and simulations in between, which must not
use what was not known; and the gates to production and to a live broker.  TLC checks
the modules on small instances; TLAPS proves the safety properties for every value of
the constants. Paths below are relative to the repository; `aquant` is `src/aquant`.

    tlc -config <run>.cfg <MC module>       a run, see "Runs"
    tlapm <module>Proofs.tla                the proofs of a module

`PROJECT.json` names, for each definition, the lines it models, and for each property a
mutant of the model that breaks it (the definitions commented "Mutant").

## 1. The system and its parts

| Part | State it keeps | Operations | Model |
| --- | --- | --- | --- |
| Execution agent, `execution/agent.py` | none of its own between runs; a `pending()` snapshot within `run_once` | `run_once`, `unresolved_count` | `ExecutionAgent` |
| Order store, `execution/order_manager/store.py` | a record per idempotency key: APPROVED, SUBMITTED, FAILED, UNKNOWN | `approve`, `pending`, `mark_*`, `records` | `ExecutionAgent` |
| Kill switch, `execution/kill_switch/service.py` | active or not, reasons | `activate`, `reset`, `require_inactive` | `ExecutionAgent` |
| Intraday monitor, `portfolio/risk/intraday.py` | none | `evaluate` | `ExecutionAgent` |
| Pre-trade risk, `portfolio/risk/pretrade.py` | none | `check`: eight reasons to refuse | `PreTradeRisk` |
| Broker event journal, `execution/order_manager/events.py` | event ids, archive, a status per order | `record`, `status` | `BrokerEventJournal` |
| Paper broker, `execution/paper/broker.py` | account, prices, orders, idempotency index, fills | `submit_order`, `set_price`, `cancel_order`, queries | `PaperBroker` |
| QMT adapter, `execution/qmt/adapter.py` | idempotency index, cached orders | `submit_order`, `query_order`, `cancel_order` | `QmtAdapter` |
| Daily update, `scripts/tushare_daily_update.py`, `data/daily_update.py` | lock file, checkpoint, report, latest file | one process per schedule, retry or manual call | `DailyUpdate` |
| Release publisher, `data/catalog/release.py` | release directories | `publish` | `DailyUpdate` |
| Bulk archiver, `data/ingestion/tushare_bulk.py`, and raw store, `raw_store.py` | sqlite rows per page, batch directories | `archive_page`, `archive_paginated`, `write_response` | `Backfill` |
| Backfill, `scripts/tushare_backfill.py` | lock file, report | stages, worker pools | `Backfill` |
| Rebalance planner, `portfolio/construction/rebalance.py`; reconciliation, `execution/reconciliation/service.py` | none; they read snapshots | `plan`, `reconcile_accounts` | `Rebalance` |
| Backtest: engine, queue, order book, matching, ledger, fees, `backtest/` | event heap, standing orders, account | `run` | `Backtest`, `Matching` |
| Point-in-time table, `data/point_in_time/`; factor cache, `factors/registry/cache.py` | records; values per date | `as_of`, queries; `put`, `missing_dates` | `PointInTime` |
| Discretionary strategy, `strategies/discretionary/` | cases, evidence, labels, proposals, approvals | review, propose, approve, build | `Beliefs`, `Positioning`, `Desk` |
| Knowledge, factor and model registries | status and evidence per item | `discover`, `transition`, `register` | `Governance` |
| Settings, `config/settings.py` | the validated settings | `load_settings` | `Settings` |
| Order intent and lifecycle, `domain/orders.py` | an immutable intent, a transition table | `transition`, key derivation | table in `BrokerEventJournal`, key in `Rebalance` |

**How they interact.**  Approved intents enter the order store.  `run_once` asks the
kill switch, takes the pending records, asks a context provider for account and market
data, runs the risk check, calls the broker and writes the outcome into the store.  The
monitor counts UNKNOWN records and trips the kill switch.  What is approved comes from
the planner, which compares a target portfolio with an account snapshot; the targets
come from a strategy, such as the discretionary one, which reads evidence under a data
release.  The broker is the paper broker or the QMT adapter over a gateway; its
callbacks go to the journal.  On the data side the backfill and the daily update drive
the same archiver; the daily update puts what it fetched through the quality gate and
publishes a numbered release, and a risk context says whether today's release is there.

**What is hard.** The agent may die between a broker call and its record. A broker call
may raise after the order was taken. Approvals, the operator, the monitor and the market
act between the steps of a run. Callbacks arrive late, twice and out of order. Several
update processes share files and a lock, and each may die or raise between any two files
it writes. A download resumes from pages of earlier runs, and its workers outlive the
exception of one of them; it keeps what it later finds of no use. Plans are made again
from an old snapshot while orders trade. Data arrives late, revised and misdated, and a
decision must come out the same when it is recomputed, or the difference be owed to what
was entered late. Settings come from files and variables that override each other.
`PROJECT.json` lists these hazards at their lines, with the properties that cover them
or the reason why none does.

**What makes each part correct.**  Agent and store: an approved order reaches the broker
once, is settled for good, and is dealt with in the end.  Brokers: one order per key, an
account explained by the fills.  Journal: every callback once, no regress.  Daily
update: one run at a time, nothing released that failed the gate, a COMPLETED report
that names its release.  Backfill: a true report, no page lost or asked for twice.
Rebalancing: a position never passes its target.  Backtest: the account is what the
fills make of it, and nothing trades before it was decided.  Point in time and desk: no
answer about the past changes but by what was late to arrive.  Registries and settings:
no way round an approval or a gate.

## 2. Modules

**ExecutionAgent** (with **PreTradeRisk**).  `records` is the store's dict,
`killReasons` the kill switch ({} when inactive), `stage`/`todo`/`current`/`reply` the
place in `run_once` and its local variables.  `run_once` is cut at its calls, since that
is where the surroundings act: `RunOnce` (agent.py:35-38), `Check` (context and risk,
:39-44), `SubmitReturns`/`SubmitRaises` (:45-50), `MarkSubmitted` (:46), `Finish`.
`ContextRaises` and `Abort` leave the loop through an exception and a death. `Approve`,
`Activate`, `Reset`, `Evaluate` are the surroundings.  `calls` and `restarts` are
history.  The risk check compares whole numbers; rates are fractions.

**BrokerEventJournal**.  `eventIds`, `callbacks`, `statuses` are the three fields of the
journal.  `reported` and `sent` are the broker and the channel: any callback sent may be
delivered at any time and again.  What the broker may report next is the constant
`Reports`; the run gives it the transition table of `domain/orders.py`.

**PaperBroker**.  All of the state, one action per method.  A call is atomic: the code
has no call-out in it.  Prices and amounts are whole numbers.

**QmtAdapter**.  The three methods that write the state are cut at the gateway's answer
(adapter.py:43, :49, :60), where something outside may intervene: `answer` is in the
agent's hand (`GatewayAnswers` or `QueryExisting`, then `RecordAnswer` or
`CacheExisting`), `seen` in the operator's (`Queried` or `Cancelled`, then `CacheSeen`).
The gateway is not in the repository: `Accept`, `Report` and `Trade` are external.  It
may take an order and raise, answers with a status or UNKNOWN, and its orders are filled
in part or whole, cancelled or rejected on their own.

**PaperTrading**, **QmtTrading** compose the agent with each broker: an action of the
composition is the agent's and the broker's action together, `Restart` is the death of
the agent.  The order store is a dict in memory; as disaster-recovery.md:8 and the tests
do, the compositions take it for durable and let it outlive the agent.  A context is a
quote with the paper broker's account of the moment it is asked for.

**OnceOnlyOrders** is the abstract specification: an approved intent is placed at most
once, and only approved ones are.  Both compositions implement it (`PlacedOnceOnly`):
`approved` maps to the keys in the store, `placed[k]` to the number of orders at the
broker under `k`.

**DailyUpdate**. Processes that share files only; a step ends where another process, or
a death, can see the difference. `run[p]` is the process: stage of `main`, directory,
verdict. `Start` looks for the COMPLETED report before the lock is taken, as main does
(:327-344); `TryLock` is flock; `Fetch` one job of the pool with `archive_job`; `Judge`
the gate and `next_release_id`; `Publish`, `WriteReport`, `WriteLatest` the three things
written; `Finish` the log line after them, which may raise yet; `Raise` the exception
handler; `Crash` a death, which frees the lock. A release is a record of directory and
content. `disturbed` is history: the processes whose run had an error it could not do
without. All pages of a job are one outcome here; quarantine files, hashes, indices and
the disk check are left out.

A forced run, whose directory is its own, counts as a process that contends for the
lock.

**Backfill**.  `task[j]` is the place of a job in `archive_paginated`; `checkpoint` the
COMPLETED rows; `raw` the responses in the raw store.  `Answered` is the rename of the
batch directory, `Checkpoint` is `record_success`, with a death possible between them.
`Fails`, `Refused`, `GiveUp`, `Breaks` are the four ways in which a request ends without
a page: the last two fail an optional job as well.  A sequential stage stops at the
first failure; a pool drains before its exception leaves.  What a page holds is one of
five contents: full, short, nothing of use, the rows of an earlier page, or rows that do
not fit the fields; the last are only told from others where the script reads them
(`Read`), nothing of use only where it needs some (`Needed`: an open session before the
market data, a stock before the financials).  Which jobs there are
is a constant, although the reference stage finds days and stocks; the order of jobs in
a sequential stage is any; the two walks of a stock's corporate actions are two jobs;
files that are archived are not removed from outside.

**Rebalance**.  `target` and `quotes` are plan's arguments, `local` the snapshot it is
given, `broker` the account as it really is, `orders` the store with what became of each
order. `Plan` computes the whole plan and approves it until a request conflicts with a
known key, which ends the caller's loop.  `Trade` and `Close` are the broker, in parts
or early; `Snapshot` brings `local` up to date at any time; `Brief` sets the next target
once the accounts reconcile and nothing is open, as trading-sop.md demands before the
open. `start` and `unlearned` are history.

**Backtest** over **Matching**. `stage` is the place in `run`: `Schedule` checks the
calendar and pushes the events, `OpenSession` and `CloseSession` pop one, `MatchOrder`
is one turn of the matching loop, for the first of the orders in `pending`, from the
engine's cash limit through matcher, validation and ledger to the order book; `Submit`
is whatever the strategy asks for at a close. A bar that is missing skips the order and
fails the snapshot. Prices are counted in fractions of `Base`, so that slippage and
every fee rate are exact. `Matching` is pure: fees, both matchers, price limits, lots,
participation.

**PointInTime**.  `arrived` is what was ingested, `Release` builds a table of it under
the next release; `Latest`, `Constituents`, `Statement` are the queries.  `Compute` is
the use made of the factor cache: ask for the missing dates, compute them under the
release, put them.

**Beliefs**, **Positioning** and **Desk**. The first two are pure: the constraints of
the value types, calibration, belief revision and stage; edge, caps, blocked additions,
the proposal, when it may be approved and when a portfolio may be built of it. `Desk`
has the actions: cases are opened, evidence collected, labels written, cases reviewed,
proposals approved by hand, portfolios built, while time, releases and prices go on.
Evidence and labels may be archived at any time, also when they have long been
available: neither the value types nor `CalibrationLedger.add` ask when they come in.
`basis` is history: what was there to read at each decision. Likelihood ratios are
powers of two, so that a product over clusters is a sum of bits and every share is
exact. A correlation of 0 under a floor of 0 raises (`CanSize`); a price may move a
weight within the whole, as PriorPositionState demands (`Drift`).

**Governance** has the three registries: `Discover`/`Transition` for knowledge,
`Register`/`MoveFactor` for factors, `RegisterModel` for artifacts.  Knowledge asks for a
SHA-256 wherever it takes evidence; a factor for 64 characters, on two of its moves.

**Settings**.  `Write` and `SetEnviron` change files and environment while nothing runs,
`Start` is `load_settings`: merge in order (`MergedFiles`), overrides, defaults,
validators.

**Standalone** puts the journal and the six groups of modules above together. They share
no state, so `subject` picks the component a behaviour belongs to and the others stand
still; nothing is lost by it, and the state spaces add up instead of multiplying.
`MCStandalone` gives its constants values.

**Sums** defines the sum of the first n values of a function, which the accounts of
`PaperBroker` and `Backtest` are explained by; it is a recursive function, not a
recursive operator, so that it can be reasoned about.

## 3. Runs

| Run | Instance | States | What it shows |
| --- | --- | --- | --- |
| `agent` | 2 keys, 3 requests, 2 restarts | 16 000 | at most one call per life of the agent; settled records stay; approved orders are dealt with; the kill switch brings rest; an UNKNOWN order trips it |
| `paper_broker` | 3 keys, 2 symbols, 6 requests | 13 000 | solvency; one order per key; orders and fills agree; the account is what the fills make of it |
| `paper_trading` | 2 keys, 1 symbol, 2 quotes, 1 restart | 42 000 | implements OnceOnlyOrders; SUBMITTED means placed as approved; at most one order unaccounted for per restart |
| `qmt_trading` | 2 keys, 2 requests, 4 statuses and UNKNOWN, 1 restart outside the call | 1 161 000 | implements OnceOnlyOrders; a lost order is UNKNOWN; what the adapter remembers as closed is closed, however late an answer is written |
| `standalone` | journal: 2 orders, 3 callbacks; backtest: 2 symbols, 3 sessions, 3 orders; desk: 2 cases, 7 pieces of evidence, 2 reviews and approvals; rebalancing: 2 symbols, 3 targets, 2 days; point in time: 8 items of which 3 arrive, 2 releases; governance: 1 idea, 1 factor, 1 model, 2 texts for evidence; settings: 3 files | 245 000 | journal: the status is the highest recorded, a closed order is learnt in the end; backtest: account and fills agree, what the matcher offers is accepted, trades only at later opens, only the commission overdraws; desk: only what was entered late changes a decision recomputed, positions are earned, a blocked addition keeps the position; rebalancing: no overshoot, exact reconciliation; later releases only revise, the cache holds what was known; production is confirmed; every gate is needed |
| `daily` | 2 processes, a mode and a forced run, 2 jobs, 1 death or exception | 232 000 | exclusion; sound releases; COMPLETED names its own release; no republication without a cause; a run that nothing disturbs completes |
| `backfill` | calendar and stock list, then a pool of a required job of 2 pages and an optional one, 2 attempts, 1 death | 125 000 | a true report; checkpoint never ahead of the raw store; no page asked for twice; workers rest when the run is over; reruns complete |
| `paper_failed_but_filled` | 1 restart | | violated: see 5 |
| `qmt_abort_in_call` | death inside the call | | violated: see 5 |
| `daily_released_again` | no death, no exception | | violated: see 5 |
| `daily_not_resumable` | empty calendar possible; reruns without end | | violated: see 5 |
| `desk_adds_on_price` | one case, evidence before entry, then a price | | violated: see 5 |

**Why these bounds are enough.** Two keys and a conflicting request for one of them meet
every branch of store and brokers; a third key in `paper_broker` lets cash and position
be moved by another symbol. In `agent` two restarts let the agent die again over the
order it had in hand at its first death; with the brokers one restart already brings
back a record whose order is at the broker. Three callbacks allow a whole lifecycle of
one order, or two of one against one of another, in every order of delivery; what is
proved holds for any number. One death or exception at any step of any of three runs
reaches every combination of files that one interrupted run can leave; the proofs put no
bound on their number. Two processes suffice for the lock and for the check before it; a
third adds no new pair. "wrong" rows occur in `daily_released_again` and in the proofs;
in `daily` they would only be one more failing outcome. Two pages are the least that let
a provider repeat one. The reference jobs have one page each: that one is empty or
unreadable is what matters. The two keys of `qmt_trading` are alike, and so are
interchangeable (`KeySymmetry`); REJECTED, closed like CANCELLED, occurs in the proofs.
In the backtest a minimum commission above the value of a lot and cash for one purchase
reach the overdrawn account; volumes cut an order to one lot, so that a rest is matched
at a later open; bars may lack either symbol. The desk's evidence is the least that
reaches each stage, falsifies it, and brings a calibrated source. Rebalancing turns back
halfway and meets a symbol without a price. Two releases and three records let a
revision arrive before, after and together with what it revises. Three files and a set
of variables can open, close and misspell each gate. Bounds named in the modules:
`MaxCallbacks`, `MaxRestarts`, `MaxForced`, `MaxFailures`, `MaxCrashes`, `MaxPages`,
`MaxOrders`, `MaxDays`, `MaxReleases`, `MaxRecords`, `MaxTime`, `MaxReviews`,
`MaxApprovals`, `MaxFiles`.

Deadlock is checked except where the system may stop: a component of `standalone` at its
bounds or at the end of a backtest, an update or backfill that has completed.

**Fairness.**  `agent`: the caller goes on calling `run_once` and the monitor; a run
goes on; `Check` is strongly fair since the context provider may raise again and again
but not for ever.  `standalone`: the journal's channel loses nothing for ever.  `daily`:
a process that runs goes on (`FairSpec`).  Nothing is assumed about another start: the
scheduled task is restarted three times (install_daily_update_tasks.ps1:64,
tushare-daily-update.md:84), and the next day's run has another directory.  So the
property is about the single run: `UndisturbedRunCompletes` says that each of these
attempts, once it has the lock, completes unless the provider fails, or the run raises or
dies, in that attempt.  `daily_not_resumable` does assume an operator who repeats the
command and a provider that answers (`RerunSpec`), since its claim is that this helps.
`backfill`: the operator runs the command again (as tushare-backfill.md:11 says), a page
asked for again and again is answered some time, not necessarily with anything of use,
and an archived page is checkpointed some time.  Nothing stops a provider from failing,
refusing or repeating.  `RerunsComplete` excludes by its premise what no rerun repairs
because it is checkpointed (`Poisoned`): a repeated page of a required job, a page that
cannot be read, no open session, no stock.

## 4. Proofs

| Module | Inductive invariant | Theorems |
| --- | --- | --- |
| `ExecutionAgentProofs` | types, `SnapshotIsPending` (what a run has still to do is APPROVED), `CallsAccounted` (an APPROVED order was sent at most once per restart, and once more while the reply is in hand) | `CallsBoundedByRestarts`, `SettledIsFinal`, `ApprovedTermsKept`, types |
| `PaperBrokerProofs` | types, `Solvent`, `OneOrderPerKey`, `FillsMatchOrders`; with `Explained` | these, `OrdersOnlyClose` and `AccountExplainedByFills` |
| `PaperTradingProofs` | `AgentInv`, `BrokerInv`, `AnswerInv`: orders are those approved, one per key; what the agent holds or noted is the order the index names; `RunInv` (a run works on records still approved), `AccountInv` | `SubmittedIsPlaced`, `UnaccountedBoundedByRestarts`; the refinement of OnceOnlyOrders; agent and broker each implement their own specification |
| `QmtTradingProofs` | `AgentInv`, `AdapterInv` (the index names the gateway's orders; the answer in hand is the one of the request asked), `CachedClosureIsTrue`; `OncePerKey` with `LostOrderIsUnknown` | `CachedClosureIsTrue`, types, the agent implements its specification; without a death inside the call also `LostOrderIsUnknown`, `NoDuplicateAtGateway`, the refinement of OnceOnlyOrders |
| `DailyUpdateProofs` | types, exclusion, `Gate` (what is judged passed and is archived; its number is the next), `Sound`, `Reported`; `HistInv` (errors are gaps, what was released stays archived) and `Counted` (releases of a directory against failures and the processes that can release it no more) | `OneRunAtATime`, `ReleasesAreSound`, `CompletedIsReleased`, `RepublicationHasACause`, types |
| `BackfillProofs` | types, `InHand` (a response in hand is in the raw store, its row open), `FullWithin`, `Walks` (a walk has only full pages behind it), `InStages` (only the stage in hand moves; a sequential stage has one job in flight or failed) | `ReportIsTrue`, `CheckpointHasRaw`, `CompletedStays`, `WorkersRest`, types |
| `SumsProofs` | | what a sum is: empty, extended by one value, of functions that agree, an integer |
| `StandaloneProofs` | one for each component, below | `StatusIsHighestRecorded`, `NoOvershoot`, `DifferencesAreUnlearnedTrades`, `ProductionIsConfirmed`, `LaterReleasesOnlyRevise`, `CacheHoldsWhatWasKnown`, `AccountMatchesFills`, `FillsAreAccepted`, `TradesAtLaterOpens`, `OnlyCommissionOverdraws`, `EveryGateIsNeeded`, `OnlyLateEntriesChangeReplay`, `PositionsAreEarned`, `BlockedAddKeepsPosition`; the journal's types, `ArchivedOnce`, `NoRegression` |

Every safety property that a run checks is proved for all values of the constants that
the assumptions allow.  In `StandaloneProofs` a theorem is about the component's own
`Spec`; `EachAlone` says that a behaviour of `Standalone` is one of each of them.  The
invariants there:

* **Journal**: `JournalTyped`, with the archive and the highest status recorded.
* **Rebalancing**: `OneWay` (a symbol is untouched since the target was set, or has one
  order on the way to it, which accounts for its position, while the snapshot lies
  between start and position), `UnlearnedIsTheGap`.
* **Registries**: `IdeaHistory` and `FactorHistory`: what the history of an item is
  tells its status, and the status what its history has been through.
* **Point in time**: tables begin with the earlier ones, and an entry of the cache is
  what its release's table says.  The latest record is the first of the highest
  precedence (`ForemostExists`, `LatestIsForemost`); a longer table has a higher one or
  the same one first.
* **Backtest**: `QueueInv`, `BookInv` (orders not yet looked at were submitted before
  this open and have no fill of it), `FillInv`, `Account` (cash, positions and filled
  quantities are sums over the fills), `Overdraft`.  The matcher's side is a chain of
  lemmas on lots, affordable quantities and fees: what `Matched` offers is within the
  order, the limit, the position and the cash (`MatchedOffer`, `NeverRefused`).
* **Settings**: a name is in a merge of files only if it is in one of them, and an
  unknown one stays (`MergedNames`).
* **Desk**: `ProposalInv` of every proposal and of what there was to read at it
  (`basis`): it is `Proposal` of that.  Archive and ledger only grow, so that recomputing
  it from what is there now sees at least as much; with nothing late the visible evidence
  and its records of success are the same, and so is the belief (`SameUpdate`).
  Stages,
  strengths and odds are numbers of the right sign by lemmas on sums, maxima and finite
  sets, and a target is within the cap of its stage (`StageIsEarned`, `TargetIsEarned`).

Each proof shows that Init establishes the invariant and that every action keeps it, one
lemma or case per action; the theorems follow by temporal logic.  The invariants are
needed because the properties are not inductive: `SettledIsFinal` fails from a state
whose snapshot holds a settled key, `CompletedIsReleased` from one in which a process is
about to report a release it has not made, `ReportIsTrue` from one whose walk has
skipped a page, `NoOvershoot` from one with a snapshot on the far side of the target,
from which `Plan` would turn round, `TradesAtLaterOpens` from one with an order pending
that was filled at this open, `RepublicationHasACause` from one in which every process
may still release.  The refinement proofs count the orders of a key: `Cardinality` is 0
or 1 by `OneOrderPerKey`, and a step that appends an order maps to `Place` (lemma
CountPlaced), every other step to `Approve` or a stutter (StepKinds).  With
`ImplementsAgent` and `ImplementsBroker` what is proved of agent and paper broker alone,
each with any partner, holds of the two together: the account stays solvent, and settled
records stay, through any restarts.

Sums and merges are recursive functions.  `SetInduction` gives induction over the
natural numbers for a set (a set with 0 and every successor that missed a number would
map its finite part below that number into a smaller one); by it such a function exists
and has its values (`SumsExist`, `MergesExist`, `TotalsExist`), whatever the length.

The assumptions are the named ASSUMEs of the modules: finite sets of keys, requests with
keys among them, natural bounds, disjoint stages, values of the types the constructors
accept, a `NoRecord` that is no record.  For the components of `Standalone` they are the
conjuncts of `StandaloneAssumption`, which TLC evaluates in the runs of `MCStandalone`.
The one further hypothesis is `AbortInCall = FALSE` in three theorems of
`QmtTradingProofs`: the run `qmt_abort_in_call` shows that they fail without it.  Type
correctness, `ArchivedOnce`, `NoRegression`, `ApprovedTermsKept` and `OrdersOnlyClose`
are proved and need no run.

Model-checked only: liveness under fairness (`ApprovedIsResolved`, `KillBringsRest`,
`UnknownTripsKillSwitch`, `ClosedIsLearned`, `UndisturbedRunCompletes`,
`RerunsComplete`), which is out of the prover's reach, and the counterexamples of
section 5.

## 5. Where code and documents disagree

* `paper_failed_but_filled`: the agent dies after the paper broker filled an order.  On
  restart the record is APPROVED, the risk check refuses the same order, and the store
  says FAILED of an order that was traded.
* `qmt_abort_in_call`: the adapter's index is written after the gateway has taken the
  order. If the process dies in between, the restarted agent places it again.
* `daily_released_again`: the COMPLETED report is looked for before the lock is taken,
  not again under it.  A process that looked just before releases the same data again.
* `daily_not_resumable`: an empty calendar page is checkpointed before it is refused;
  the FAILED_RESUMABLE run fails for ever under the same command.
* `desk_adds_on_price`: a price observation that names a validation domain not seen
  before counts as better evidence (positioning.py:416) and allows an addition, which
  adr-0003-discretionary-strategy.md:37 reserves for operating evidence.

Seen while modelling and kept as facts of the model: activating the kill switch within
`run_once` does not stop the rest of that run (the switch is asked once, at :36), and
cancels no open order; the journal prefers UNKNOWN to a later SUBMITTED; a run can be
FAILED_RESUMABLE although its release was published; the latest file stays behind if the
process dies after the report; a page of the backfill is checkpointed before it is found
to repeat another, not to fit its fields (tushare_bulk.py:269), or to hold no stock or
session to go on with (tushare_backfill.py:273, :189), so that no rerun repairs what
tushare-backfill.md:51 calls a resumable failure. The calibration ledger takes a label
at any time and the evidence hash covers no labels: one archived after a decision, and
available before it, changes the decision recomputed under the same hash, although
adr-0003-discretionary-strategy.md:52 has every judgement replayable; late evidence
changes it too, under another hash, and `OnlyLateEntriesChangeReplay` says that nothing
else does. What is left of an order that was closed early keeps its key, so that it is
not ordered again that day. The backtest lets a purchase and a sale trade at one open:
the T+1 rule of discretionary-fundamental.md:296 and day9-event-engine.md:29 is in
neither matcher nor ledger; a minimum commission can overdraw the account, after which
the engine's largest quantity is negative and ends the run. An approval is taken as long
as the data release is the same, whatever a later review said. The move of knowledge to
PRODUCTION may replace approver and evidence without a confirmation; a factor may be
registered under any status at once, and a move other than the two that ask for 64
characters takes any text over its evidence. Between point-in-time records of equal
precedence the first in the table wins. A variable without the right prefix is ignored,
not refused.

## 6. Not modelled

* Knowledge store and standard bar store: files written once under a hash or a manifest;
  what can fail in them enters `DailyUpdate` as an exception.
* Quality checks, domain values: predicates over single values; they enter as the gate's
  outcome and as the sets of the other modules.
* Monitoring and gated workflow: two functions that stop at the first failing check.
* Portfolio construction, optimiser, exposures, signals, factor expressions, mining and
  evaluation, preprocessing, machine learning, backtest metrics: numerical code on data
  frames, without state.
* Providers and normalisers: network clients and formats.  API, CLI, containers: a
  health and a version question.
* Within what is modelled: average costs and closing prices of the ledger, order
  cancellation in the backtest's order book (never called), industry memberships, texts,
  names and hashes beyond equality, disk checks, `--status-only`.

## 7. Plan

Done in this order: the execution core, since an order cannot be taken back; the daily
update and the backfill; then rebalancing, backtest, desk, point in time, registries and
settings; then the proofs of every safety property.  What is left:

1. `Rebalance` composed with `PaperTrading`, so that planned orders run through the
   agent.
2. Two modes in one run of `DailyUpdate`, when the other bounds leave room.
