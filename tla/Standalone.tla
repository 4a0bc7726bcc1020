----------------------------- MODULE Standalone -----------------------------
(***************************************************************************)
(* The components that share no state with any other, each alone: subject  *)
(* says whose steps a behaviour has, the rest stay as they were.  The      *)
(* journal is extended, the others are instances.                          *)
(***************************************************************************)
EXTENDS BrokerEventJournal

CONSTANTS
    Subjects,
    \* Backtest
    Instruments, Base, BoardLot, Participation, Slippage,
    CommissionRate, MinimumCommission, StampDutyRate, TransferFeeRate,
    Calendars, Markets, Requests, MaxOrders, InitialCash, Matchers,
    \* Desk
    Unit, MinimumClusters, PriorWeight, Whole, Quantum, ObservationCap, EvidenceCap, CoreCap,
    MinimumEdge, CorrelationFloor, MinimumUpgrade, SizingMultiplier,
    Cases, Evidence, Outcomes, EvidenceBatches, OutcomeBatches, Expectations, Payoffs,
    ApprovedShares, Drifts, ReleaseDays, MaxTime, MaxReviews, MaxApprovals,
    \* Rebalance (Tradable: its Symbols)
    Tradable, Portfolios, Quotes, Equity, LotSize, FullWeight, CashTolerance, FirstAccounts, MaxDays,
    \* PointInTime
    Items, FirstDay, LastDay, NoRecord, MaxTables, MaxRecords,
    \* Governance
    Ideas, FailureCases, Factors, Artifacts, Hashes, LongHashes, GoodHashes, People, NoHash, Nobody,
    \* Settings (NotRunning: its Refused)
    Layers, Environments, MaxFiles, NotRunning

VARIABLES
    subject,
    matcher, calendar, stage, queue, clock, market, pending, orders, cash, position, fills,
    now, release, opened, archive, labels, proposals, approvals, prior, portfolio, basis,
    day, target, quotes, broker, local, planned, start, unlearned,
    today, arrived, releases, cache,
    ideas, factors, models, log,
    files, environ, settings

Test == INSTANCE Backtest WITH Symbols <- Instruments, LotSize <- BoardLot
Desk == INSTANCE Desk
Reb == INSTANCE Rebalance WITH Symbols <- Tradable, Whole <- FullWeight, orders <- planned
Pit == INSTANCE PointInTime WITH MaxReleases <- MaxTables
Gov == INSTANCE Governance
Set == INSTANCE Settings WITH Refused <- NotRunning

ASSUME StandaloneAssumption ==
    /\ Test!BacktestAssumption /\ Test!MatchingAssumption
    /\ Desk!BeliefsAssumption /\ Desk!PolicyAssumption /\ Desk!DeskAssumption
    /\ Reb!RebalanceAssumption /\ Pit!PointInTimeAssumption
    /\ Gov!GovernanceAssumption

-----------------------------------------------------------------------------

backtestVars == <<matcher, calendar, stage, queue, clock, market, pending, orders, cash,
                  position, fills>>
deskVars == <<now, release, opened, archive, labels, proposals, approvals, prior, portfolio,
              basis>>
rebalanceVars == <<day, target, quotes, broker, local, planned, start, unlearned>>
pointInTimeVars == <<today, arrived, releases, cache>>
governanceVars == <<ideas, factors, models, log>>
settingsVars == <<files, environ, settings>>

allVars == <<subject, vars, backtestVars, deskVars, rebalanceVars, pointInTimeVars,
             governanceVars, settingsVars>>

StandaloneInit ==
    /\ subject \in Subjects
    /\ Init /\ Test!Init /\ Desk!Init /\ Reb!Init /\ Pit!Init
    /\ Gov!Init /\ Set!Init

Is(x) == subject = x /\ UNCHANGED subject

StandaloneNext ==
    \/ /\ Is("journal") /\ Next
       /\ UNCHANGED <<backtestVars, deskVars, rebalanceVars, pointInTimeVars, governanceVars,
                    settingsVars>>
    \/ /\ Is("backtest") /\ Test!Next
       /\ UNCHANGED <<vars, deskVars, rebalanceVars, pointInTimeVars, governanceVars,
                    settingsVars>>
    \/ /\ Is("desk") /\ Desk!Next
       /\ UNCHANGED <<vars, backtestVars, rebalanceVars, pointInTimeVars, governanceVars,
                    settingsVars>>
    \/ /\ Is("rebalance") /\ Reb!Next
       /\ UNCHANGED <<vars, backtestVars, deskVars, pointInTimeVars, governanceVars, settingsVars>>
    \/ /\ Is("point in time") /\ Pit!Next
       /\ UNCHANGED <<vars, backtestVars, deskVars, rebalanceVars, governanceVars, settingsVars>>
    \/ /\ Is("governance") /\ Gov!Next
       /\ UNCHANGED <<vars, backtestVars, deskVars, rebalanceVars, pointInTimeVars, settingsVars>>
    \/ /\ Is("settings") /\ Set!Next
       /\ UNCHANGED <<vars, backtestVars, deskVars, rebalanceVars, pointInTimeVars,
                    governanceVars>>

Others == UNCHANGED <<backtestVars, deskVars, rebalanceVars, pointInTimeVars, governanceVars,
                      settingsVars>>

\* The channel of the journal loses nothing for ever, as in its FairSpec.
StandaloneFairness ==
    \A id \in 1..MaxCallbacks :
        WF_allVars(id \in DOMAIN sent /\ Is("journal") /\ Record(id) /\ Others)

StandaloneSpec == StandaloneInit /\ [][StandaloneNext]_allVars /\ StandaloneFairness

-----------------------------------------------------------------------------

AccountMatchesFills == Test!AccountMatchesFills
FillsAreAccepted == Test!FillsAreAccepted
TradesAtLaterOpens == Test!TradesAtLaterOpens
OnlyCommissionOverdraws == Test!OnlyCommissionOverdraws
OnlyLateEntriesChangeReplay == Desk!OnlyLateEntriesChangeReplay
PositionsAreEarned == Desk!PositionsAreEarned
BlockedAddKeepsPosition == Desk!BlockedAddKeepsPosition
NoOvershoot == Reb!NoOvershoot
DifferencesAreUnlearnedTrades == Reb!DifferencesAreUnlearnedTrades
LaterReleasesOnlyRevise == Pit!LaterReleasesOnlyRevise
CacheHoldsWhatWasKnown == Pit!CacheHoldsWhatWasKnown
ProductionIsConfirmed == Gov!ProductionIsConfirmed
EveryGateIsNeeded == Set!EveryGateIsNeeded
=============================================================================
