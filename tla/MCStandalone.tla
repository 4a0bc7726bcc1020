---------------------------- MODULE MCStandalone ----------------------------
(* Instance of Standalone for TLC. *)
EXTENDS Standalone, MCDeskData

\* A broker that keeps to the lifecycle of domain/orders.py.
LifecycleReports == OrderTransitions

-----------------------------------------------------------------------------
(* The backtest: two symbols, three sessions.  A minimum commission makes a *)
(* small sale cost more than it brings, volumes cut orders to one lot, and  *)
(* a session may lack a symbol's bar.                                       *)
Bar(open, volume, status) == [open |-> open, volume |-> volume, status |-> status]
Ask(s, side, quantity) == [symbol |-> s, side |-> side, quantity |-> quantity]

MCCalendars == {<<1, 2, 4>>, <<2, 1>>, <<1, 1>>, <<>>}
MCMarkets ==
    {[s1 |-> Bar(2, 8, "normal"), s2 |-> Bar(2, 8, "normal")],
     [s1 |-> Bar(1, 4, "normal"), s2 |-> Bar(1, 8, "limit_up")],
     [s1 |-> Bar(1, 9, "limit_down"), s2 |-> Bar(1, 8, "unknown")],
     [s1 |-> Bar(0, 0, "unknown"), s2 |-> Bar(1, 2, "suspended")],
     [s1 |-> Bar(3, 8, "normal"), s2 |-> Bar(0, 0, "unknown")]}
MCRequests ==
    {Ask("s1", "BUY", 5), Ask("s1", "SELL", 2), Ask("s2", "BUY", 2), Ask("s1", "SELL", 4)}

-----------------------------------------------------------------------------
(* Rebalancing: a target that is reached in parts, one that turns back and  *)
(* adds a symbol without a price at times, one of more than the whole.      *)
MCPortfolios ==
    {[weights |-> <<9>>, version |-> 1], [weights |-> <<2, 6>>, version |-> 2],
     [weights |-> <<9, 6>>, version |-> 3]}
MCQuotes == {<<1, 1>>, <<2, 0>>}
MCFirstAccounts == {[cash |-> 2, positions |-> <<1>>]}

-----------------------------------------------------------------------------
(* Point in time: a membership that is ended and one of another index; a    *)
(* statement, its revisions, one of them of another source record, one that *)
(* claims to be out before it was announced, and a revision below zero.     *)
Item(kind, index, symbol, to, metric, announced, available, revision, id) ==
    [key |-> [kind |-> kind, index |-> index, symbol |-> symbol],
     value |-> [from |-> 1, to |-> to, metric |-> metric], announced |-> announced,
     available |-> available, revision |-> revision, source |-> "a", id |-> id]

MCItems ==
    {Item("member", "hs300", "s", 0, 0, 1, 1, 0, 1),
     Item("member", "hs300", "s", 1, 0, 2, 2, 1, 1),
     Item("member", "zz500", "t", 0, 0, 1, 1, 0, 1),
     Item("statement", "", "s", 0, 5, 1, 1, 0, 1),
     Item("statement", "", "s", 0, 6, 1, 1, 1, 1),
     Item("statement", "", "s", 0, 8, 1, 1, 1, 2),
     Item("statement", "", "s", 0, 7, 2, 1, 2, 1),
     Item("statement", "", "s", 0, 7, 1, 1, -1, 1)}

-----------------------------------------------------------------------------
(* Governance: one idea, one factor, one model run in sound and in unsound  *)
(* versions.                                                                *)
Artifact(features, end) ==
    [run |-> "r", features |-> features, start |-> 1, end |-> end, checksum |-> "h1"]

MCArtifacts == {Artifact({"f"}, 2), Artifact({}, 2), Artifact({"f"}, 0)}

-----------------------------------------------------------------------------
(* Settings: the repository's base and broker files, live switches, and the *)
(* ways to get them wrong.                                                  *)
MCLayers ==
    {[mode |-> "BACKTEST", liveEnabled |-> FALSE, tier |-> "READ_ONLY", manual |-> TRUE,
      capital |-> 0],
     [mode |-> "LIVE", liveEnabled |-> TRUE],
     [mode |-> "LIVE", liveEnabled |-> TRUE, manual |-> FALSE],
     [brokerMode |-> "LIVE", brokerEnabled |-> TRUE, submit |-> TRUE],
     [brokerMode |-> "LIVE", brokerEnabled |-> FALSE, submit |-> FALSE],
     [brokerMode |-> "PAPER", brokerEnabled |-> TRUE, submit |-> FALSE],
     [submit |-> TRUE], [broker |-> "null"], [tier |-> "SMALL_CAPITAL"],
     [coreCap |-> 6]}
MCEnvironments ==
    {[mode |-> "LIVE"], [liveEnabled |-> TRUE, capital |-> 1],
     [submit |-> TRUE], [guards |-> FALSE], [mod |-> "PAPER"]}

-----------------------------------------------------------------------------

\* Where a component has several initial states, one is enough for the others' sake.
MCInit ==
    /\ StandaloneInit
    /\ subject # "backtest" => matcher = "ashare" /\ calendar = <<>>
    /\ subject # "rebalance" => target.version = 1 /\ quotes = <<1, 1>>

MCSpec == MCInit /\ [][StandaloneNext]_allVars /\ StandaloneFairness
=============================================================================
