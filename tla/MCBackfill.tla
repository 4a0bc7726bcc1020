----------------------------- MODULE MCBackfill -----------------------------
(* An instance of Backfill for TLC: the reference data the script reads, then a *)
(* pool of two jobs per stock, one of them optional.                            *)
EXTENDS Backfill

CONSTANTS calendar, stocks, income, forecast

MCStages == <<{calendar, stocks}, {income, forecast}>>
MCNeeded == <<{{calendar}, {stocks}}, {}>>
MCMaxPages == [j \in {calendar, stocks, income, forecast} |->
                IF j = income THEN 2 ELSE 1]
=============================================================================
