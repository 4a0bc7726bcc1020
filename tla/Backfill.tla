------------------------------ MODULE Backfill ------------------------------
(***************************************************************************)
(* The history backfill (scripts/tushare_backfill.py) over the bulk        *)
(* archiver (data/ingestion/tushare_bulk.py) and the raw batch store       *)
(* (raw_store.py): stages of jobs, each job a walk over the provider's     *)
(* pages, each page requested until it is archived and checkpointed.       *)
(*                                                                         *)
(* A checkpoint row counts here once it is COMPLETED; RUNNING and FAILED   *)
(* rows only inform the operator, and so do archived error responses.  The *)
(* process holds a lock file throughout, so one run at a time is here.     *)
(***************************************************************************)
EXTENDS Integers, Sequences, FiniteSets

CONSTANTS
    Stages,         \* the selected stages in order, each a set of jobs
    Pooled,         \* stages whose jobs a thread pool works on
    Workers,        \* --workers
    Optional,       \* jobs whose API errors are skipped
    Needed,         \* per stage: groups of jobs that must have yielded a row when it is over
    Read,           \* jobs whose rows the script reads: stock lists, calendars, index classes
    MaxAttempts,    \* --max-attempts
    MaxPages,       \* bound: pages of each job
    MaxCrashes      \* bound: deaths of the process

Jobs == UNION {Stages[i] : i \in DOMAIN Stages}

\* What a page may hold: page_size rows, fewer, none of use, those of an earlier
\* page, or rows that do not fit the fields, the walk's last page in that case.
Content == {"full", "short", "empty", "again", "ragged"}
Last == {"short", "empty"}

ASSUME BackfillAssumption ==
    /\ Stages \in Seq(SUBSET Jobs) /\ Stages # <<>>
    /\ \A i, k \in DOMAIN Stages : i # k => Stages[i] \cap Stages[k] = {}
    /\ Pooled \subseteq DOMAIN Stages /\ Read \subseteq Jobs
    /\ Needed \in [DOMAIN Stages -> SUBSET SUBSET Jobs]
    /\ Workers \in Nat \ {0} /\ MaxAttempts \in Nat \ {0} /\ MaxPages \in [Jobs -> Nat \ {0}]
    /\ MaxCrashes \in Nat

VARIABLES
    phase,      \* of the run: off, or in a stage
    stage,      \* index of the stage
    task,       \* per job of the stage: its place in archive_paginated
    checkpoint, \* per job and page: the content of the COMPLETED row, or "none"
    raw,        \* per job and page: the contents in the raw store
    report,     \* report.json
    crashes     \* history

store == <<checkpoint, raw>>
vars == <<phase, stage, task, checkpoint, raw, report, crashes>>

Pages(j) == 1..MaxPages[j]

\* A job's place, with no response in hand.
Place(at, page, attempt) == [at |-> at, page |-> page, attempt |-> attempt, got |-> "none"]
Waiting == Place("waiting", 1, 0)
Over == {"done", "skipped", "failed"}

TypeOK ==
    /\ phase \in {"off", "stage"}
    /\ stage \in DOMAIN Stages
    /\ DOMAIN task = Jobs /\ DOMAIN checkpoint = Jobs /\ DOMAIN raw = Jobs
    /\ \A j \in Jobs :
        /\ task[j] \in [at : {"waiting", "page", "archived"} \cup Over, page : Pages(j),
                       attempt : 0..MaxAttempts, got : Content \cup {"none"}]
        /\ checkpoint[j] \in [Pages(j) -> Content \cup {"none"}]
        /\ raw[j] \in [Pages(j) -> SUBSET Content]
    /\ report \in {"NONE", "COMPLETED", "FAILED_RESUMABLE"}
    /\ crashes \in 0..MaxCrashes

Init ==
    /\ phase = "off"
    /\ stage = 1
    /\ task = [j \in Jobs |-> Waiting]
    /\ checkpoint = [j \in Jobs |-> [n \in Pages(j) |-> "none"]]
    /\ raw = [j \in Jobs |-> [n \in Pages(j) |-> {}]]
    /\ report = "NONE"
    /\ crashes = 0

At(places) == {j \in Stages[stage] : task[j].at \in places}
InFlight == At({"page", "archived"})
Failed == At({"failed"})

Move(j, at) == task' = [task EXCEPT ![j] = Place(at, 1, 0)]

-----------------------------------------------------------------------------
(* One job: archive_paginated over archive_page. *)

\* A sequential stage takes up one job after the other and none after a failure;
\* a pool takes up the next whenever a worker is free, failure or not.
Begin(j) ==
    /\ phase = "stage"
    /\ j \in At({"waiting"})
    /\ IF stage \in Pooled THEN Cardinality(InFlight) < Workers ELSE InFlight \cup Failed = {}
    /\ Move(j, "page")
    /\ UNCHANGED <<phase, stage, store, report, crashes>>

\* The page of a job in hand, and what its checkpoint row says.
Row(j) == checkpoint[j][task[j].page]

\* TushareApiError leaves archive_paginated; an optional job is skipped then.
ApiError(j) == Move(j, IF j \in Optional THEN "skipped" ELSE "failed")

NextPage(j) == task' = [task EXCEPT ![j] = Place("page", task[j].page + 1, 0)]

\* Mutant: a repeated page ends the walk.
TakePageAsLast(j) ==
    /\ task[j].at = "page" /\ Row(j) # "none"
    /\ IF Row(j) = "full" /\ task[j].page < MaxPages[j]
       THEN NextPage(j)
       ELSE Move(j, "done")
    /\ UNCHANGED <<phase, stage, store, report, crashes>>

\* A completed page is taken as it is, from this run or an earlier one: the walk
\* goes on, ends, or is refused because the provider repeats itself.  The rows of a
\* finished walk are read with a strict zip, whose ValueError spares no optional job.
TakePage(j) ==
    /\ task[j].at = "page" /\ Row(j) # "none"
    /\ \/ Row(j) = "again" /\ ApiError(j)
       \/ Row(j) = "ragged" /\ Move(j, "failed")
       \/ Row(j) \in Last /\ Move(j, "done")
       \/ Row(j) = "full" /\ NextPage(j)
    /\ UNCHANGED <<phase, stage, store, report, crashes>>

\* Mutant: a completed page is asked for all the same.
AsksAnyway(j) == task[j].at = "page" /\ task[j].attempt < MaxAttempts

\* A page that is not completed is asked for while attempts are left.
Asks(j) == task[j].at = "page" /\ Row(j) = "none" /\ task[j].attempt < MaxAttempts

\* Page numbers stay within the bound; the first page repeats nothing; a page
\* without rows, or of rows that fit no fields, is told from a short one only where
\* rows are needed, or read.
Possible(j, content) ==
    /\ content = "empty" => j \in UNION UNION {Needed[i] : i \in DOMAIN Stages}
    /\ content = "ragged" => j \in Read
    /\ content = "full" => task[j].page < MaxPages[j]
    /\ content = "again" => task[j].page > 1

\* Mutant: the row is completed before the response is in the raw store.
AnsweredEarly(j, content) ==
    /\ Asks(j) /\ Possible(j, content)
    /\ checkpoint' = [checkpoint EXCEPT ![j][task[j].page] = content]
    /\ task' = [task EXCEPT ![j].at = "archived", ![j].got = content]
    /\ UNCHANGED <<phase, stage, raw, report, crashes>>

\* The provider answers, and a rename puts the response into the raw store.
Answered(j, content) ==
    /\ Asks(j) /\ Possible(j, content)
    /\ raw' = [raw EXCEPT ![j][task[j].page] = @ \cup {content}]
    /\ task' = [task EXCEPT ![j].at = "archived", ![j].got = content]
    /\ UNCHANGED <<phase, stage, checkpoint, report, crashes>>

\* record_success: the row becomes COMPLETED with the page that was archived.
Checkpoint(j) ==
    /\ task[j].at = "archived"
    /\ checkpoint' = [checkpoint EXCEPT ![j][task[j].page] = task[j].got]
    /\ task' = [task EXCEPT ![j] = Place("page", task[j].page, 0)]
    /\ UNCHANGED <<phase, stage, raw, report, crashes>>

\* A lost or retryable answer uses up an attempt.
Fails(j) ==
    /\ Asks(j)
    /\ task' = [task EXCEPT ![j] = Place("page", task[j].page, task[j].attempt + 1)]
    /\ UNCHANGED <<phase, stage, store, report, crashes>>

\* The provider refuses: an API error without another attempt.
Refused(j) == Asks(j) /\ ApiError(j) /\ UNCHANGED <<phase, stage, store, report, crashes>>

\* No attempt is left: a RuntimeError, which fails an optional job as well.
GiveUp(j) ==
    /\ task[j].at = "page" /\ Row(j) = "none" /\ task[j].attempt = MaxAttempts
    /\ Move(j, "failed")
    /\ UNCHANGED <<phase, stage, store, report, crashes>>

\* An exception archive_page does not expect: data that is no object, or sqlite's.
Breaks(j) ==
    /\ Asks(j) \/ task[j].at = "archived"
    /\ Move(j, "failed")
    /\ UNCHANGED <<phase, stage, store, report, crashes>>

JobStep(j) ==
    \/ Begin(j) \/ TakePage(j) \/ Checkpoint(j)
    \/ Fails(j) \/ Refused(j) \/ GiveUp(j) \/ Breaks(j)
    \/ \E content \in Content : Answered(j, content)

-----------------------------------------------------------------------------
(* The run. *)

\* Mutant: what FAILED in the state file is not tried again.
LaunchKeepingFailed ==
    /\ phase = "off"
    /\ phase' = "stage"
    /\ stage' = 1
    /\ task' = [j \in Jobs |-> IF task[j].at = "failed" THEN task[j] ELSE Waiting]
    /\ UNCHANGED <<store, report, crashes>>

Launch ==
    /\ phase = "off"
    /\ phase' = "stage"
    /\ stage' = 1
    /\ task' = [j \in Jobs |-> Waiting]
    /\ UNCHANGED <<store, report, crashes>>

\* The stage's jobs are over and none has failed.
StageOver == phase = "stage" /\ Stages[stage] = At({"done", "skipped"})

\* The jobs of the group yielded nothing.
Barren(group) == \A j \in group : checkpoint[j][1] = "empty"

\* The calendars hold no open session, or the next stage wants stock codes and the
\* stock lists hold none.
Useless == \E group \in Needed[stage] : Barren(group)

NextStage ==
    /\ StageOver /\ ~Useless /\ stage < Len(Stages)
    /\ stage' = stage + 1
    /\ UNCHANGED <<phase, task, store, report, crashes>>

Completed ==
    /\ StageOver /\ ~Useless /\ stage = Len(Stages)
    /\ phase' = "off"
    /\ report' = "COMPLETED"
    /\ UNCHANGED <<stage, task, store, crashes>>

\* Mutant: the pool is left without waiting for its workers.
FailedAtOnce ==
    /\ phase = "stage"
    /\ Failed # {} \/ (StageOver /\ Useless)
    /\ phase' = "off"
    /\ report' = "FAILED_RESUMABLE"
    /\ UNCHANGED <<stage, task, store, crashes>>

\* The exception of a job leaves a sequential stage at once, but a pool only when
\* all its jobs are over: leaving the executor waits for them.
FailedResumable ==
    /\ \/ phase = "stage" /\ Failed # {} /\ (stage \in Pooled => Stages[stage] = At(Over))
       \/ StageOver /\ Useless
    /\ phase' = "off"
    /\ report' = "FAILED_RESUMABLE"
    /\ UNCHANGED <<stage, task, store, crashes>>

\* The process dies; the raw store, the state file and the report are left.
Crash ==
    /\ phase = "stage" /\ crashes < MaxCrashes
    /\ crashes' = crashes + 1
    /\ phase' = "off"
    /\ task' = [j \in Jobs |-> Waiting]
    /\ UNCHANGED <<stage, store, report>>

Next ==
    \/ Launch \/ NextStage \/ Completed \/ FailedResumable \/ Crash
    \/ \E j \in Jobs : JobStep(j)

Spec == Init /\ [][Next]_vars

\* The operator launches the backfill until it is complete, a page that is asked
\* for again and again is answered some time, and what is archived can some time
\* be checkpointed.  Nothing keeps a provider from failing, refusing, repeating, or
\* answering with what is of no use.
Fairness ==
    /\ WF_vars(Launch \/ NextStage \/ Completed \/ FailedResumable)
    /\ \A j \in Jobs :
        /\ WF_vars(Begin(j) \/ TakePage(j) \/ GiveUp(j))
        /\ SF_vars(Checkpoint(j))
        /\ SF_vars(\E content \in Content : Answered(j, content))

FairSpec == Spec /\ Fairness

-----------------------------------------------------------------------------
(* Properties. *)

\* A job's pages are complete: full ones up to one that ends the walk.
Whole(j) == \E n \in Pages(j) :
    /\ checkpoint[j][n] \in Last
    /\ \A k \in 1..(n - 1) : checkpoint[j][k] = "full"

\* A report of COMPLETED is true: every page of every required job is there, in
\* this run or an earlier one, and none of them ends on a page the provider repeated.
ReportIsTrue == report = "COMPLETED" => \A j \in Jobs \ Optional : Whole(j)

\* Whatever dies between them, a checkpoint never speaks of a response the raw
\* store does not have.
CheckpointHasRaw ==
    \A j \in Jobs : \A n \in Pages(j) :
        checkpoint[j][n] # "none" => checkpoint[j][n] \in raw[j][n]

\* tushare-backfill.md:12, "no page that is on disk is requested again": a
\* completed page is never asked for again, by a retry or a rerun: its row stays
\* and the raw store receives no second response for it.
CompletedStays == [][\A j \in Jobs : \A n \in Pages(j) :
    checkpoint[j][n] # "none" => /\ checkpoint'[j][n] = checkpoint[j][n]
                                 /\ raw'[j][n] = raw[j][n]]_vars

\* The report is written and the state file closed with no worker still at a page:
\* the exception of one job waits for the others.
WorkersRest == phase = "off" => \A j \in Jobs : task[j].at \notin {"page", "archived"}

\* What no rerun repairs, for it is in the checkpoint and is not asked for again: a
\* repeated page of a required job, rows that cannot be read, and a group that had
\* to yield something and did not.
Poisoned ==
    \/ \E j \in Jobs : \E n \in Pages(j) :
        \/ checkpoint[j][n] = "again" /\ j \notin Optional
        \/ checkpoint[j][n] = "ragged"
    \/ \E i \in DOMAIN Stages : \E group \in Needed[i] : Barren(group)

\* tushare-backfill.md:11, the same command goes on from the checkpoint: unless the
\* checkpoint is poisoned, reruns complete the backfill, whatever fails on the way.
RerunsComplete == []~Poisoned => <>(report = "COMPLETED")
=============================================================================
