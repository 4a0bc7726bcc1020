---------------------------- MODULE DailyUpdate ----------------------------
(***************************************************************************)
(* The daily data update (scripts/tushare_daily_update.py, with            *)
(* data/daily_update.py and data/catalog/release.py): scheduled and manual *)
(* processes fetch one date's datasets into a checkpoint, pass them        *)
(* through the quality gate, publish a numbered release and report.        *)
(*                                                                         *)
(* Processes share files only.  A step ends where another process, or the  *)
(* death of this one, can see the difference.  Every page of a job is one  *)
(* outcome here; the archiver below it is not this module's subject.       *)
(***************************************************************************)
EXTENDS Integers, Sequences, FiniteSets

CONSTANTS
    Processes,
    Modes,              \* DailyUpdateMode: close, morning
    Jobs, Calendar,     \* the plan's jobs, and the trading calendar before it
    Required, ExpectRows,
    Answers, CalendarAnswers,   \* what the provider may answer
    NoProcess,
    MaxForced,          \* bound: runs with --force-refresh
    MaxFailures         \* bound: deaths, and exceptions outside the provider's answers

Content == {"rows", "empty", "wrong"}

ASSUME UpdateAssumption ==
    /\ IsFiniteSet(Processes) /\ NoProcess \notin Processes /\ Modes # {}
    /\ Calendar \notin Jobs
    /\ Required \subseteq Jobs /\ ExpectRows \subseteq Jobs
    /\ Answers \subseteq Content \cup {"error"}
    /\ CalendarAnswers \subseteq Content \cup {"error"}
    /\ MaxForced \in Nat /\ MaxFailures \in Nat

VARIABLES
    run,        \* per process: its stage, run directory, verdict, and release id
    results,    \* per process: the outcome of each job in this run
    lock,       \* holder of daily-update.lock
    checkpoint, \* per run directory: the content archived for each job
    report,     \* report.json per run directory
    latest,     \* latest-<mode>.json
    releases,   \* published releases by number
    \* History: how often what happened, and the processes whose run under the lock
    \* had an error it could not do without, an exception, or died.
    forced, crashes, raises, disturbed

files == <<checkpoint, report, latest, releases>>
history == <<forced, crashes, raises, disturbed>>
vars == <<run, results, lock, checkpoint, report, latest, releases,
          forced, crashes, raises, disturbed>>

\* A forced run has a directory of its own; the others share their mode's.
Dirs == Modes \X (0..MaxForced)
Mode(d) == d[1]
Shared(m) == <<m, 0>>

Report == [status : {"NONE", "COMPLETED", "QUARANTINED", "FAILED_RESUMABLE"}, release : Nat]
NoReport == [status |-> "NONE", release |-> 0]
Outcomes == [Jobs -> Content \cup {"none", "error"}]
Release == [dir : Dirs, content : Outcomes]

Working == {"calendar", "fetching", "judged", "reporting", "pointing", "logging"}

TypeOK ==
    /\ run \in [Processes -> [stage : {"off", "starting"} \cup Working, dir : Dirs,
                              verdict : Report]]
    /\ results \in [Processes -> Outcomes]
    /\ lock \in Processes \cup {NoProcess}
    /\ checkpoint \in [Dirs -> [Jobs \cup {Calendar} -> Content \cup {"none"}]]
    /\ report \in [Dirs -> Report]
    /\ latest \in [Modes -> Report]
    /\ releases \in Seq(Release)
    /\ forced \in 0..MaxForced /\ crashes \in 0..MaxFailures /\ raises \in 0..MaxFailures
    /\ disturbed \subseteq Processes

Off == [stage |-> "off", dir |-> Shared(CHOOSE m \in Modes : TRUE), verdict |-> NoReport]
NoResults == [j \in Jobs |-> "none"]

Init ==
    /\ run = [p \in Processes |-> Off]
    /\ results = [p \in Processes |-> NoResults]
    /\ lock = NoProcess
    /\ checkpoint = [d \in Dirs |-> [j \in Jobs \cup {Calendar} |-> "none"]]
    /\ report = [d \in Dirs |-> NoReport]
    /\ latest = [m \in Modes |-> NoReport]
    /\ releases = <<>>
    /\ forced = 0 /\ crashes = 0 /\ raises = 0 /\ disturbed = {}

Enter(p, stage) == run' = [run EXCEPT ![p].stage = stage]

\* The run enters a stage with what is to become its report.
Decide(p, stage, status, release) ==
    run' = [run EXCEPT ![p].stage = stage,
                       ![p].verdict = [status |-> status, release |-> release]]

-----------------------------------------------------------------------------
(* Starting. *)

\* Mutant: a completed run is started again.
StartAgain(p, m) ==
    /\ run[p].stage = "off"
    /\ run' = [run EXCEPT ![p] = [stage |-> "starting", dir |-> Shared(m), verdict |-> NoReport]]
    /\ UNCHANGED <<results, lock, files, history>>

\* The COMPLETED report is looked for first: such a run returns at once.
Start(p, m) ==
    /\ run[p].stage = "off"
    /\ report[Shared(m)].status # "COMPLETED"
    /\ run' = [run EXCEPT ![p] = [stage |-> "starting", dir |-> Shared(m), verdict |-> NoReport]]
    /\ UNCHANGED <<results, lock, files, history>>

\* --force-refresh takes a new directory and does not look.
StartForced(p, m) ==
    /\ run[p].stage = "off"
    /\ forced < MaxForced
    /\ forced' = forced + 1
    /\ run' = [run EXCEPT ![p] = [stage |-> "starting", dir |-> <<m, forced + 1>>,
                                  verdict |-> NoReport]]
    /\ UNCHANGED <<results, lock, files, crashes, raises, disturbed>>

\* Mutant: the lock is taken whoever holds it.
TryLockAnyway(p) ==
    /\ run[p].stage = "starting"
    /\ lock' = p
    /\ Enter(p, "calendar")
    /\ results' = [results EXCEPT ![p] = NoResults]
    /\ disturbed' = disturbed \ {p}
    /\ UNCHANGED <<files, forced, crashes, raises>>

\* flock without waiting: the process goes on as the only one, or gives up.
TryLock(p) ==
    /\ run[p].stage = "starting"
    /\ IF lock = NoProcess
       THEN lock' = p /\ Enter(p, "calendar")
       ELSE Enter(p, "off") /\ UNCHANGED lock
    /\ results' = [results EXCEPT ![p] = NoResults]
    /\ disturbed' = disturbed \ {p}
    /\ UNCHANGED <<files, forced, crashes, raises>>

-----------------------------------------------------------------------------
(* Fetching. *)

\* What a job yields: the archived content if there is any, else the answer.
Yield(d, j, answer) == IF checkpoint[d][j] # "none" THEN checkpoint[d][j] ELSE answer

\* Mutant: a failed request is checkpointed like an answer.
ArchiveErrors(d, j, answer) == checkpoint' = [checkpoint EXCEPT ![d][j] = Yield(d, j, answer)]

\* Mutant: what is archived is replaced by a later answer, and lost with an error.
ArchiveOver(d, j, answer) ==
    checkpoint' = [checkpoint EXCEPT ![d][j] = IF answer = "error" THEN "none" ELSE answer]

\* An answer is archived and checkpointed; an error leaves no content.
Archive(d, j, answer) ==
    checkpoint' = IF Yield(d, j, answer) = "error" THEN checkpoint
                  ELSE [checkpoint EXCEPT ![d][j] = Yield(d, j, answer)]

\* The provider fails where there is nothing archived yet.
Disturb(p, j, answer) ==
    disturbed' = IF checkpoint[run[p].dir][j] = "none" /\ answer = "error"
                 THEN disturbed \cup {p} ELSE disturbed

\* Without usable calendar rows there is no plan, and an exception.
FetchCalendar(p, answer) ==
    LET d == run[p].dir IN
    /\ run[p].stage = "calendar"
    /\ Archive(d, Calendar, answer)
    /\ IF Yield(d, Calendar, answer) = "rows"
       THEN Enter(p, "fetching")
       ELSE Decide(p, "reporting", "FAILED_RESUMABLE", 0)
    /\ Disturb(p, Calendar, answer)
    /\ UNCHANGED <<results, lock, report, latest, releases, forced, crashes, raises>>

\* A worker finishes a job; archive_job turns every exception into an outcome.
Fetch(p, j, answer) ==
    /\ run[p].stage = "fetching"
    /\ results[p][j] = "none"
    /\ Archive(run[p].dir, j, answer)
    /\ results' = [results EXCEPT ![p][j] = Yield(run[p].dir, j, answer)]
    /\ IF j \in Required THEN Disturb(p, j, answer) ELSE UNCHANGED disturbed
    /\ UNCHANGED <<run, lock, report, latest, releases, forced, crashes, raises>>

-----------------------------------------------------------------------------
(* The quality gate and the release. *)

\* No issue of severity ERROR.
Passed(outcome) ==
    /\ \A j \in Required : outcome[j] # "error"
    /\ \A j \in Required \cap ExpectRows : outcome[j] # "empty"
    /\ \A j \in Jobs : outcome[j] # "wrong"

\* next_release_id: one above the highest number in the release root.
NextRelease == Len(releases) + 1

\* All jobs are done; batch index and quality report are written, the release
\* number is chosen, and data that does not pass is quarantined.
Judge(p) ==
    /\ run[p].stage = "fetching"
    /\ \A j \in Jobs : results[p][j] # "none"
    /\ IF Passed(results[p])
       THEN Decide(p, "judged", "NONE", NextRelease)
       ELSE Decide(p, "reporting", "QUARANTINED", NextRelease)
    /\ UNCHANGED <<results, lock, files, history>>

\* Writing the standard bars fails: the data is quarantined after all.
StandardFails(p) ==
    /\ run[p].stage = "judged"
    /\ crashes + raises < MaxFailures
    /\ raises' = raises + 1 /\ disturbed' = disturbed \cup {p}
    /\ Decide(p, "reporting", "QUARANTINED", run[p].verdict.release)
    /\ UNCHANGED <<results, lock, files, forced, crashes>>

\* Mutant: a publication that fails is suppressed, as it is for quarantined data.
PublishSuppressed(p) ==
    /\ run[p].stage = "judged"
    /\ \/ releases' = Append(releases, [dir |-> run[p].dir, content |-> results[p]])
       \/ UNCHANGED releases
    /\ Decide(p, "reporting", "COMPLETED", run[p].verdict.release)
    /\ UNCHANGED <<results, lock, checkpoint, report, latest, history>>

\* The release directory appears by a rename, unless it is there already.
Publish(p) ==
    /\ run[p].stage = "judged"
    /\ run[p].verdict.release \notin DOMAIN releases
    /\ releases' = Append(releases, [dir |-> run[p].dir, content |-> results[p]])
    /\ Decide(p, "reporting", "COMPLETED", run[p].verdict.release)
    /\ UNCHANGED <<results, lock, checkpoint, report, latest, history>>

-----------------------------------------------------------------------------
(* Reporting. *)

WriteReport(p) ==
    /\ run[p].stage = "reporting"
    /\ report' = [report EXCEPT ![run[p].dir] = run[p].verdict]
    /\ Enter(p, "pointing")
    /\ UNCHANGED <<results, lock, checkpoint, latest, releases, history>>

WriteLatest(p) ==
    /\ run[p].stage = "pointing"
    /\ latest' = [latest EXCEPT ![Mode(run[p].dir)] = run[p].verdict]
    /\ Enter(p, "logging")
    /\ UNCHANGED <<results, lock, checkpoint, report, releases, history>>

\* The end is logged, which may raise yet; the process ends and its lock goes.
Finish(p) ==
    /\ run[p].stage = "logging"
    /\ Enter(p, "off")
    /\ lock' = NoProcess
    /\ UNCHANGED <<results, files, history>>

\* An exception anywhere under the lock, also after the publication and after the
\* report: the run is reported as failed.  A second one, in the handler, ends the
\* process (Crash).
Raise(p) ==
    /\ run[p].stage \in Working
    /\ run[p].verdict.status # "FAILED_RESUMABLE"
    /\ crashes + raises < MaxFailures
    /\ raises' = raises + 1 /\ disturbed' = disturbed \cup {p}
    /\ Decide(p, "reporting", "FAILED_RESUMABLE", 0)
    /\ UNCHANGED <<results, lock, files, forced, crashes>>

\* The process dies; the system drops its lock, the files stay.
Crash(p) ==
    /\ run[p].stage # "off"
    /\ crashes + raises < MaxFailures
    /\ crashes' = crashes + 1 /\ disturbed' = disturbed \cup {p}
    /\ Enter(p, "off")
    /\ lock' = IF lock = p THEN NoProcess ELSE lock
    /\ UNCHANGED <<results, files, forced, raises>>

-----------------------------------------------------------------------------

Step(p) ==
    \/ TryLock(p)
    \/ \E answer \in CalendarAnswers : FetchCalendar(p, answer)
    \/ \E j \in Jobs, answer \in Answers : Fetch(p, j, answer)
    \/ Judge(p) \/ StandardFails(p) \/ Publish(p)
    \/ WriteReport(p) \/ WriteLatest(p) \/ Finish(p)
    \/ Raise(p) \/ Crash(p)

Next ==
    \E p \in Processes :
        \/ \E m \in Modes : Start(p, m) \/ StartForced(p, m)
        \/ Step(p)

Spec == Init /\ [][Next]_vars

\* A process that runs goes on working.  That anybody starts it again, the scheduler
\* (three restarts) or a person, or that the provider answers, is not assumed.
FairSpec == Spec /\ \A p \in Processes : WF_vars(Step(p))

\* Somebody who gives the same command again until the run has completed, finds the
\* lock free at times, and a provider that answers with rows some time: what would
\* have to do if a failed run can be resumed.
In(p, m) == run[p].dir = Shared(m)
Rerun(m) ==
    /\ WF_vars(\E p \in Processes : Start(p, m))
    /\ SF_vars(\E p \in Processes : lock = NoProcess /\ In(p, m) /\ TryLock(p))
    /\ SF_vars(\E p \in Processes : In(p, m) /\ FetchCalendar(p, "rows"))
    /\ \A j \in Jobs : SF_vars(\E p \in Processes : In(p, m) /\ Fetch(p, j, "rows"))

RerunSpec == FairSpec /\ \A m \in Modes : Rerun(m)

-----------------------------------------------------------------------------

\* v0.2.1-daily-update-report.md:22, the global lock refuses overlapping
\* instances: whoever works under the lock is the one that holds it, and nobody holds
\* it that has ended or died.
OneRunAtATime == \A p \in Processes : run[p].stage \in Working <=> lock = p

\* tushare-daily-update.md:20-21, nothing that failed the gate is released; and
\* a release stays what was archived, whatever reruns of its directory do.
ReleasesAreSound ==
    \A i \in DOMAIN releases :
        /\ Passed(releases[i].content)
        /\ \A j \in Jobs : releases[i].content[j] \in {checkpoint[releases[i].dir][j], "error"}

\* A COMPLETED report, and a pointer to one, name a release of that very run
\* directory, after any crashes and reruns.
CompletedIsReleased ==
    /\ \A d \in Dirs : report[d].status = "COMPLETED" =>
          report[d].release \in DOMAIN releases /\ releases[report[d].release].dir = d
    /\ \A m \in Modes : latest[m].status = "COMPLETED" =>
          /\ latest[m].release \in DOMAIN releases
          /\ Mode(releases[latest[m].release].dir) = m

ReleasesOf(d) == {i \in DOMAIN releases : releases[i].dir = d}

\* A directory's data is released again only for a cause: it takes a death, an
\* exception, or processes that had looked at the report before it said COMPLETED,
\* each of them once; scheduling the update again is none.
RepublicationHasACause ==
    \A d \in Dirs :
        Cardinality(ReleasesOf(d)) <= Cardinality(Processes) * (1 + crashes + raises)

\* With a provider that sends nothing wrong, a run that gets the lock leaves a
\* COMPLETED report, whatever earlier failed runs, deaths and other processes left
\* behind, unless the calendar or a required job fails in this very run, or it
\* raises or dies.  Each of the scheduler's four attempts has this chance.
UndisturbedRunCompletes ==
    \A p \in Processes, d \in Dirs :
        run[p].stage = "calendar" /\ run[p].dir = d
            ~> report[d].status = "COMPLETED" \/ p \in disturbed

\* tushare-daily-update.md:60, a run that has completed returns its release when
\* triggered again: its directory gets no second one.
CompletedIsNotReleasedAgain ==
    [][\A m \in Modes : report[Shared(m)].status = "COMPLETED" =>
          ReleasesOf(Shared(m))' = ReleasesOf(Shared(m))]_vars

\* tushare-daily-update.md:127, FAILED_RESUMABLE is cured by the same command.
FailedIsResumable ==
    \A m \in Modes : report[Shared(m)].status = "FAILED_RESUMABLE"
                        ~> report[Shared(m)].status # "FAILED_RESUMABLE"
=============================================================================
