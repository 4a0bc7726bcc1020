------------------------- MODULE DailyUpdateProofs -------------------------
(***************************************************************************)
(* Proofs about DailyUpdate, for any processes, modes, jobs and answers:   *)
(* one run at a time, releases that stay sound, and COMPLETED reports that *)
(* name a release of their own run directory.                              *)
(***************************************************************************)
EXTENDS DailyUpdate, FiniteSetTheorems, TLAPS

\* What a run has got from a job is what its directory has archived.
ResultsAreArchived ==
    \A p \in Processes : run[p].stage \in {"calendar", "fetching", "judged"} =>
        \A j \in Jobs : results[p][j] \in {"none", "error", checkpoint[run[p].dir][j]}

\* A judged run is complete and has passed.
JudgedPassed ==
    \A p \in Processes : run[p].stage = "judged" =>
        Passed(results[p]) /\ \A j \in Jobs : results[p][j] # "none"

\* A release holds no job without an outcome.
ReleasesAreComplete ==
    \A i \in DOMAIN releases : \A j \in Jobs : releases[i].content[j] # "none"

\* A judged run, the holder of the lock, has the next release number.
NumberIsNext ==
    \A p \in Processes : run[p].stage = "judged" => run[p].verdict.release = NextRelease

\* A run about to be reported as COMPLETED has its release.
VerdictIsReleased ==
    \A p \in Processes :
        run[p].stage \in {"reporting", "pointing"} /\ run[p].verdict.status = "COMPLETED" =>
            /\ run[p].verdict.release \in DOMAIN releases
            /\ releases[run[p].verdict.release].dir = run[p].dir

\* What is released follows the gate and the archive.
Sound == ReleasesAreSound /\ ReleasesAreComplete
Gate == ResultsAreArchived /\ JudgedPassed /\ NumberIsNext
Reported == VerdictIsReleased /\ CompletedIsReleased

IInv == TypeOK /\ OneRunAtATime /\ Gate /\ Sound /\ Reported

Stages == {"off", "starting"} \cup Working
Run == [stage : Stages, dir : Dirs, verdict : Report]

-----------------------------------------------------------------------------
(* Facts about the helpers. *)

\* Archived content is never replaced, and an archived answer is content.
LEMMA ArchiveFacts ==
    ASSUME TypeOK, NEW d \in Dirs, NEW j \in Jobs \cup {Calendar},
           NEW answer \in Content \cup {"error"}, Archive(d, j, answer)
    PROVE  /\ checkpoint' \in [Dirs -> [Jobs \cup {Calendar} -> Content \cup {"none"}]]
           /\ \A e \in Dirs, k \in Jobs \cup {Calendar} :
                 checkpoint[e][k] # "none" => checkpoint'[e][k] = checkpoint[e][k]
           /\ Yield(d, j, answer) \in Content \cup {"error"}
           /\ Yield(d, j, answer) # "error" => checkpoint'[d][j] = Yield(d, j, answer)
<1>0. checkpoint \in [Dirs -> [Jobs \cup {Calendar} -> Content \cup {"none"}]]
  BY DEF TypeOK
<1>1. Yield(d, j, answer) \in Content \cup {"error"}
  BY <1>0 DEF Yield
<1>2. CASE Yield(d, j, answer) = "error"
  <2>1. checkpoint' = checkpoint
    BY <1>2 DEF Archive
  <2> QED BY <1>0, <1>1, <1>2, <2>1
<1>3. CASE Yield(d, j, answer) # "error"
  <2> DEFINE y == Yield(d, j, answer)
  <2>1. checkpoint' = [checkpoint EXCEPT ![d][j] = y]
    BY <1>3 DEF Archive
  <2>2. y \in Content \cup {"none"}
    BY <1>1, <1>3
  <2>3. checkpoint[d][j] # "none" => y = checkpoint[d][j]
    BY DEF Yield
  <2> HIDE DEF y
  <2>4. checkpoint' \in [Dirs -> [Jobs \cup {Calendar} -> Content \cup {"none"}]]
    BY <1>0, <2>1, <2>2
  <2>5. checkpoint'[d][j] = y
    BY <1>0, <2>1
  <2>6. \A e \in Dirs, k \in Jobs \cup {Calendar} :
           checkpoint[e][k] # "none" => checkpoint'[e][k] = checkpoint[e][k]
    BY <1>0, <2>1, <2>3
  <2> QED BY <1>1, <2>4, <2>5, <2>6 DEF y
<1> QED BY <1>2, <1>3

\* A mode's shared directory is a directory, and so is a forced run's.
LEMMA DirFacts ==
    /\ \A m \in Modes : Shared(m) \in Dirs
    /\ \A m \in Modes, n \in 0..MaxForced : <<m, n>> \in Dirs
    /\ \A d \in Dirs : Mode(d) \in Modes
BY UpdateAssumption DEF Shared, Dirs, Mode

\* Entering a stage changes nothing else of the run, and no other run.
LEMMA EnterFacts ==
    ASSUME TypeOK, NEW p \in Processes, NEW stage \in Stages, Enter(p, stage)
    PROVE  /\ run' \in [Processes -> Run]
           /\ run'[p].stage = stage /\ run'[p].dir = run[p].dir
           /\ run'[p].verdict = run[p].verdict
           /\ \A q \in Processes \ {p} : run'[q] = run[q]
<1>1. run \in [Processes -> Run]
  BY DEF TypeOK, Run, Stages
<1> QED BY <1>1 DEF Enter, Run

\* A decided run is in its stage with its verdict.
LEMMA DecideFacts ==
    ASSUME TypeOK, NEW p \in Processes, NEW stage \in Stages, NEW release \in Nat,
           NEW status \in {"NONE", "COMPLETED", "QUARANTINED", "FAILED_RESUMABLE"},
           Decide(p, stage, status, release)
    PROVE  /\ run' \in [Processes -> Run]
           /\ run'[p].stage = stage /\ run'[p].dir = run[p].dir
           /\ run'[p].verdict.status = status /\ run'[p].verdict.release = release
           /\ \A q \in Processes \ {p} : run'[q] = run[q]
<1>1. run \in [Processes -> Run]
  BY DEF TypeOK, Run, Stages
<1>2. [status |-> status, release |-> release] \in Report
  BY DEF Report
<1> QED BY <1>1, <1>2 DEF Decide, Run

\* A published release comes last; those before it stay.
LEMMA AppendFacts ==
    ASSUME TypeOK, NEW r, releases' = Append(releases, r)
    PROVE  /\ DOMAIN releases' = DOMAIN releases \cup {NextRelease}
           /\ releases'[NextRelease] = r
           /\ \A i \in DOMAIN releases : releases'[i] = releases[i]
BY DEF TypeOK, NextRelease

-----------------------------------------------------------------------------
(* Types. *)

LEMMA InitType == Init => TypeOK
<1> SUFFICES ASSUME Init PROVE TypeOK
  OBVIOUS
<1>1. Off \in Run
  <2>1. (CHOOSE m \in Modes : TRUE) \in Modes
    BY UpdateAssumption
  <2> QED BY <2>1, DirFacts DEF Off, Run, Stages, NoReport, Report
<1>2. NoResults \in Outcomes
  BY DEF NoResults, Outcomes
<1>3. NoReport \in Report
  BY DEF NoReport, Report
<1> QED BY <1>1, <1>2, <1>3, UpdateAssumption
        DEF Init, TypeOK, Run, Stages

LEMMA TypeStep == TypeOK /\ [Next]_vars => TypeOK'
<1> SUFFICES ASSUME TypeOK, [Next]_vars PROVE TypeOK'
  OBVIOUS
<1> USE DEF files, history
<1>0. NoReport \in Report /\ NoResults \in Outcomes /\ NextRelease \in Nat
  BY DEF NoReport, Report, NoResults, Outcomes, TypeOK, NextRelease
<1>1. ASSUME NEW p \in Processes, NEW m \in Modes, Start(p, m) PROVE TypeOK'
  BY <1>0, <1>1, DirFacts DEF TypeOK, Start
<1>2. ASSUME NEW p \in Processes, NEW m \in Modes, StartForced(p, m) PROVE TypeOK'
  <2>1. forced + 1 \in 0..MaxForced
    BY <1>2, UpdateAssumption DEF TypeOK, StartForced
  <2> QED BY <1>0, <1>2, <2>1, DirFacts DEF TypeOK, StartForced
<1>3. ASSUME NEW p \in Processes, TryLock(p) PROVE TypeOK'
  <2>1. run' \in [Processes -> Run]
    BY <1>3, EnterFacts DEF TryLock, Stages, Working
  <2> QED BY <1>0, <1>3, <2>1 DEF TypeOK, TryLock, Run, Stages
<1>4. ASSUME NEW p \in Processes, NEW answer \in CalendarAnswers, FetchCalendar(p, answer)
      PROVE TypeOK'
  <2>1. run[p].dir \in Dirs /\ answer \in Content \cup {"error"}
    BY UpdateAssumption DEF TypeOK
  <2>2. run' \in [Processes -> Run]
    BY <1>4, EnterFacts, DecideFacts DEF FetchCalendar, Stages, Working
  <2>3. checkpoint' \in [Dirs -> [Jobs \cup {Calendar} -> Content \cup {"none"}]]
    BY <1>4, <2>1, ArchiveFacts DEF FetchCalendar
  <2>4. disturbed' \subseteq Processes
    BY <1>4 DEF TypeOK, FetchCalendar, Disturb
  <2> QED BY <1>4, <2>2, <2>3, <2>4 DEF TypeOK, FetchCalendar, Run, Stages
<1>5. ASSUME NEW p \in Processes, NEW j \in Jobs, NEW answer \in Answers, Fetch(p, j, answer)
      PROVE TypeOK'
  <2>1. run[p].dir \in Dirs /\ answer \in Content \cup {"error"}
    BY UpdateAssumption DEF TypeOK
  <2>2. /\ checkpoint' \in [Dirs -> [Jobs \cup {Calendar} -> Content \cup {"none"}]]
        /\ Yield(run[p].dir, j, answer) \in Content \cup {"none", "error"}
    BY <1>5, <2>1, ArchiveFacts DEF Fetch
  <2>3. results' \in [Processes -> Outcomes]
    BY <1>5, <2>2 DEF TypeOK, Fetch, Outcomes
  <2>4. disturbed' \subseteq Processes
    BY <1>5 DEF TypeOK, Fetch, Disturb
  <2> QED BY <1>5, <2>2, <2>3, <2>4 DEF TypeOK, Fetch
<1>6. ASSUME NEW p \in Processes, Judge(p) PROVE TypeOK'
  <2>1. run' \in [Processes -> Run]
    BY <1>0, <1>6, DecideFacts DEF Judge, Stages, Working
  <2> QED BY <1>6, <2>1 DEF TypeOK, Judge, Run, Stages
<1>7. ASSUME NEW p \in Processes, StandardFails(p) PROVE TypeOK'
  <2>1. run[p].verdict.release \in Nat
    BY DEF TypeOK, Report
  <2>2. run' \in [Processes -> Run]
    BY <1>7, <2>1, DecideFacts DEF StandardFails, Stages, Working
  <2>3. raises' \in 0..MaxFailures
    BY <1>7, UpdateAssumption DEF TypeOK, StandardFails
  <2> QED BY <1>7, <2>2, <2>3 DEF TypeOK, StandardFails, Run, Stages
<1>8. ASSUME NEW p \in Processes, Publish(p) PROVE TypeOK'
  <2>1. run[p].verdict.release \in Nat /\ run[p].dir \in Dirs
    BY DEF TypeOK, Report
  <2>2. run' \in [Processes -> Run]
    BY <1>8, <2>1, DecideFacts DEF Publish, Stages, Working
  <2>3. releases' \in Seq(Release)
    BY <1>8, <2>1 DEF TypeOK, Publish, Release
  <2> QED BY <1>8, <2>2, <2>3 DEF TypeOK, Publish, Run, Stages
<1>9. ASSUME NEW p \in Processes, WriteReport(p) PROVE TypeOK'
  <2>1. run' \in [Processes -> Run]
    BY <1>9, EnterFacts DEF WriteReport, Stages, Working
  <2> QED BY <1>9, <2>1 DEF TypeOK, WriteReport, Run, Stages
<1>10. ASSUME NEW p \in Processes, WriteLatest(p) PROVE TypeOK'
  <2>1. run' \in [Processes -> Run]
    BY <1>10, EnterFacts DEF WriteLatest, Stages, Working
  <2>2. Mode(run[p].dir) \in Modes
    BY DirFacts DEF TypeOK
  <2> QED BY <1>10, <2>1, <2>2 DEF TypeOK, WriteLatest, Run, Stages
<1>11. ASSUME NEW p \in Processes, Raise(p) PROVE TypeOK'
  <2>1. run' \in [Processes -> Run]
    BY <1>11, DecideFacts DEF Raise, Stages, Working
  <2>2. raises' \in 0..MaxFailures
    BY <1>11, UpdateAssumption DEF TypeOK, Raise
  <2> QED BY <1>11, <2>1, <2>2 DEF TypeOK, Raise, Run, Stages
<1>12. ASSUME NEW p \in Processes, Crash(p) PROVE TypeOK'
  <2>1. run' \in [Processes -> Run]
    BY <1>12, EnterFacts DEF Crash, Stages, Working
  <2>2. crashes' \in 0..MaxFailures
    BY <1>12, UpdateAssumption DEF TypeOK, Crash
  <2> QED BY <1>12, <2>1, <2>2 DEF TypeOK, Crash, Run, Stages
<1>13. ASSUME NEW p \in Processes, Finish(p) PROVE TypeOK'
  <2>1. run' \in [Processes -> Run]
    BY <1>13, EnterFacts DEF Finish, Stages, Working
  <2> QED BY <1>13, <2>1 DEF TypeOK, Finish, Run, Stages
<1>14. CASE UNCHANGED vars
  BY <1>14 DEF TypeOK, vars
<1> QED BY <1>1, <1>2, <1>3, <1>4, <1>5, <1>6, <1>7, <1>8, <1>9, <1>10, <1>11, <1>12, <1>13,
           <1>14
        DEF Next, Step

-----------------------------------------------------------------------------
(* One run at a time. *)

\* A step of the run that holds the lock, which keeps it, disturbs no one.
LEMMA LockKept ==
    ASSUME OneRunAtATime, NEW p \in Processes, run[p].stage \in Working, lock' = lock,
           run'[p].stage \in Working, \A q \in Processes \ {p} : run'[q] = run[q]
    PROVE  OneRunAtATime'
BY DEF OneRunAtATime

LEMMA LockStep == TypeOK /\ OneRunAtATime /\ [Next]_vars => OneRunAtATime'
<1> SUFFICES ASSUME TypeOK, OneRunAtATime, [Next]_vars PROVE OneRunAtATime'
  OBVIOUS
<1>1. ASSUME NEW p \in Processes, NEW m \in Modes, Start(p, m) \/ StartForced(p, m)
      PROVE OneRunAtATime'
  <2>1. /\ lock' = lock /\ run[p].stage = "off" /\ run'[p].stage = "starting"
        /\ \A q \in Processes \ {p} : run'[q] = run[q]
    BY <1>1 DEF TypeOK, Start, StartForced
  <2> QED BY <2>1 DEF OneRunAtATime, Working
<1>2. ASSUME NEW p \in Processes, TryLock(p) PROVE OneRunAtATime'
  <2>1. CASE lock = NoProcess
    <3>1. Enter(p, "calendar") /\ lock' = p
      BY <1>2, <2>1 DEF TryLock
    <3>2. run'[p].stage \in Working /\ \A q \in Processes \ {p} : run'[q] = run[q]
      BY <3>1, EnterFacts DEF Stages, Working
    <3>3. \A q \in Processes : run[q].stage \notin Working
      BY <2>1, UpdateAssumption DEF OneRunAtATime
    <3> QED BY <3>1, <3>2, <3>3 DEF OneRunAtATime
  <2>2. CASE lock # NoProcess
    <3>1. Enter(p, "off") /\ lock' = lock
      BY <1>2, <2>2 DEF TryLock
    <3>2. run'[p].stage = "off" /\ \A q \in Processes \ {p} : run'[q] = run[q]
      BY <3>1, EnterFacts DEF Stages
    <3>3. run[p].stage \notin Working
      BY <1>2 DEF TryLock, Working
    <3> QED BY <3>1, <3>2, <3>3 DEF OneRunAtATime, Working
  <2> QED BY <2>1, <2>2
<1>3. ASSUME NEW p \in Processes, NEW answer \in CalendarAnswers, FetchCalendar(p, answer)
      PROVE OneRunAtATime'
  <2>1. run'[p].stage \in Working /\ \A q \in Processes \ {p} : run'[q] = run[q]
    BY <1>3, EnterFacts, DecideFacts DEF FetchCalendar, Stages, Working
  <2> QED BY <1>3, <2>1, LockKept DEF FetchCalendar, Working
<1>4. ASSUME NEW p \in Processes, NEW j \in Jobs, NEW answer \in Answers, Fetch(p, j, answer)
      PROVE OneRunAtATime'
  BY <1>4 DEF Fetch, OneRunAtATime
<1>5. ASSUME NEW p \in Processes, Judge(p) PROVE OneRunAtATime'
  <2>1. NextRelease \in Nat
    BY DEF TypeOK, NextRelease
  <2>2. run'[p].stage \in Working /\ \A q \in Processes \ {p} : run'[q] = run[q]
    BY <1>5, <2>1, DecideFacts DEF Judge, Stages, Working
  <2> QED BY <1>5, <2>2, LockKept DEF Judge, Working
<1>6. ASSUME NEW p \in Processes, StandardFails(p) \/ Publish(p) PROVE OneRunAtATime'
  <2>1. run[p].verdict.release \in Nat
    BY DEF TypeOK, Report
  <2>2. run'[p].stage \in Working /\ \A q \in Processes \ {p} : run'[q] = run[q]
    BY <1>6, <2>1, DecideFacts DEF StandardFails, Publish, Stages, Working
  <2> QED BY <1>6, <2>2, LockKept DEF StandardFails, Publish, Working
<1>7. ASSUME NEW p \in Processes, WriteReport(p) \/ WriteLatest(p) PROVE OneRunAtATime'
  <2>1. run'[p].stage \in Working /\ \A q \in Processes \ {p} : run'[q] = run[q]
    BY <1>7, EnterFacts DEF WriteReport, WriteLatest, Stages, Working
  <2> QED BY <1>7, <2>1, LockKept DEF WriteReport, WriteLatest, Working
<1>8. ASSUME NEW p \in Processes, Finish(p) \/ Crash(p) PROVE OneRunAtATime'
  <2>1. run'[p].stage = "off" /\ \A q \in Processes \ {p} : run'[q] = run[q]
    BY <1>8, EnterFacts DEF Finish, Crash, Stages
  <2>2. \/ lock = p /\ lock' = NoProcess
        \/ lock # p /\ lock' = lock
    BY <1>8 DEF OneRunAtATime, Finish, Crash, Working
  <2> QED BY <2>1, <2>2, UpdateAssumption DEF OneRunAtATime, Working
<1>9. ASSUME NEW p \in Processes, Raise(p) PROVE OneRunAtATime'
  <2>1. run'[p].stage \in Working /\ \A q \in Processes \ {p} : run'[q] = run[q]
    BY <1>9, DecideFacts DEF Raise, Stages, Working
  <2> QED BY <1>9, <2>1, LockKept DEF Raise
<1>10. CASE UNCHANGED vars
  BY <1>10 DEF vars, OneRunAtATime
<1> QED BY <1>1, <1>2, <1>3, <1>4, <1>5, <1>6, <1>7, <1>8, <1>9, <1>10 DEF Next, Step

-----------------------------------------------------------------------------
(* The gate, the archive and the releases. *)

\* A run that is at none of the gate's stages cannot disturb what holds of the others.
LEMMA GateKept ==
    ASSUME Gate, NEW p \in Processes, run'[p].stage \notin {"calendar", "fetching", "judged"},
           \A q \in Processes \ {p} : run'[q] = run[q],
           UNCHANGED <<results, checkpoint, releases>>
    PROVE  Gate'
BY DEF Gate, ResultsAreArchived, JudgedPassed, NumberIsNext, NextRelease

LEMMA GateStep == TypeOK /\ OneRunAtATime /\ Gate /\ [Next]_vars => Gate'
<1> SUFFICES ASSUME TypeOK, OneRunAtATime, Gate, [Next]_vars PROVE Gate'
  OBVIOUS
<1> USE DEF Gate
<1>1. ASSUME NEW p \in Processes, NEW m \in Modes, Start(p, m) \/ StartForced(p, m)
      PROVE Gate'
  <2>1. /\ run'[p].stage = "starting" /\ \A q \in Processes \ {p} : run'[q] = run[q]
        /\ UNCHANGED <<results, checkpoint, releases>>
    BY <1>1 DEF TypeOK, Start, StartForced, files
  <2> QED BY <2>1, GateKept
<1>2. ASSUME NEW p \in Processes, TryLock(p) PROVE Gate'
  <2>1. /\ run'[p].stage \in {"calendar", "off"}
        /\ \A q \in Processes \ {p} : run'[q] = run[q] /\ results'[q] = results[q]
        /\ \A j \in Jobs : results'[p][j] = "none"
        /\ UNCHANGED <<checkpoint, releases>>
    BY <1>2, EnterFacts DEF TypeOK, TryLock, Stages, Working, files, NoResults
  <2> QED BY <2>1 DEF ResultsAreArchived, JudgedPassed, NumberIsNext, NextRelease
<1>3. ASSUME NEW p \in Processes, NEW answer \in CalendarAnswers, FetchCalendar(p, answer)
      PROVE Gate'
  <2>1. /\ run'[p].stage \in {"fetching", "reporting"} /\ run'[p].dir = run[p].dir
        /\ \A q \in Processes \ {p} : run'[q] = run[q]
        /\ run[p].stage = "calendar"
        /\ UNCHANGED <<results, releases>>
    BY <1>3, EnterFacts, DecideFacts DEF FetchCalendar, Stages, Working
  <2>2. \A d \in Dirs, j \in Jobs : checkpoint[d][j] # "none" =>
                                       checkpoint'[d][j] = checkpoint[d][j]
    <3>1. run[p].dir \in Dirs /\ answer \in Content \cup {"error"}
      BY UpdateAssumption DEF TypeOK
    <3> QED BY <1>3, <3>1, ArchiveFacts DEF FetchCalendar
  <2>3. \A q \in Processes : run[q].dir \in Dirs
    BY DEF TypeOK
  <2> QED BY <2>1, <2>2, <2>3 DEF ResultsAreArchived, JudgedPassed, NumberIsNext, NextRelease
<1>4. ASSUME NEW p \in Processes, NEW j \in Jobs, NEW answer \in Answers, Fetch(p, j, answer)
      PROVE Gate'
  <2>1. run[p].dir \in Dirs /\ answer \in Content \cup {"error"}
    BY UpdateAssumption DEF TypeOK
  <2>2. \A d \in Dirs, k \in Jobs : checkpoint[d][k] # "none" =>
                                       checkpoint'[d][k] = checkpoint[d][k]
    BY <1>4, <2>1, ArchiveFacts DEF Fetch
  <2>3. results'[p][j] \in {"error", checkpoint'[run[p].dir][j]}
    <3>1. results'[p][j] = Yield(run[p].dir, j, answer)
      BY <1>4 DEF Fetch, TypeOK, Outcomes
    <3> QED BY <1>4, <2>1, <3>1, ArchiveFacts DEF Fetch
  <2>4. /\ \A q \in Processes \ {p} : results'[q] = results[q]
        /\ \A k \in Jobs \ {j} : results'[p][k] = results[p][k]
    BY <1>4 DEF Fetch, TypeOK, Outcomes
  <2>5. /\ run[p].stage = "fetching" /\ UNCHANGED <<run, releases>>
        /\ \A q \in Processes : run[q].dir \in Dirs
    BY <1>4 DEF Fetch, TypeOK
  <2>6. ResultsAreArchived'
    BY <2>2, <2>3, <2>4, <2>5 DEF ResultsAreArchived
  <2> QED BY <2>4, <2>5, <2>6 DEF JudgedPassed, NumberIsNext, NextRelease
<1>5. ASSUME NEW p \in Processes, Judge(p) PROVE Gate'
  <2>1. NextRelease \in Nat /\ NextRelease' = NextRelease
    BY <1>5 DEF TypeOK, NextRelease, Judge, files
  <2>2. /\ run'[p].dir = run[p].dir
        /\ \A q \in Processes \ {p} : run'[q] = run[q]
        /\ run'[p].stage \in {"judged", "reporting"}
        /\ run'[p].stage = "judged" =>
              Passed(results[p]) /\ run'[p].verdict.release = NextRelease
    <3>1. CASE Passed(results[p])
      <4>1. Decide(p, "judged", "NONE", NextRelease)
        BY <1>5, <3>1 DEF Judge
      <4> QED BY <2>1, <3>1, <4>1, DecideFacts DEF Stages, Working
    <3>2. CASE ~Passed(results[p])
      <4>1. Decide(p, "reporting", "QUARANTINED", NextRelease)
        BY <1>5, <3>2 DEF Judge
      <4> QED BY <2>1, <4>1, DecideFacts DEF Stages, Working
    <3> QED BY <3>1, <3>2
  <2>3. /\ run[p].stage = "fetching" /\ \A j \in Jobs : results[p][j] # "none"
        /\ UNCHANGED <<results, checkpoint>>
    BY <1>5 DEF Judge, files
  <2> QED BY <2>1, <2>2, <2>3 DEF ResultsAreArchived, JudgedPassed, NumberIsNext
<1>6. ASSUME NEW p \in Processes, Publish(p) PROVE Gate'
  <2>1. run[p].verdict.release \in Nat
    BY DEF TypeOK, Report
  <2>2. /\ run'[p].stage = "reporting" /\ \A q \in Processes \ {p} : run'[q] = run[q]
        /\ UNCHANGED <<results, checkpoint>>
    BY <1>6, <2>1, DecideFacts DEF Publish, Stages, Working
  <2>3. \A q \in Processes \ {p} : run[q].stage # "judged"
    BY <1>6 DEF OneRunAtATime, Working, Publish
  <2> QED BY <2>2, <2>3 DEF ResultsAreArchived, JudgedPassed, NumberIsNext
<1>7. ASSUME NEW p \in Processes, StandardFails(p) \/ Raise(p) PROVE Gate'
  <2>1. run[p].verdict.release \in Nat
    BY DEF TypeOK, Report
  <2>2. /\ run'[p].stage = "reporting" /\ \A q \in Processes \ {p} : run'[q] = run[q]
        /\ UNCHANGED <<results, checkpoint, releases>>
    BY <1>7, <2>1, DecideFacts DEF StandardFails, Raise, Stages, Working, files
  <2> QED BY <2>2, GateKept
<1>8. ASSUME NEW p \in Processes, WriteReport(p) \/ WriteLatest(p) \/ Finish(p) \/ Crash(p)
      PROVE  Gate'
  <2>1. /\ run'[p].stage \in {"pointing", "logging", "off"}
        /\ \A q \in Processes \ {p} : run'[q] = run[q]
        /\ UNCHANGED <<results, checkpoint, releases>>
    BY <1>8, EnterFacts DEF WriteReport, WriteLatest, Finish, Crash, Stages, Working, files
  <2> QED BY <2>1, GateKept
<1>9. CASE UNCHANGED vars
  BY <1>9 DEF vars, ResultsAreArchived, JudgedPassed, NumberIsNext, NextRelease
<1> QED BY <1>1, <1>2, <1>3, <1>4, <1>5, <1>6, <1>7, <1>8, <1>9 DEF Next, Step

LEMMA SoundStep == TypeOK /\ Gate /\ Sound /\ [Next]_vars => Sound'
<1> SUFFICES ASSUME TypeOK, Gate, Sound, [Next]_vars PROVE Sound'
  OBVIOUS
<1>0. \A i \in DOMAIN releases : releases[i].dir \in Dirs
  <2>1. \A i \in DOMAIN releases : releases[i] \in Release
    BY DEF TypeOK
  <2> QED BY <2>1 DEF Release
<1>1. ASSUME UNCHANGED releases, NEW d \in Dirs, NEW j \in Jobs \cup {Calendar},
             NEW answer \in Content \cup {"error"}, Archive(d, j, answer)
      PROVE Sound'
  <2>1. \A e \in Dirs, k \in Jobs : checkpoint[e][k] # "none" =>
                                       checkpoint'[e][k] = checkpoint[e][k]
    BY <1>1, ArchiveFacts
  <2> QED BY <1>0, <1>1, <2>1 DEF Sound, ReleasesAreSound, ReleasesAreComplete
<1>2. ASSUME NEW p \in Processes, NEW answer \in CalendarAnswers, FetchCalendar(p, answer)
      PROVE Sound'
  <2>1. run[p].dir \in Dirs /\ answer \in Content \cup {"error"}
    BY UpdateAssumption DEF TypeOK
  <2> QED BY <1>1, <1>2, <2>1 DEF FetchCalendar
<1>3. ASSUME NEW p \in Processes, NEW j \in Jobs, NEW answer \in Answers, Fetch(p, j, answer)
      PROVE Sound'
  <2>1. run[p].dir \in Dirs /\ answer \in Content \cup {"error"}
    BY UpdateAssumption DEF TypeOK
  <2> QED BY <1>1, <1>3, <2>1 DEF Fetch
<1>4. ASSUME NEW p \in Processes, Publish(p) PROVE Sound'
  <2> DEFINE new == [dir |-> run[p].dir, content |-> results[p]]
  <2>1. releases' = Append(releases, new) /\ checkpoint' = checkpoint
    BY <1>4 DEF Publish
  <2>2. /\ Passed(new.content)
        /\ \A j \in Jobs : /\ new.content[j] \in {checkpoint[new.dir][j], "error"}
                           /\ new.content[j] # "none"
    BY <1>4 DEF Publish, Gate, JudgedPassed, ResultsAreArchived
  <2> HIDE DEF new
  <2>3. /\ DOMAIN releases' = DOMAIN releases \cup {NextRelease}
        /\ releases'[NextRelease] = new
        /\ \A i \in DOMAIN releases : releases'[i] = releases[i]
    BY <2>1, AppendFacts
  <2> QED BY <2>1, <2>2, <2>3 DEF Sound, ReleasesAreSound, ReleasesAreComplete, Passed
<1>5. CASE UNCHANGED <<checkpoint, releases>>
  BY <1>5 DEF Sound, ReleasesAreSound, ReleasesAreComplete, Passed
<1> QED BY <1>2, <1>3, <1>4, <1>5
        DEF Next, Step, Start, StartForced, TryLock, Judge, StandardFails, WriteReport,
            WriteLatest, Finish, Raise, Crash, files, vars

-----------------------------------------------------------------------------
(* Reports. *)

\* While the reports stay, a verdict is all there is to show.
LEMMA ReportedKept ==
    ASSUME Reported, NEW p \in Processes, UNCHANGED <<report, latest, releases>>,
           run'[p].stage \in {"reporting", "pointing"} => run'[p].verdict.status # "COMPLETED",
           \A q \in Processes \ {p} : run'[q] = run[q]
    PROVE  Reported'
BY DEF Reported, VerdictIsReleased, CompletedIsReleased

LEMMA ReportedStep == TypeOK /\ Gate /\ Reported /\ [Next]_vars => Reported'
<1> SUFFICES ASSUME TypeOK, Gate, Reported, [Next]_vars PROVE Reported'
  OBVIOUS
<1>0. NextRelease \in Nat /\ \A p \in Processes : run[p].verdict.release \in Nat
  BY DEF TypeOK, Report, NextRelease
<1>1. ASSUME NEW p \in Processes, NEW m \in Modes, Start(p, m) \/ StartForced(p, m)
      PROVE Reported'
  <2>1. /\ run'[p].stage = "starting" /\ \A q \in Processes \ {p} : run'[q] = run[q]
        /\ UNCHANGED <<report, latest, releases>>
    BY <1>1 DEF TypeOK, Start, StartForced, files
  <2> QED BY <2>1, ReportedKept
<1>2. ASSUME NEW p \in Processes, TryLock(p) \/ Finish(p) \/ Crash(p) PROVE Reported'
  <2>1. /\ run'[p].stage \in {"calendar", "off"}
        /\ \A q \in Processes \ {p} : run'[q] = run[q]
        /\ UNCHANGED <<report, latest, releases>>
    BY <1>2, EnterFacts DEF TryLock, Finish, Crash, Stages, Working, files
  <2> QED BY <2>1, ReportedKept
<1>3. ASSUME NEW p \in Processes, NEW answer \in CalendarAnswers, FetchCalendar(p, answer)
      PROVE Reported'
  <2>1. /\ run'[p].stage = "fetching" \/ run'[p].verdict.status = "FAILED_RESUMABLE"
        /\ \A q \in Processes \ {p} : run'[q] = run[q]
        /\ UNCHANGED <<report, latest, releases>>
    BY <1>3, EnterFacts, DecideFacts DEF FetchCalendar, Stages, Working
  <2> QED BY <2>1, ReportedKept
<1>4. ASSUME NEW p \in Processes, Judge(p) PROVE Reported'
  <2>1. /\ run'[p].verdict.status \in {"NONE", "QUARANTINED"}
        /\ \A q \in Processes \ {p} : run'[q] = run[q]
        /\ UNCHANGED <<report, latest, releases>>
    BY <1>0, <1>4, DecideFacts DEF Judge, Stages, Working, files
  <2> QED BY <2>1, ReportedKept
<1>5. ASSUME NEW p \in Processes, StandardFails(p) \/ Raise(p) PROVE Reported'
  <2>1. /\ run'[p].verdict.status \in {"QUARANTINED", "FAILED_RESUMABLE"}
        /\ \A q \in Processes \ {p} : run'[q] = run[q]
        /\ UNCHANGED <<report, latest, releases>>
    BY <1>0, <1>5, DecideFacts DEF StandardFails, Raise, Stages, Working, files
  <2> QED BY <2>1, ReportedKept
<1>6. ASSUME NEW p \in Processes, Publish(p) PROVE Reported'
  <2> DEFINE new == [dir |-> run[p].dir, content |-> results[p]]
  <2>1. releases' = Append(releases, new) /\ UNCHANGED <<report, latest>>
    BY <1>6 DEF Publish
  <2>2. new.dir = run[p].dir /\ run[p].verdict.release = NextRelease
    BY <1>6 DEF Publish, Gate, NumberIsNext
  <2> HIDE DEF new
  <2>3. /\ DOMAIN releases' = DOMAIN releases \cup {NextRelease}
        /\ releases'[NextRelease] = new
        /\ \A i \in DOMAIN releases : releases'[i] = releases[i]
    BY <2>1, AppendFacts
  <2>4. /\ run'[p].dir = run[p].dir /\ run'[p].verdict.release = NextRelease
        /\ \A q \in Processes \ {p} : run'[q] = run[q]
    BY <1>0, <1>6, <2>2, DecideFacts DEF Publish, Stages, Working
  <2>5. VerdictIsReleased'
    BY <2>2, <2>3, <2>4 DEF Reported, VerdictIsReleased
  <2>6. CompletedIsReleased'
    BY <2>1, <2>3 DEF Reported, CompletedIsReleased
  <2> QED BY <2>5, <2>6 DEF Reported
<1>7. ASSUME NEW p \in Processes, WriteReport(p) PROVE Reported'
  <2>1. /\ run'[p].verdict = run[p].verdict /\ run'[p].dir = run[p].dir
        /\ \A q \in Processes \ {p} : run'[q] = run[q]
        /\ run[p].stage = "reporting" /\ UNCHANGED <<latest, releases>>
    BY <1>7, EnterFacts DEF WriteReport, Stages, Working
  <2>2. VerdictIsReleased'
    BY <2>1 DEF Reported, VerdictIsReleased
  <2>3. \A d \in Dirs : report'[d] = report[d] \/ (d = run[p].dir /\ report'[d] = run[p].verdict)
    <3>1. report \in [Dirs -> Report]
      BY DEF TypeOK
    <3> QED BY <1>7, <3>1 DEF WriteReport
  <2>4. CompletedIsReleased'
    BY <2>1, <2>3 DEF Reported, VerdictIsReleased, CompletedIsReleased
  <2> QED BY <2>2, <2>4 DEF Reported
<1>8. ASSUME NEW p \in Processes, WriteLatest(p) PROVE Reported'
  <2>1. /\ run'[p].stage = "logging" /\ \A q \in Processes \ {p} : run'[q] = run[q]
        /\ run[p].stage = "pointing" /\ UNCHANGED <<report, releases>>
    BY <1>8, EnterFacts DEF WriteLatest, Stages, Working
  <2>2. VerdictIsReleased'
    BY <2>1 DEF Reported, VerdictIsReleased
  <2>3. \A m \in Modes :
           \/ latest'[m] = latest[m]
           \/ m = Mode(run[p].dir) /\ latest'[m] = run[p].verdict
    <3>1. latest \in [Modes -> Report]
      BY DEF TypeOK
    <3> QED BY <1>8, <3>1 DEF WriteLatest
  <2>4. CompletedIsReleased'
    BY <2>1, <2>3 DEF Reported, VerdictIsReleased, CompletedIsReleased
  <2> QED BY <2>2, <2>4 DEF Reported
<1>9. CASE UNCHANGED <<run, report, latest, releases>>
  BY <1>9 DEF Reported, VerdictIsReleased, CompletedIsReleased
<1> QED BY <1>1, <1>2, <1>3, <1>4, <1>5, <1>6, <1>7, <1>8, <1>9 DEF Next, Step, Fetch, vars

-----------------------------------------------------------------------------
(* The theorems. *)

\* IInv holds of every state of any run of the daily update.
THEOREM Invariance == Spec => []IInv
<1>1. Init => IInv
  <2> SUFFICES ASSUME Init PROVE IInv
    OBVIOUS
  <2>1. TypeOK
    BY InitType
  <2>2. \A p \in Processes : run[p].stage = "off"
    BY DEF Init, Off
  <2>3. OneRunAtATime /\ Gate /\ VerdictIsReleased
    BY <2>2, UpdateAssumption DEF Init, OneRunAtATime, Working, Gate, ResultsAreArchived, JudgedPassed, NumberIsNext,
                VerdictIsReleased
  <2>4. DOMAIN releases = {}
    BY DEF Init
  <2>5. CompletedIsReleased
    BY DEF Init, CompletedIsReleased, NoReport
  <2> QED BY <2>1, <2>3, <2>4, <2>5
          DEF IInv, Sound, ReleasesAreSound, ReleasesAreComplete, Reported
<1>2. IInv /\ [Next]_vars => IInv'
  BY TypeStep, LockStep, GateStep, SoundStep, ReportedStep DEF IInv
<1> QED BY <1>1, <1>2, PTL DEF Spec

\* Types hold for any number of processes, modes, jobs and answers.
THEOREM TypeCorrect == Spec => []TypeOK
<1>1. IInv => TypeOK
  BY DEF IInv
<1> QED BY <1>1, Invariance, PTL

\* The lock refuses overlapping runs, through crashes of its holder.
THEOREM Exclusive == Spec => []OneRunAtATime
<1>1. IInv => OneRunAtATime
  BY DEF IInv
<1> QED BY <1>1, Invariance, PTL

\* Nothing that failed the gate is released, and a release stays what its run
\* directory has archived.
THEOREM Released == Spec => []ReleasesAreSound
<1>1. IInv => ReleasesAreSound
  BY DEF IInv, Sound
<1> QED BY <1>1, Invariance, PTL

\* COMPLETED, in a report or in a latest file, is never said without a release.
THEOREM Completed == Spec => []CompletedIsReleased
<1>1. IInv => CompletedIsReleased
  BY DEF IInv, Reported
<1> QED BY <1>1, Invariance, PTL

-----------------------------------------------------------------------------
(* How often a directory's data is released. *)

\* What a release of directory d takes: the plan, and every required job.
Kept(d) ==
    /\ checkpoint[d][Calendar] = "rows"
    /\ \A j \in Required : checkpoint[d][j] # "none"
    /\ \A j \in Required \cap ExpectRows : checkpoint[d][j] # "empty"

\* A job reported as failed has archived nothing since: the run holds the lock.
ErrorsAreGaps ==
    \A p \in Processes : run[p].stage \in {"calendar", "fetching", "judged"} =>
        \A j \in Jobs : results[p][j] = "error" => checkpoint[run[p].dir][j] = "none"

PlanIsArchived ==
    \A p \in Processes : run[p].stage \in {"fetching", "judged"} =>
        checkpoint[run[p].dir][Calendar] = "rows"

ReleasedIsKept == \A i \in DOMAIN releases : Kept(releases[i].dir)

\* Directories above the number of forced runs are still unused.
DirsTaken ==
    /\ \A p \in Processes : run[p].dir[2] <= forced
    /\ \A i \in DOMAIN releases : releases[i].dir[2] <= forced

HistInv == ErrorsAreGaps /\ PlanIsArchived /\ ReleasedIsKept /\ DirsTaken

LEMMA NumberFacts ==
    /\ \A d \in Dirs : d[2] \in Nat
    /\ \A m \in Modes : Shared(m)[2] = 0
    /\ \A m \in Modes, n \in 0..MaxForced : <<m, n>>[2] = n
BY UpdateAssumption DEF Dirs, Shared

\* Archives only grow.
LEMMA KeptStays ==
    ASSUME TypeOK, NEW d \in Dirs, Kept(d),
           \A j \in Jobs \cup {Calendar} :
              checkpoint[d][j] # "none" => checkpoint'[d][j] = checkpoint[d][j]
    PROVE  Kept(d)'
BY UpdateAssumption DEF Kept

LEMMA ReleaseDirs == TypeOK => \A i \in DOMAIN releases : releases[i].dir \in Dirs
<1> SUFFICES ASSUME TypeOK PROVE \A i \in DOMAIN releases : releases[i].dir \in Dirs
  OBVIOUS
<1>1. \A i \in DOMAIN releases : releases[i] \in Release
  BY DEF TypeOK
<1> QED BY <1>1 DEF Release

\* A step of one run that archives and releases nothing.
LEMMA HistKept ==
    ASSUME TypeOK, HistInv, NEW p \in Processes,
           \A q \in Processes \ {p} : run'[q] = run[q],
           UNCHANGED <<results, checkpoint, releases>>, forced' \in Nat, forced <= forced',
           run'[p].dir[2] <= forced',
           \/ run'[p].stage \notin {"calendar", "fetching", "judged"}
           \/ /\ run[p].stage = "fetching" /\ run'[p].stage = "judged"
              /\ run'[p].dir = run[p].dir
    PROVE  HistInv'
<1>1. \A q \in Processes : run[q].dir[2] \in Nat
  BY NumberFacts DEF TypeOK
<1>2. \A i \in DOMAIN releases : releases[i].dir[2] \in Nat
  BY ReleaseDirs, NumberFacts
<1>0. forced \in Nat
  BY DEF TypeOK
<1>3. DirsTaken'
  <2>1. \A q \in Processes : run'[q].dir[2] <= forced'
    BY <1>0, <1>1 DEF HistInv, DirsTaken
  <2>2. \A i \in DOMAIN releases : releases[i].dir[2] <= forced'
    BY <1>0, <1>2 DEF HistInv, DirsTaken
  <2> QED BY <2>1, <2>2 DEF DirsTaken
<1>4. ErrorsAreGaps' /\ PlanIsArchived' /\ ReleasedIsKept'
  BY DEF HistInv, ErrorsAreGaps, PlanIsArchived, ReleasedIsKept, Kept
<1> QED BY <1>3, <1>4 DEF HistInv

LEMMA HistStep == IInv /\ HistInv /\ [Next]_vars => HistInv'
<1> SUFFICES ASSUME IInv, HistInv, [Next]_vars PROVE HistInv'
  OBVIOUS
<1>0. /\ TypeOK /\ OneRunAtATime /\ forced \in Nat /\ NextRelease \in Nat
      /\ \A q \in Processes : /\ run[q].verdict.release \in Nat /\ run[q].dir \in Dirs
                              /\ run[q].dir[2] \in Nat /\ run[q].dir[2] <= forced
  <2>1. /\ TypeOK /\ OneRunAtATime
        /\ \A q \in Processes : run[q].dir[2] <= forced
    BY DEF IInv, HistInv, DirsTaken
  <2>2. /\ forced \in Nat /\ NextRelease \in Nat
        /\ \A q \in Processes : run[q].verdict.release \in Nat /\ run[q].dir \in Dirs
    BY <2>1 DEF TypeOK, Report, NextRelease
  <2> QED BY <2>1, <2>2, NumberFacts
<1>1. ASSUME NEW p \in Processes, NEW m \in Modes, Start(p, m) PROVE HistInv'
  <2>1. /\ run'[p].stage = "starting" /\ run'[p].dir = Shared(m)
        /\ \A q \in Processes \ {p} : run'[q] = run[q]
        /\ UNCHANGED <<results, checkpoint, releases, forced>>
    BY <1>0, <1>1 DEF TypeOK, Start, files, history
  <2> QED BY <1>0, <2>1, NumberFacts, HistKept
<1>2. ASSUME NEW p \in Processes, NEW m \in Modes, StartForced(p, m) PROVE HistInv'
  <2>1. /\ run'[p].stage = "starting" /\ run'[p].dir = <<m, forced + 1>>
        /\ \A q \in Processes \ {p} : run'[q] = run[q]
        /\ UNCHANGED <<results, checkpoint, releases>> /\ forced' = forced + 1
    BY <1>0, <1>2 DEF TypeOK, StartForced, files
  <2> QED BY <1>0, <2>1, HistKept
<1>3. ASSUME NEW p \in Processes, TryLock(p) PROVE HistInv'
  <2>1. /\ run'[p].stage \in {"calendar", "off"} /\ run'[p].dir = run[p].dir
        /\ \A q \in Processes \ {p} : run'[q] = run[q] /\ results'[q] = results[q]
        /\ \A j \in Jobs : results'[p][j] = "none"
        /\ UNCHANGED <<checkpoint, releases, forced>>
    BY <1>0, <1>3, EnterFacts DEF TypeOK, TryLock, Stages, Working, files, history, NoResults
  <2> QED BY <1>0, <2>1
          DEF HistInv, ErrorsAreGaps, PlanIsArchived, ReleasedIsKept, Kept, DirsTaken
<1>4. ASSUME NEW p \in Processes, NEW answer \in CalendarAnswers, FetchCalendar(p, answer)
      PROVE HistInv'
  <2> DEFINE d == run[p].dir
  <2>0. d \in Dirs /\ answer \in Content \cup {"error"}
    BY <1>0, UpdateAssumption DEF TypeOK
  <2>1. /\ run'[p].stage \in {"fetching", "reporting"} /\ run'[p].dir = d
        /\ run'[p].stage = "fetching" => Yield(d, Calendar, answer) = "rows"
        /\ \A q \in Processes \ {p} : run'[q] = run[q]
        /\ run[p].stage = "calendar" /\ UNCHANGED <<results, releases, forced>>
    BY <1>0, <1>4, EnterFacts, DecideFacts DEF FetchCalendar, Stages, Working, history
  <2>2. /\ \A e \in Dirs, k \in Jobs \cup {Calendar} : checkpoint[e][k] # "none" =>
                                       checkpoint'[e][k] = checkpoint[e][k]
        /\ Yield(d, Calendar, answer) # "error" =>
              checkpoint'[d][Calendar] = Yield(d, Calendar, answer)
    BY <1>0, <1>4, <2>0, ArchiveFacts DEF FetchCalendar
  <2>3. \A j \in Jobs : checkpoint'[d][j] = checkpoint[d][j]
    <3>1. \A j \in Jobs : j # Calendar
      BY UpdateAssumption
    <3> QED BY <1>0, <1>4, <2>0, <3>1 DEF FetchCalendar, Archive, TypeOK
  <2>4. \A q \in Processes \ {p} : run[q].stage \notin Working
    BY <1>0, <2>1 DEF OneRunAtATime, Working
  <2>5. ErrorsAreGaps'
    BY <2>1, <2>3, <2>4 DEF HistInv, ErrorsAreGaps, Working
  <2>6. PlanIsArchived'
    BY <2>1, <2>2, <2>4 DEF PlanIsArchived, Working
  <2>7. ReleasedIsKept'
    BY <1>0, <2>1, <2>2, ReleaseDirs, KeptStays DEF HistInv, ReleasedIsKept
  <2>8. DirsTaken'
    BY <2>1 DEF HistInv, DirsTaken
  <2> QED BY <2>5, <2>6, <2>7, <2>8 DEF HistInv
<1>5. ASSUME NEW p \in Processes, NEW j \in Jobs, NEW answer \in Answers, Fetch(p, j, answer)
      PROVE HistInv'
  <2> DEFINE d == run[p].dir
  <2>0. d \in Dirs /\ answer \in Content \cup {"error"}
    BY <1>0, UpdateAssumption DEF TypeOK
  <2>1. /\ run[p].stage = "fetching" /\ results[p][j] = "none"
        /\ results'[p][j] = Yield(d, j, answer)
        /\ \A k \in Jobs \ {j} : results'[p][k] = results[p][k]
        /\ UNCHANGED <<run, releases, forced>>
    BY <1>0, <1>5 DEF Fetch, TypeOK, Outcomes, history
  <2>2. /\ \A e \in Dirs, k \in Jobs \cup {Calendar} : checkpoint[e][k] # "none" =>
                                       checkpoint'[e][k] = checkpoint[e][k]
    BY <1>0, <1>5, <2>0, ArchiveFacts DEF Fetch
  <2>3. /\ \A k \in Jobs \ {j} : checkpoint'[d][k] = checkpoint[d][k]
        /\ Yield(d, j, answer) = "error" => checkpoint'[d][j] = "none"
    <3>1. Yield(d, j, answer) = "error" => checkpoint[d][j] = "none"
      BY <1>0, <2>0 DEF Yield, TypeOK, Content
    <3> QED BY <1>0, <1>5, <2>0, <3>1 DEF Fetch, Archive, TypeOK
  <2>4. \A q \in Processes \ {p} : run[q].stage \notin Working
    BY <1>0, <2>1 DEF OneRunAtATime, Working
  <2>5. ErrorsAreGaps'
    <3>1. \A k \in Jobs : results'[p][k] = "error" => checkpoint'[d][k] = "none"
      BY <2>1, <2>3 DEF HistInv, ErrorsAreGaps
    <3> QED BY <2>1, <2>4, <3>1 DEF ErrorsAreGaps, Working
  <2>6. PlanIsArchived'
    BY <1>0, <2>1, <2>2 DEF HistInv, PlanIsArchived
  <2>7. ReleasedIsKept'
    BY <1>0, <2>1, <2>2, ReleaseDirs, KeptStays DEF HistInv, ReleasedIsKept
  <2>8. DirsTaken'
    BY <2>1 DEF HistInv, DirsTaken
  <2> QED BY <2>5, <2>6, <2>7, <2>8 DEF HistInv
<1>6. ASSUME NEW p \in Processes, Judge(p) \/ StandardFails(p) \/ Raise(p) PROVE HistInv'
  <2>1. /\ run'[p].stage = "reporting" \/ (run'[p].stage = "judged" /\ run[p].stage = "fetching")
        /\ run'[p].dir = run[p].dir
        /\ \A q \in Processes \ {p} : run'[q] = run[q]
        /\ UNCHANGED <<results, checkpoint, releases, forced>>
    BY <1>0, <1>6, DecideFacts
    DEF Judge, StandardFails, Raise, Stages, Working, files, history
  <2> QED BY <1>0, <2>1, HistKept
<1>7. ASSUME NEW p \in Processes, WriteReport(p) \/ WriteLatest(p) \/ Finish(p) \/ Crash(p)
      PROVE  HistInv'
  <2>1. /\ run'[p].stage \in {"pointing", "logging", "off"} /\ run'[p].dir = run[p].dir
        /\ \A q \in Processes \ {p} : run'[q] = run[q]
        /\ UNCHANGED <<results, checkpoint, releases, forced>>
    BY <1>0, <1>7, EnterFacts
    DEF WriteReport, WriteLatest, Finish, Crash, Stages, Working, files, history
  <2> QED BY <1>0, <2>1, HistKept
<1>8. ASSUME NEW p \in Processes, Publish(p) PROVE HistInv'
  <2> DEFINE new == [dir |-> run[p].dir, content |-> results[p]]
  <2>1. /\ run[p].stage = "judged" /\ run'[p].stage = "reporting" /\ run'[p].dir = run[p].dir
        /\ \A q \in Processes \ {p} : run'[q] = run[q]
        /\ UNCHANGED <<results, checkpoint, forced>>
    BY <1>0, <1>8, DecideFacts DEF Publish, Stages, Working, history
  <2>2. /\ DOMAIN releases' = DOMAIN releases \cup {NextRelease}
        /\ releases'[NextRelease] = new
        /\ \A i \in DOMAIN releases : releases'[i] = releases[i]
    BY <1>0, <1>8, AppendFacts DEF Publish
  <2>3. Kept(run[p].dir)
    <3>1. /\ Passed(results[p]) /\ \A j \in Jobs : results[p][j] # "none"
          /\ \A j \in Jobs : results[p][j] \in {"none", "error", checkpoint[run[p].dir][j]}
      BY <2>1 DEF IInv, Gate, JudgedPassed, ResultsAreArchived
    <3> QED BY <2>1, <3>1, UpdateAssumption DEF HistInv, PlanIsArchived, Kept, Passed
  <2>4. ErrorsAreGaps' /\ PlanIsArchived'
    BY <2>1 DEF HistInv, ErrorsAreGaps, PlanIsArchived
  <2>5. ReleasedIsKept' /\ DirsTaken'
    BY <1>0, <2>1, <2>2, <2>3 DEF HistInv, ReleasedIsKept, DirsTaken, Kept
  <2> QED BY <2>4, <2>5 DEF HistInv
<1>9. CASE UNCHANGED vars
  BY <1>9
  DEF vars, HistInv, ErrorsAreGaps, PlanIsArchived, ReleasedIsKept, Kept, DirsTaken
<1> QED BY <1>1, <1>2, <1>3, <1>4, <1>5, <1>6, <1>7, <1>8, <1>9 DEF Next, Step

-----------------------------------------------------------------------------
(* Who may still release a directory without another failure. *)

Failures == crashes + raises

\* Wrong data never passes, and it stays archived.
Poisoned(d) == \E j \in Jobs : checkpoint[d][j] = "wrong"

Coming(p, d) == run[p].dir = d /\ run[p].stage \in {"starting", "calendar", "fetching", "judged"}
Reporting(p, d) == run[p].dir = d /\ run[p].stage = "reporting"

\* The processes that can release d no more: all of them, once d is poisoned;
\* where d is or is about to be reported COMPLETED, those not on their way.
Spent(d) ==
    {p \in Processes :
        \/ Poisoned(d)
        \/ /\ \A q \in Processes : Reporting(q, d) => run[q].verdict.status = "COMPLETED"
           /\ \/ report[d].status = "COMPLETED" /\ ~Coming(p, d)
              \/ Reporting(p, d)}

Counted(d) ==
    Cardinality(ReleasesOf(d)) <= Cardinality(Processes) * Failures + Cardinality(Spent(d))

\* A directory reported COMPLETED has been released, and its archive is kept.
LEMMA CompletedIsKept ==
    ASSUME IInv, HistInv, NEW d \in Dirs, report[d].status = "COMPLETED"
    PROVE  Kept(d) /\ d[2] <= forced
BY DEF IInv, Reported, CompletedIsReleased, HistInv, ReleasedIsKept, DirsTaken

\* A run that is not reporting on d, nor becomes so, leaves the spent as they are.
LEMMA SpentKept ==
    ASSUME NEW d \in Dirs, NEW p \in Processes,
           \A q \in Processes \ {p} : run'[q] = run[q],
           Poisoned(d) => Poisoned(d)', report'[d] = report[d],
           ~Reporting(p, d), ~Reporting(p, d)',
           report[d].status = "COMPLETED" /\ ~Coming(p, d) => ~Coming(p, d)'
    PROVE  Spent(d) \subseteq Spent(d)'
BY DEF Spent, Reporting, Coming

\* While a run holds the lock no other one reports.
LEMMA OnlyReporter ==
    ASSUME OneRunAtATime, NEW p \in Processes, run[p].stage \in Working
    PROVE  \A q \in Processes : run[q].stage \in Working => q = p
BY DEF OneRunAtATime

\* A run gives its verdict without a failure: it can be a refusal only where the
\* directory is not reported COMPLETED, or is poisoned.
LEMMA RefusalKeepsSpent ==
    ASSUME OneRunAtATime, NEW d \in Dirs, NEW p \in Processes,
           \A q \in Processes \ {p} : run'[q] = run[q],
           run[p].stage \in Working, run[p].stage # "reporting", run'[p].dir = run[p].dir,
           run'[p].stage = "reporting", Poisoned(d) => Poisoned(d)', report' = report,
           run[p].dir = d => report[d].status # "COMPLETED" \/ Poisoned(d)
    PROVE  Spent(d) \subseteq Spent(d)'
<1>1. CASE run[p].dir # d
  BY <1>1, SpentKept DEF Reporting, Coming
<1>2. CASE Poisoned(d)
  BY <1>2 DEF Spent
<1>3. CASE run[p].dir = d /\ ~Poisoned(d)
  <2>1. \A q \in Processes : ~Reporting(q, d)
    BY OnlyReporter DEF Reporting, Working
  <2>2. Spent(d) = {}
    BY <1>3, <2>1 DEF Spent
  <2> QED BY <2>2
<1> QED BY <1>1, <1>2, <1>3

LEMMA PoisonStays ==
    ASSUME NEW d \in Dirs,
           \A j \in Jobs : checkpoint[d][j] # "none" => checkpoint'[d][j] = checkpoint[d][j]
    PROVE  Poisoned(d) => Poisoned(d)'
BY DEF Poisoned

\* A judged run holds no wrong data, and its directory none either.
LEMMA JudgedIsClean ==
    ASSUME IInv, HistInv, NEW p \in Processes, run[p].stage = "judged"
    PROVE  ~Poisoned(run[p].dir)
<1>1. /\ Passed(results[p]) /\ \A j \in Jobs : results[p][j] # "none"
      /\ \A j \in Jobs : results[p][j] \in {"none", "error", checkpoint[run[p].dir][j]}
  BY DEF IInv, Gate, JudgedPassed, ResultsAreArchived
<1>2. \A j \in Jobs : results[p][j] = "error" => checkpoint[run[p].dir][j] = "none"
  BY DEF HistInv, ErrorsAreGaps
<1> QED BY <1>1, <1>2 DEF Passed, Poisoned

\* A run does not pass though its directory was released: there is wrong data.
LEMMA RefusedIsPoisoned ==
    ASSUME IInv, HistInv, NEW p \in Processes, run[p].stage = "fetching",
           \A j \in Jobs : results[p][j] # "none", ~Passed(results[p]), Kept(run[p].dir)
    PROVE  Poisoned(run[p].dir)
<1>1. \A j \in Jobs : results[p][j] \in {"none", "error", checkpoint[run[p].dir][j]}
  BY DEF IInv, Gate, ResultsAreArchived
<1>2. \A j \in Jobs : results[p][j] = "error" => checkpoint[run[p].dir][j] = "none"
  BY DEF HistInv, ErrorsAreGaps
<1> QED BY <1>1, <1>2, UpdateAssumption DEF Passed, Poisoned, Kept

\* Steps that neither fail nor release.
LEMMA QuietKeepsSpent ==
    ASSUME IInv, HistInv, NEW d \in Dirs, NEW p \in Processes,
           \/ \E m \in Modes : Start(p, m) \/ StartForced(p, m)
           \/ TryLock(p)
           \/ \E answer \in CalendarAnswers : FetchCalendar(p, answer)
           \/ \E j \in Jobs, answer \in Answers : Fetch(p, j, answer)
           \/ Judge(p) \/ WriteReport(p) \/ WriteLatest(p) \/ Finish(p)
    PROVE  Failures' = Failures /\ releases' = releases /\ Spent(d) \subseteq Spent(d)'
<1>0. TypeOK /\ OneRunAtATime /\ NextRelease \in Nat /\ forced \in Nat
  <2>1. TypeOK /\ OneRunAtATime
    BY DEF IInv
  <2>2. forced \in Nat
    BY <2>1 DEF TypeOK
  <2>3. NextRelease \in Nat
    BY <2>1 DEF TypeOK, NextRelease
  <2> QED BY <2>1, <2>2, <2>3
<1>1. ASSUME NEW m \in Modes, Start(p, m) PROVE Spent(d) \subseteq Spent(d)'
  <2>1. /\ run[p].stage = "off" /\ run'[p].stage = "starting" /\ run'[p].dir = Shared(m)
        /\ report[Shared(m)].status # "COMPLETED"
        /\ \A q \in Processes \ {p} : run'[q] = run[q]
        /\ UNCHANGED <<checkpoint, report>>
    BY <1>0, <1>1 DEF TypeOK, Start, files
  <2> QED BY <2>1, SpentKept DEF Coming, Reporting, Poisoned
<1>2. ASSUME NEW m \in Modes, StartForced(p, m) PROVE Spent(d) \subseteq Spent(d)'
  <2>1. /\ run[p].stage = "off" /\ run'[p].stage = "starting" /\ run'[p].dir = <<m, forced + 1>>
        /\ \A q \in Processes \ {p} : run'[q] = run[q]
        /\ UNCHANGED <<checkpoint, report>>
    BY <1>0, <1>2 DEF TypeOK, StartForced, files
  <2>2. report[d].status = "COMPLETED" => d # <<m, forced + 1>>
    <3>1. ~(forced + 1 <= forced)
      BY <1>0
    <3> QED BY <3>1, CompletedIsKept
  <2> QED BY <2>1, <2>2, SpentKept DEF Coming, Reporting, Poisoned
<1>3. ASSUME TryLock(p) \/ WriteLatest(p) \/ Finish(p) PROVE Spent(d) \subseteq Spent(d)'
  <2>1. /\ run'[p].dir = run[p].dir /\ \A q \in Processes \ {p} : run'[q] = run[q]
        /\ UNCHANGED <<checkpoint, report>>
        /\ \/ run[p].stage = "starting" /\ run'[p].stage \in {"calendar", "off"}
           \/ run[p].stage \in {"pointing", "logging"} /\ run'[p].stage \in {"logging", "off"}
    BY <1>0, <1>3, EnterFacts DEF TryLock, WriteLatest, Finish, Stages, Working, files
  <2> QED BY <2>1, SpentKept DEF Coming, Reporting, Poisoned
<1>4. ASSUME NEW answer \in CalendarAnswers, FetchCalendar(p, answer)
      PROVE Spent(d) \subseteq Spent(d)'
  <2>0. run[p].dir \in Dirs /\ answer \in Content \cup {"error"}
    BY <1>0, UpdateAssumption DEF TypeOK
  <2>1. Poisoned(d) => Poisoned(d)'
    BY <1>0, <1>4, <2>0, ArchiveFacts, PoisonStays DEF FetchCalendar
  <2>2. /\ run[p].stage = "calendar" /\ run'[p].dir = run[p].dir /\ report' = report
        /\ \A q \in Processes \ {p} : run'[q] = run[q]
        /\ \/ run'[p].stage = "fetching"
           \/ run'[p].stage = "reporting" /\ Yield(run[p].dir, Calendar, answer) # "rows"
    BY <1>0, <1>4, EnterFacts, DecideFacts DEF FetchCalendar, Stages, Working
  <2>3. CASE run'[p].stage = "fetching"
    BY <2>1, <2>2, <2>3, SpentKept DEF Coming, Reporting
  <2>4. CASE run'[p].stage = "reporting" /\ Yield(run[p].dir, Calendar, answer) # "rows"
    <3>1. ~Kept(run[p].dir)
      BY <2>4 DEF Yield, Kept
    <3>2. report[run[p].dir].status # "COMPLETED"
      BY <2>0, <3>1, CompletedIsKept
    <3> QED BY <1>0, <2>1, <2>2, <2>4, <3>2, RefusalKeepsSpent DEF Working
  <2> QED BY <2>2, <2>3, <2>4
<1>5. ASSUME NEW j \in Jobs, NEW answer \in Answers, Fetch(p, j, answer)
      PROVE Spent(d) \subseteq Spent(d)'
  <2>0. run[p].dir \in Dirs /\ answer \in Content \cup {"error"}
    BY <1>0, UpdateAssumption DEF TypeOK
  <2>1. Poisoned(d) => Poisoned(d)'
    BY <1>0, <1>5, <2>0, ArchiveFacts, PoisonStays DEF Fetch
  <2> QED BY <1>5, <2>1 DEF Fetch, Spent, Reporting, Coming
<1>6. ASSUME Judge(p) PROVE Spent(d) \subseteq Spent(d)'
  <2>1. /\ run[p].stage = "fetching" /\ \A j \in Jobs : results[p][j] # "none"
        /\ UNCHANGED <<checkpoint, report>>
        /\ run'[p].dir = run[p].dir
        /\ \A q \in Processes \ {p} : run'[q] = run[q]
        /\ \/ run'[p].stage = "judged"
           \/ run'[p].stage = "reporting" /\ ~Passed(results[p])
    BY <1>0, <1>6, DecideFacts DEF Judge, Stages, Working, files
  <2>2. Poisoned(d) => Poisoned(d)'
    BY <2>1 DEF Poisoned
  <2>3. CASE run'[p].stage = "judged"
    BY <2>1, <2>2, <2>3, SpentKept DEF Coming, Reporting
  <2>4. CASE run'[p].stage = "reporting" /\ ~Passed(results[p])
    <3>1. run[p].dir = d => report[d].status # "COMPLETED" \/ Poisoned(d)
      BY <2>1, <2>4, CompletedIsKept, RefusedIsPoisoned
    <3> QED BY <1>0, <2>1, <2>2, <2>4, <3>1, RefusalKeepsSpent DEF Working
  <2> QED BY <2>1, <2>3, <2>4
<1>7. ASSUME WriteReport(p) PROVE Spent(d) \subseteq Spent(d)'
  <2>1. /\ run[p].stage = "reporting" /\ run'[p].stage = "pointing" /\ run'[p].dir = run[p].dir
        /\ \A q \in Processes \ {p} : run'[q] = run[q]
        /\ checkpoint' = checkpoint
        /\ report' = [report EXCEPT ![run[p].dir] = run[p].verdict]
    BY <1>0, <1>7, EnterFacts DEF WriteReport, Stages, Working
  <2>2. Poisoned(d) => Poisoned(d)'
    BY <2>1 DEF Poisoned
  <2>3. CASE run[p].dir # d
    BY <2>1, <2>2, <2>3, SpentKept DEF Coming, Reporting
  <2>4. CASE run[p].dir = d /\ run[p].verdict.status # "COMPLETED"
    BY <2>1, <2>2, <2>4 DEF Spent, Reporting
  <2>5. CASE run[p].dir = d /\ run[p].verdict.status = "COMPLETED"
    <3>1. \A q \in Processes \ {p} : ~Reporting(q, d) /\ ~Reporting(q, d)'
      BY <1>0, <2>1, OnlyReporter DEF Reporting, Working
    <3>2. report'[d].status = "COMPLETED"
      BY <1>0, <2>1, <2>5 DEF TypeOK
    <3>3. ~Reporting(p, d)' /\ ~Coming(p, d)'
      BY <2>1 DEF Reporting, Coming
    <3>4. \A q \in Processes \ {p} : Coming(q, d)' = Coming(q, d)
      BY <2>1 DEF Coming
    <3>5. ASSUME NEW q \in Spent(d) PROVE q \in Spent(d)'
      <4>1. q = p \/ Poisoned(d) \/ ~Coming(q, d)
        BY <3>1 DEF Spent
      <4>2. Poisoned(d)' \/ ~Coming(q, d)'
        BY <2>2, <3>3, <3>4, <4>1 DEF Spent
      <4> QED BY <3>1, <3>2, <3>3, <4>2 DEF Spent
    <3> QED BY <3>5
  <2> QED BY <2>3, <2>4, <2>5
<1>8. Failures' = Failures /\ releases' = releases
  BY DEF Start, StartForced, TryLock, FetchCalendar, Fetch, Judge, WriteReport, WriteLatest,
         Finish, files, history, Failures
<1> QED BY <1>1, <1>2, <1>3, <1>4, <1>5, <1>6, <1>7, <1>8

\* A release of d takes a process that was not spent, and spends it.
LEMMA PublishSpends ==
    ASSUME IInv, HistInv, NEW d \in Dirs, NEW p \in Processes, Publish(p)
    PROVE  /\ Failures' = Failures
           /\ \/ ReleasesOf(d)' = ReleasesOf(d) /\ Spent(d) \subseteq Spent(d)'
              \/ /\ ReleasesOf(d)' = ReleasesOf(d) \cup {NextRelease}
                 /\ p \notin Spent(d) /\ Spent(d) \cup {p} \subseteq Spent(d)'
<1>0. TypeOK /\ OneRunAtATime /\ run[p].verdict.release \in Nat
  <2>1. TypeOK /\ OneRunAtATime
    BY DEF IInv
  <2> QED BY <2>1 DEF TypeOK, Report
<1>1. /\ run[p].stage = "judged" /\ run'[p].stage = "reporting" /\ run'[p].dir = run[p].dir
      /\ run'[p].verdict.status = "COMPLETED"
      /\ \A q \in Processes \ {p} : run'[q] = run[q]
      /\ UNCHANGED <<checkpoint, report>> /\ Failures' = Failures
  BY <1>0, DecideFacts DEF Publish, Stages, Working, history, Failures
<1>2. /\ DOMAIN releases' = DOMAIN releases \cup {NextRelease}
      /\ releases'[NextRelease].dir = run[p].dir
      /\ \A i \in DOMAIN releases : releases'[i] = releases[i]
      /\ NextRelease \notin DOMAIN releases
  <2>1. releases' = Append(releases, [dir |-> run[p].dir, content |-> results[p]])
    BY DEF Publish
  <2>2. NextRelease \notin DOMAIN releases
    BY <1>0 DEF TypeOK, NextRelease
  <2> QED BY <1>0, <2>1, <2>2, AppendFacts
<1>3. CASE run[p].dir # d
  <2>1. ReleasesOf(d)' = ReleasesOf(d)
    BY <1>2, <1>3 DEF ReleasesOf
  <2>2. Spent(d) \subseteq Spent(d)'
    BY <1>1, <1>3, SpentKept DEF Coming, Reporting, Poisoned
  <2> QED BY <1>1, <2>1, <2>2
<1>4. CASE run[p].dir = d
  <2>1. ReleasesOf(d)' = ReleasesOf(d) \cup {NextRelease}
    BY <1>2, <1>4 DEF ReleasesOf
  <2>2. ~Poisoned(d) /\ ~Poisoned(d)'
    <3>1. ~Poisoned(d)
      BY <1>1, <1>4, JudgedIsClean
    <3> QED BY <1>1, <3>1 DEF Poisoned
  <2>3. \A q \in Processes \ {p} : ~Reporting(q, d) /\ ~Reporting(q, d)'
    BY <1>0, <1>1, OnlyReporter DEF Reporting, Working
  <2>4. Coming(p, d) /\ ~Reporting(p, d) /\ Reporting(p, d)'
    BY <1>1, <1>4 DEF Coming, Reporting
  <2>5. p \notin Spent(d)
    BY <2>2, <2>4 DEF Spent
  <2>6. \A q \in Processes \ {p} : Coming(q, d)' = Coming(q, d)
    BY <1>1 DEF Coming
  <2>7. Spent(d) \cup {p} \subseteq Spent(d)'
    BY <1>1, <2>2, <2>3, <2>4, <2>5, <2>6 DEF Spent
  <2> QED BY <1>1, <2>1, <2>5, <2>7
<1> QED BY <1>3, <1>4

LEMMA SpentFacts ==
    ASSUME NEW d \in Dirs
    PROVE  /\ IsFiniteSet(Spent(d)) /\ Cardinality(Spent(d)) \in Nat
           /\ Cardinality(Processes) \in Nat /\ Cardinality(Spent(d)) <= Cardinality(Processes)
<1>1. Spent(d) \subseteq Processes
  BY DEF Spent
<1> QED BY <1>1, UpdateAssumption, FS_Subset, FS_CardinalityType

LEMMA ReleasesFacts ==
    ASSUME TypeOK, NEW d \in Dirs
    PROVE  IsFiniteSet(ReleasesOf(d)) /\ Cardinality(ReleasesOf(d)) \in Nat
<1>1. DOMAIN releases = 1..Len(releases) /\ Len(releases) \in Nat
  BY DEF TypeOK
<1>2. IsFiniteSet(DOMAIN releases)
  BY <1>1, FS_Interval
<1> QED BY <1>2, FS_Subset, FS_CardinalityType DEF ReleasesOf

LEMMA CountedStep ==
    ASSUME IInv, HistInv, [Next]_vars, Failures \in Nat, NEW d \in Dirs, Counted(d)
    PROVE  Counted(d)'
<1> DEFINE N == Cardinality(Processes)
           released == Cardinality(ReleasesOf(d))
           spent == Cardinality(Spent(d))
<1>0. /\ TypeOK /\ N \in Nat /\ released \in Nat /\ spent \in Nat /\ spent <= N
      /\ IsFiniteSet(ReleasesOf(d)) /\ IsFiniteSet(Spent(d)) /\ released <= N * Failures + spent
  BY SpentFacts, ReleasesFacts DEF IInv, Counted
<1>1. /\ IsFiniteSet(Spent(d)') /\ Cardinality(Spent(d)') \in Nat
      /\ Cardinality(Spent(d)') <= N
  <2>1. Spent(d)' \subseteq Processes
    BY DEF Spent
  <2> QED BY <2>1, UpdateAssumption, FS_Subset, FS_CardinalityType
<1>2. CASE Failures' = Failures /\ ReleasesOf(d)' = ReleasesOf(d) /\ Spent(d) \subseteq Spent(d)'
  <2>1. spent <= Cardinality(Spent(d)')
    BY <1>1, <1>2, FS_Subset
  <2>2. N * Failures \in Nat
    BY <1>0
  <2> QED BY <1>0, <1>1, <1>2, <2>1, <2>2 DEF Counted
<1>3. CASE /\ Failures' = Failures
           /\ \E p \in Processes, i \in Nat :
                 /\ ReleasesOf(d)' = ReleasesOf(d) \cup {i}
                 /\ p \notin Spent(d) /\ Spent(d) \cup {p} \subseteq Spent(d)'
  <2>1. PICK p \in Processes, i \in Nat :
                 /\ ReleasesOf(d)' = ReleasesOf(d) \cup {i}
                 /\ p \notin Spent(d) /\ Spent(d) \cup {p} \subseteq Spent(d)'
    BY <1>3
  <2>2. Cardinality(ReleasesOf(d)') \in {released, released + 1}
    BY <1>0, <2>1, FS_AddElement
  <2>3. Cardinality(Spent(d) \cup {p}) = spent + 1
    BY <1>0, <2>1, FS_AddElement
  <2>4. spent + 1 <= Cardinality(Spent(d)')
    BY <1>1, <2>1, <2>3, FS_Subset
  <2>5. N * Failures \in Nat
    BY <1>0
  <2>6. Cardinality(ReleasesOf(d)') <= N * Failures + Cardinality(Spent(d)')
    BY <1>0, <1>1, <2>2, <2>4, <2>5
  <2> QED BY <1>3, <2>6 DEF Counted
<1>4. CASE Failures' = Failures + 1 /\ releases' = releases
  <2>1. ReleasesOf(d)' = ReleasesOf(d)
    BY <1>4 DEF ReleasesOf
  <2>2. N * (Failures + 1) = N * Failures + N /\ N * Failures \in Nat
    BY <1>0
  <2>3. released <= N * (Failures + 1) + Cardinality(Spent(d)')
    BY <1>0, <1>1, <2>2
  <2> QED BY <1>4, <2>1, <2>3 DEF Counted
<1>5. ASSUME NEW p \in Processes, StandardFails(p) \/ Raise(p) \/ Crash(p)
      PROVE  Failures' = Failures + 1 /\ releases' = releases
  <2>1. crashes \in Nat /\ raises \in Nat
    BY <1>0 DEF TypeOK
  <2> QED BY <1>5, <2>1 DEF StandardFails, Raise, Crash, files, Failures
<1>6. ASSUME NEW p \in Processes, Publish(p) PROVE Counted(d)'
  <2>1. NextRelease \in Nat
    BY <1>0 DEF TypeOK, NextRelease
  <2> QED BY <1>2, <1>3, <1>6, <2>1, PublishSpends
<1>7. CASE UNCHANGED vars
  BY <1>0, <1>7
  DEF vars, Counted, ReleasesOf, Failures, Spent, Poisoned, Reporting, Coming
<1>8. ASSUME NEW p \in Processes,
             \/ \E m \in Modes : Start(p, m) \/ StartForced(p, m)
             \/ TryLock(p)
             \/ \E answer \in CalendarAnswers : FetchCalendar(p, answer)
             \/ \E j \in Jobs, answer \in Answers : Fetch(p, j, answer)
             \/ Judge(p) \/ WriteReport(p) \/ WriteLatest(p) \/ Finish(p)
      PROVE  Counted(d)'
  BY <1>2, <1>8, QuietKeepsSpent DEF ReleasesOf
<1> QED BY <1>4, <1>5, <1>6, <1>7, <1>8 DEF Next, Step

\* A directory is released again at most once by each process for each death or
\* exception, and once by each process that was on its way before.
THEOREM RepublishedForACause == Spec => []RepublicationHasACause
<1> DEFINE AllCounted == \A d \in Dirs : Counted(d)
<1>1. IInv => Failures \in Nat /\ 1 + crashes + raises = 1 + Failures
  <2>1. TypeOK => crashes \in Nat /\ raises \in Nat
    BY DEF TypeOK
  <2> QED BY <2>1 DEF IInv, Failures
<1>2. Init => HistInv /\ AllCounted
  <2> SUFFICES ASSUME Init PROVE HistInv /\ AllCounted
    OBVIOUS
  <2>1. /\ releases = <<>> /\ forced = 0 /\ crashes = 0 /\ raises = 0
        /\ \A p \in Processes : run[p].stage = "off" /\ run[p].dir[2] = 0
    BY NumberFacts, UpdateAssumption DEF Init, Off
  <2>2. HistInv
    BY <2>1 DEF HistInv, ErrorsAreGaps, PlanIsArchived, ReleasedIsKept, DirsTaken
  <2>3. ASSUME NEW d \in Dirs PROVE Counted(d)
    <3>1. ReleasesOf(d) = {} /\ Failures = 0
      BY <2>1 DEF ReleasesOf, Failures
    <3>2. Cardinality(ReleasesOf(d)) = 0
      BY <3>1, FS_EmptySet
    <3> QED BY <3>1, <3>2, SpentFacts DEF Counted
  <2> QED BY <2>2, <2>3
<1>3. IInv /\ HistInv /\ AllCounted /\ [Next]_vars => HistInv' /\ AllCounted'
  BY <1>1, HistStep, CountedStep
<1>4. IInv /\ AllCounted => RepublicationHasACause
  <2> SUFFICES ASSUME IInv, AllCounted, NEW d \in Dirs
               PROVE  Cardinality(ReleasesOf(d)) <= Cardinality(Processes) * (1 + Failures)
    BY <1>1 DEF RepublicationHasACause
  <2> DEFINE N == Cardinality(Processes)
  <2>1. /\ N \in Nat /\ Failures \in Nat /\ Cardinality(ReleasesOf(d)) \in Nat
        /\ Cardinality(Spent(d)) \in Nat /\ Cardinality(Spent(d)) <= N
        /\ Cardinality(ReleasesOf(d)) <= N * Failures + Cardinality(Spent(d))
    BY <1>1, SpentFacts, ReleasesFacts DEF IInv, Counted
  <2>2. N * (1 + Failures) = N * Failures + N /\ N * Failures \in Nat
    BY <2>1
  <2> QED BY <2>1, <2>2
<1> QED BY <1>2, <1>3, <1>4, Invariance, PTL DEF Spec
=============================================================================
