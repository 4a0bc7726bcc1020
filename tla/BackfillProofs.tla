--------------------------- MODULE BackfillProofs ---------------------------
(* Proofs of Backfill's safety properties, for any stages, jobs and bounds. *)
EXTENDS Backfill, TLAPS

Busy == {"page", "archived"}

\* A response in hand is in the raw store, and its row is still to be completed.
InHand == \A j \in Jobs : task[j].at = "archived" =>
    /\ task[j].got \in raw[j][task[j].page]
    /\ task[j].got # "none"
    /\ Row(j) = "none"
    /\ task[j].got = "full" => task[j].page < MaxPages[j]

\* A full page has a successor within the bound.
FullWithin == \A j \in Jobs : \A n \in Pages(j) : checkpoint[j][n] = "full" => n < MaxPages[j]

\* A walk is at the first page that is not known to be full; one that is done has
\* seen the last page; only optional jobs are skipped.
Walks == \A j \in Jobs :
    /\ task[j].at \in Busy => \A k \in 1..(task[j].page - 1) : checkpoint[j][k] = "full"
    /\ task[j].at = "done" => Whole(j)
    /\ task[j].at = "skipped" => j \in Optional

\* Only the jobs of the stage in hand move; those behind it are over, those ahead
\* wait, and a stage without a pool has one job in flight or failed at most.
InStages ==
    /\ phase = "off" => \A j \in Jobs : task[j].at \notin Busy
    /\ phase = "stage" =>
        /\ \A j \in Jobs \ Stages[stage] : task[j].at \notin Busy
        /\ \A i \in DOMAIN Stages : \A j \in Stages[i] :
            /\ i > stage => task[j].at = "waiting"
            /\ i < stage => j \in Optional \/ Whole(j)
        /\ stage \notin Pooled => \A j, k \in InFlight \cup Failed : j = k

IInv == TypeOK /\ CheckpointHasRaw /\ InHand /\ FullWithin /\ Walks /\ InStages /\ ReportIsTrue

TaskType(j) == [at : {"waiting", "page", "archived"} \cup Over, page : Pages(j),
                attempt : 0..MaxAttempts, got : Content \cup {"none"}]

-----------------------------------------------------------------------------
(* The steps of a job. *)

\* A job in flight belongs to the stage in hand, and alone where there is no pool.
LEMMA InFlightIsHere ==
    ASSUME IInv, NEW j \in Jobs, task[j].at \in Busy
    PROVE  /\ phase = "stage" /\ j \in Stages[stage]
           /\ stage \notin Pooled => \A k \in InFlight \cup Failed : k = j
BY DEF IInv, TypeOK, InStages, Busy, At, InFlight

LEMMA PlaceType ==
    ASSUME NEW j \in Jobs, NEW at \in {"waiting", "page"} \cup Over,
           NEW page \in Pages(j), NEW attempt \in 0..MaxAttempts
    PROVE  /\ Place(at, page, attempt) \in TaskType(j)
           /\ Place(at, page, attempt).at = at
           /\ Place(at, page, attempt).page = page
           /\ Place(at, page, attempt).got = "none"
BY DEF Place, TaskType

LEMMA StartingPoint ==
    ASSUME BackfillAssumption, NEW j \in Jobs PROVE 1 \in Pages(j) /\ 0 \in 0..MaxAttempts
BY DEF BackfillAssumption, Pages

\* A job of the stage in hand moves and no walk is undone: the others stay in place.
LEMMA StaysInStage ==
    ASSUME BackfillAssumption, IInv, NEW j \in Jobs, phase = "stage", j \in Stages[stage],
           UNCHANGED <<phase, stage>>,
           \A k \in Jobs \ {j} : task'[k] = task[k],
           task'[j].at # "waiting",
           stage \notin Pooled => \A k \in InFlight \cup Failed : k = j,
           \A k \in Jobs : Whole(k) => Whole(k)'
    PROVE  InStages'
<1>1. stage \in DOMAIN Stages
  BY DEF IInv, TypeOK
<1>2. \A k \in Jobs \ Stages[stage] : task'[k].at \notin Busy
  BY DEF IInv, InStages
<1>3. ASSUME NEW i \in DOMAIN Stages, NEW k \in Stages[i]
      PROVE  /\ i > stage => task'[k].at = "waiting"
             /\ i < stage => k \in Optional \/ Whole(k)'
  <2>1. k \in Jobs /\ (i # stage => k # j) /\ i \in Nat /\ stage \in Nat
    BY <1>1 DEF Jobs, BackfillAssumption
  <2> QED  BY <2>1 DEF IInv, InStages
<1>4. stage \notin Pooled => \A k, l \in (InFlight \cup Failed)' : k = l
  <2> SUFFICES ASSUME stage \notin Pooled, NEW k \in (InFlight \cup Failed)' PROVE k = j
    OBVIOUS
  <2>1. k \in Stages[stage] /\ k \in Jobs /\ task'[k].at \in {"page", "archived", "failed"}
    BY <1>1 DEF InFlight, Failed, At, Jobs
  <2> QED  BY <2>1 DEF InFlight, Failed, At
<1> QED  BY <1>2, <1>3, <1>4 DEF InStages, Jobs

\* A job of the stage in hand moves, and files stay as they are.
LEMMA TaskMoves ==
    ASSUME BackfillAssumption, IInv, NEW j \in Jobs, NEW t \in TaskType(j),
           phase = "stage", j \in Stages[stage],
           task' = [task EXCEPT ![j] = t],
           UNCHANGED <<phase, stage, checkpoint, raw, report, crashes>>,
           t.at \notin {"archived", "waiting"},
           t.at = "page" => \A k \in 1..(t.page - 1) : checkpoint[j][k] = "full",
           t.at = "done" => Whole(j),
           t.at = "skipped" => j \in Optional,
           stage \notin Pooled => \A k \in InFlight \cup Failed : k = j
    PROVE  IInv'
<1> USE DEF IInv
<1>1. /\ task'[j] = t /\ \A k \in Jobs \ {j} : task'[k] = task[k]
      /\ DOMAIN task' = Jobs
  BY DEF TypeOK
<1>2. TypeOK'
  BY <1>1 DEF TypeOK, TaskType
<1>3. CheckpointHasRaw' /\ FullWithin' /\ ReportIsTrue'
  BY DEF CheckpointHasRaw, FullWithin, ReportIsTrue, Whole, Pages
<1>4. InHand'
  BY <1>1 DEF InHand, Row
<1>5. Walks'
  <2> SUFFICES ASSUME NEW k \in Jobs
               PROVE  /\ task'[k].at \in Busy =>
                           \A n \in 1..(task'[k].page - 1) : checkpoint[k][n] = "full"
                      /\ task'[k].at = "done" => Whole(k)
                      /\ task'[k].at = "skipped" => k \in Optional
    BY DEF Walks, Whole, Pages
  <2> QED  BY <1>1 DEF Walks, Busy
<1>6. InStages'
  BY <1>1, StaysInStage DEF Whole, Pages
<1> QED  BY <1>2, <1>3, <1>4, <1>5, <1>6

\* A job of the stage in hand begins, or is over.
LEMMA JobMoves ==
    ASSUME BackfillAssumption, IInv, NEW j \in Jobs, NEW at \in {"page"} \cup Over,
           phase = "stage", j \in Stages[stage], Move(j, at),
           UNCHANGED <<phase, stage, store, report, crashes>>,
           at = "done" => Whole(j),
           at = "skipped" => j \in Optional,
           stage \notin Pooled => \A k \in InFlight \cup Failed : k = j
    PROVE  IInv'
<1> DEFINE t == Place(at, 1, 0)
<1>1. t \in TaskType(j) /\ t.at = at /\ t.page = 1
  BY PlaceType, StartingPoint
<1>2. \A k \in 1..(t.page - 1) : checkpoint[j][k] = "full"
  BY <1>1
<1>3. task' = [task EXCEPT ![j] = t]
  BY DEF Move
<1>4. UNCHANGED <<phase, stage, checkpoint, raw, report, crashes>>
  BY DEF store
<1>5. t.at \notin {"archived", "waiting"}
  BY <1>1 DEF Over
<1> HIDE DEF t
<1> QED  BY <1>1, <1>2, <1>3, <1>4, <1>5, TaskMoves

\* The steps of a job that leave the files alone.
LEMMA MovesKeepInvariant ==
    ASSUME BackfillAssumption, IInv, NEW j \in Jobs,
           Begin(j) \/ TakePage(j) \/ Fails(j) \/ Refused(j) \/ GiveUp(j) \/ Breaks(j)
    PROVE  IInv'
<1>1. task[j] \in TaskType(j) /\ task[j].page \in Pages(j) /\ Pages(j) \subseteq Nat
  BY DEF IInv, TypeOK, TaskType, Pages
<1>2. CASE Begin(j)
  <2>1. phase = "stage" /\ j \in Stages[stage] /\ Move(j, "page")
        /\ UNCHANGED <<phase, stage, store, report, crashes>>
    BY <1>2 DEF Begin, At
  <2>2. stage \notin Pooled => \A k \in InFlight \cup Failed : k = j
    BY <1>2 DEF Begin
  <2> QED  BY <2>1, <2>2, JobMoves
<1>3. CASE TakePage(j)
  <2>1. task[j].at \in Busy /\ Row(j) # "none"
        /\ UNCHANGED <<phase, stage, store, report, crashes>>
    BY <1>3 DEF TakePage, Busy
  <2>2. /\ phase = "stage" /\ j \in Stages[stage]
        /\ stage \notin Pooled => \A k \in InFlight \cup Failed : k = j
    BY <2>1, InFlightIsHere
  <2>3. CASE Row(j) = "again" /\ ApiError(j)
    <3>1. CASE j \in Optional
      BY <2>1, <2>2, <2>3, <3>1, JobMoves DEF ApiError, Over
    <3>2. CASE j \notin Optional
      BY <2>1, <2>2, <2>3, <3>2, JobMoves DEF ApiError, Over
    <3> QED  BY <3>1, <3>2
  <2>4. CASE Row(j) \in Last /\ Move(j, "done")
    <3>1. Whole(j)
      BY <1>1, <2>1, <2>4 DEF IInv, Walks, Whole, Row
    <3> QED  BY <2>1, <2>2, <2>4, <3>1, JobMoves DEF Over
  <2>5. CASE Row(j) = "full" /\ NextPage(j)
    <3> DEFINE t == Place("page", task[j].page + 1, 0)
    <3>1. task[j].page + 1 \in Pages(j)
      BY <1>1, <2>5 DEF IInv, FullWithin, Row, Pages, BackfillAssumption
    <3>2. t \in TaskType(j) /\ t.at = "page" /\ t.page = task[j].page + 1
      BY <3>1, StartingPoint, PlaceType
    <3>3. \A k \in 1..(t.page - 1) : checkpoint[j][k] = "full"
      BY <1>1, <2>1, <2>5, <3>2 DEF IInv, Walks, Row
    <3>4. task' = [task EXCEPT ![j] = t]
      BY <2>5 DEF NextPage
    <3>5. UNCHANGED <<phase, stage, checkpoint, raw, report, crashes>>
      BY <2>1 DEF store
    <3> HIDE DEF t
    <3> QED  BY <2>2, <3>2, <3>3, <3>4, <3>5, TaskMoves
  <2>6. CASE Row(j) = "ragged" /\ Move(j, "failed")
    BY <2>1, <2>2, <2>6, JobMoves DEF Over
  <2> QED  BY <1>3, <2>3, <2>4, <2>5, <2>6 DEF TakePage
<1>4. CASE Fails(j)
  <2> DEFINE t == Place("page", task[j].page, task[j].attempt + 1)
  <2>1. task[j].attempt < MaxAttempts /\ task[j].at = "page"
    BY <1>4 DEF Fails, Asks
  <2>2. task[j].attempt + 1 \in 0..MaxAttempts
    BY <1>1, <2>1 DEF TaskType, BackfillAssumption
  <2>3. t \in TaskType(j) /\ t.at = "page" /\ t.page = task[j].page
    <3> DEFINE n == task[j].page  attempt == task[j].attempt + 1
    <3>1. n \in Pages(j) /\ attempt \in 0..MaxAttempts
      BY <1>1, <2>2
    <3> HIDE DEF n, attempt
    <3>2. LET place == Place("page", n, attempt)
          IN  place \in TaskType(j) /\ place.at = "page" /\ place.page = n
      BY <3>1, PlaceType
    <3> QED  BY <3>2 DEF n, attempt
  <2>4. \A k \in 1..(t.page - 1) : checkpoint[j][k] = "full"
    BY <2>1, <2>3 DEF IInv, Walks, Busy
  <2>5. task' = [task EXCEPT ![j] = t]
    BY <1>4 DEF Fails
  <2>6. UNCHANGED <<phase, stage, checkpoint, raw, report, crashes>>
    BY <1>4 DEF Fails, store
  <2>7. /\ phase = "stage" /\ j \in Stages[stage]
        /\ stage \notin Pooled => \A k \in InFlight \cup Failed : k = j
    BY <2>1, InFlightIsHere DEF Busy
  <2> HIDE DEF t
  <2> QED  BY <2>3, <2>4, <2>5, <2>6, <2>7, TaskMoves
<1>5. CASE Refused(j) \/ GiveUp(j) \/ Breaks(j)
  <2>1. task[j].at \in Busy /\ UNCHANGED <<phase, stage, store, report, crashes>>
    BY <1>5 DEF Refused, GiveUp, Breaks, Asks, Busy
  <2>2. /\ phase = "stage" /\ j \in Stages[stage]
        /\ stage \notin Pooled => \A k \in InFlight \cup Failed : k = j
    BY <2>1, InFlightIsHere
  <2>3. PICK at \in {"skipped", "failed"} : Move(j, at) /\ (at = "skipped" => j \in Optional)
    <3>1. CASE Refused(j)
      BY <3>1 DEF Refused, ApiError
    <3> QED  BY <1>5, <3>1 DEF GiveUp, Breaks
  <2> QED  BY <2>1, <2>2, <2>3, JobMoves DEF Over
<1> QED  BY <1>2, <1>3, <1>4, <1>5

\* An answer goes into the raw store and is held until its row is completed.
LEMMA AnswerKeepsInvariant ==
    ASSUME BackfillAssumption, IInv, NEW j \in Jobs, NEW content \in Content, Answered(j, content)
    PROVE  IInv'
<1> DEFINE n == task[j].page
<1>1. /\ task[j].at = "page" /\ Row(j) = "none" /\ n \in Pages(j)
      /\ content = "full" => n < MaxPages[j]
      /\ UNCHANGED <<phase, stage, checkpoint, report, crashes>>
  BY DEF Answered, Asks, Possible, IInv, TypeOK
<1>2. /\ phase = "stage" /\ j \in Stages[stage]
      /\ stage \notin Pooled => \A k \in InFlight \cup Failed : k = j
  BY <1>1, InFlightIsHere DEF Busy
<1>3. /\ DOMAIN task' = Jobs /\ \A k \in Jobs \ {j} : task'[k] = task[k]
      /\ task'[j] \in TaskType(j)
      /\ task'[j].at = "archived" /\ task'[j].got = content /\ task'[j].page = n
  <2>1. /\ task' = [task EXCEPT ![j].at = "archived", ![j].got = content]
        /\ DOMAIN task = Jobs /\ task[j] \in TaskType(j)
    BY DEF Answered, IInv, TypeOK, TaskType
  <2>2. /\ DOMAIN task' = Jobs /\ \A k \in Jobs \ {j} : task'[k] = task[k]
        /\ task'[j] = [task[j] EXCEPT !.at = "archived", !.got = content]
    BY <2>1
  <2> QED  BY <2>1, <2>2 DEF TaskType
<1>4. /\ DOMAIN raw' = Jobs /\ \A k \in Jobs \ {j} : raw'[k] = raw[k]
      /\ raw'[j] \in [Pages(j) -> SUBSET Content]
      /\ content \in raw'[j][n]
      /\ \A m \in Pages(j) : raw[j][m] \subseteq raw'[j][m]
  BY <1>1 DEF Answered, IInv, TypeOK
<1> HIDE DEF n
<1>5. TypeOK'
  BY <1>1, <1>3, <1>4 DEF IInv, TypeOK, TaskType
<1>6. CheckpointHasRaw' /\ FullWithin' /\ ReportIsTrue'
  <2>1. CheckpointHasRaw'
    BY <1>1, <1>4 DEF IInv, CheckpointHasRaw
  <2>2. FullWithin' /\ ReportIsTrue'
    BY <1>1 DEF IInv, FullWithin, ReportIsTrue, Whole, Pages
  <2> QED  BY <2>1, <2>2
<1>7. InHand'
  BY <1>1, <1>3, <1>4 DEF IInv, InHand, Row, n, Content
<1>8. Walks'
  <2>1. \A k \in 1..(n - 1) : checkpoint[j][k] = "full"
    BY <1>1 DEF IInv, Walks, Busy, n
  <2> SUFFICES ASSUME NEW k \in Jobs
               PROVE  /\ task'[k].at \in Busy =>
                           \A m \in 1..(task'[k].page - 1) : checkpoint[k][m] = "full"
                      /\ task'[k].at = "done" => Whole(k)
                      /\ task'[k].at = "skipped" => k \in Optional
    BY <1>1 DEF Walks, Whole, Pages
  <2> QED  BY <1>3, <2>1 DEF IInv, Walks
<1>9. InStages'
  <2>1. \A k \in Jobs : Whole(k) => Whole(k)'
    BY <1>1 DEF Whole, Pages
  <2> QED  BY <1>1, <1>2, <1>3, <2>1, StaysInStage
<1> QED  BY <1>5, <1>6, <1>7, <1>8, <1>9 DEF IInv

\* A row is completed with the response in hand.
LEMMA CheckpointKeepsInvariant ==
    ASSUME BackfillAssumption, IInv, NEW j \in Jobs, Checkpoint(j)
    PROVE  IInv'
<1> DEFINE n == task[j].page  content == task[j].got
<1>1. /\ task[j].at = "archived" /\ Row(j) = "none" /\ n \in Pages(j)
      /\ content \in raw[j][n] /\ content \in Content /\ content # "none"
      /\ content = "full" => n < MaxPages[j]
      /\ UNCHANGED <<phase, stage, raw, report, crashes>>
  BY DEF Checkpoint, IInv, TypeOK, InHand
<1>2. /\ phase = "stage" /\ j \in Stages[stage]
      /\ stage \notin Pooled => \A k \in InFlight \cup Failed : k = j
  BY <1>1, InFlightIsHere DEF Busy
<1>3. /\ DOMAIN task' = Jobs /\ \A k \in Jobs \ {j} : task'[k] = task[k]
      /\ task'[j] \in TaskType(j) /\ task'[j].at = "page" /\ task'[j].page = n
  <2>1. Place("page", n, 0) \in TaskType(j) /\ Place("page", n, 0).at = "page"
        /\ Place("page", n, 0).page = n
    BY <1>1, PlaceType, StartingPoint
  <2>2. task' = [task EXCEPT ![j] = Place("page", n, 0)]
    BY DEF Checkpoint
  <2> QED  BY <2>1, <2>2 DEF IInv, TypeOK
<1>4. /\ DOMAIN checkpoint' = Jobs /\ \A k \in Jobs \ {j} : checkpoint'[k] = checkpoint[k]
      /\ checkpoint'[j] \in [Pages(j) -> Content \cup {"none"}]
      /\ checkpoint'[j][n] = content
      /\ \A m \in Pages(j) \ {n} : checkpoint'[j][m] = checkpoint[j][m]
  BY <1>1 DEF Checkpoint, IInv, TypeOK
<1>5. checkpoint[j][n] = "none"
  BY <1>1 DEF Row
<1> HIDE DEF n, content
<1>6. \A k \in Jobs : Whole(k) => Whole(k)'
  <2> SUFFICES ASSUME NEW k \in Jobs, Whole(k) PROVE Whole(k)'
    OBVIOUS
  <2>1. PICK m \in Pages(k) : checkpoint[k][m] \in Last /\ \A i \in 1..(m - 1) : checkpoint[k][i] = "full"
    BY DEF Whole
  <2>2. checkpoint'[k][m] = checkpoint[k][m]
    BY <1>4, <1>5, <2>1 DEF Last
  <2>3. ASSUME NEW i \in 1..(m - 1) PROVE checkpoint'[k][i] = "full"
    <3>1. i \in Pages(k) /\ checkpoint[k][i] = "full"
      BY <2>1 DEF Pages, BackfillAssumption
    <3> QED  BY <1>4, <1>5, <3>1
  <2> QED  BY <2>1, <2>2, <2>3 DEF Whole
<1>7. TypeOK'
  BY <1>1, <1>3, <1>4 DEF IInv, TypeOK, TaskType
<1>8. CheckpointHasRaw' /\ FullWithin'
  <2> SUFFICES ASSUME NEW k \in Jobs, NEW m \in Pages(k)
               PROVE  /\ checkpoint'[k][m] # "none" => checkpoint'[k][m] \in raw'[k][m]
                      /\ checkpoint'[k][m] = "full" => m < MaxPages[k]
    BY DEF CheckpointHasRaw, FullWithin, Pages
  <2>1. CASE k = j /\ m = n
    BY <1>1, <1>4, <2>1
  <2>2. CASE k # j \/ m # n
    <3>1. checkpoint'[k][m] = checkpoint[k][m] /\ raw' = raw
      BY <1>1, <1>4, <2>2
    <3> QED
      BY <3>1 DEF IInv, CheckpointHasRaw, FullWithin
  <2> QED
    BY <2>1, <2>2
<1>9. ReportIsTrue'
  BY <1>1, <1>6 DEF IInv, ReportIsTrue
<1>10. InHand'
  <2> SUFFICES ASSUME NEW k \in Jobs, task'[k].at = "archived"
               PROVE  /\ task'[k].got \in raw'[k][task'[k].page]
                      /\ task'[k].got # "none"
                      /\ Row(k)' = "none"
                      /\ task'[k].got = "full" => task'[k].page < MaxPages[k]
    BY DEF InHand
  <2>1. k # j /\ task'[k] = task[k] /\ checkpoint'[k] = checkpoint[k] /\ raw'[k] = raw[k]
    BY <1>1, <1>3, <1>4
  <2> QED  BY <2>1 DEF IInv, InHand, Row
<1>11. Walks'
  <2> SUFFICES ASSUME NEW k \in Jobs
               PROVE  /\ task'[k].at \in Busy =>
                           \A m \in 1..(task'[k].page - 1) : checkpoint'[k][m] = "full"
                      /\ task'[k].at = "done" => Whole(k)'
                      /\ task'[k].at = "skipped" => k \in Optional
    BY DEF Walks
  <2>1. CASE k = j
    <3>1. \A m \in 1..(n - 1) : checkpoint[j][m] = "full"
      BY <1>1 DEF IInv, Walks, Busy, n
    <3>2. \A m \in 1..(n - 1) : m \in Pages(j) \ {n}
      BY <1>1 DEF Pages, BackfillAssumption
    <3>3. \A m \in 1..(n - 1) : checkpoint'[j][m] = "full"
      BY <1>4, <3>1, <3>2
    <3> QED  BY <1>3, <2>1, <3>3
  <2>2. CASE k # j
    <3>1. task'[k] = task[k] /\ checkpoint'[k] = checkpoint[k] /\ (Whole(k) => Whole(k)')
      BY <1>3, <1>4, <1>6, <2>2
    <3> QED  BY <3>1 DEF IInv, Walks
  <2> QED  BY <2>1, <2>2
<1>12. InStages'
  BY <1>1, <1>2, <1>3, <1>6, StaysInStage
<1> QED  BY <1>7, <1>8, <1>9, <1>10, <1>11, <1>12 DEF IInv

-----------------------------------------------------------------------------
(* The steps of the run. *)

\* Every job but those of the stage in hand is out of flight, and Whole is kept.
LEMMA RunStepKeepsWalks ==
    ASSUME IInv, UNCHANGED <<task, checkpoint, raw>>
    PROVE  CheckpointHasRaw' /\ InHand' /\ FullWithin' /\ Walks' /\ \A j \in Jobs : Whole(j)' = Whole(j)
<1>1. CheckpointHasRaw' /\ FullWithin'
  BY DEF IInv, CheckpointHasRaw, FullWithin
<1>2. InHand'
  BY DEF IInv, InHand, Row
<1>3. \A j \in Jobs : Whole(j)' = Whole(j)
  BY DEF Whole, Pages
<1>4. Walks'
  BY <1>3 DEF IInv, Walks
<1> QED  BY <1>1, <1>2, <1>3, <1>4

LEMMA AllWaiting ==
    ASSUME BackfillAssumption, IInv, task' = [j \in Jobs |-> Waiting],
           UNCHANGED <<checkpoint, raw, report>>
    PROVE  /\ \A j \in Jobs : task'[j] \in TaskType(j) /\ task'[j].at = "waiting"
           /\ DOMAIN task' = Jobs
           /\ CheckpointHasRaw' /\ InHand' /\ FullWithin' /\ Walks' /\ ReportIsTrue'
<1>1. /\ DOMAIN task' = Jobs
      /\ \A j \in Jobs : task'[j] \in TaskType(j) /\ task'[j].at = "waiting"
  BY PlaceType, StartingPoint DEF Waiting
<1>2. CheckpointHasRaw' /\ FullWithin'
  BY DEF IInv, CheckpointHasRaw, FullWithin
<1>3. ReportIsTrue'
  BY DEF IInv, ReportIsTrue, Whole, Pages
<1>4. InHand' /\ Walks'
  BY <1>1 DEF InHand, Walks, Busy
<1> QED  BY <1>1, <1>2, <1>3, <1>4

LEMMA RunKeepsInvariant ==
    ASSUME BackfillAssumption, IInv, Launch \/ NextStage \/ Completed \/ FailedResumable \/ Crash
    PROVE  IInv'
<1>1. /\ 1 \in DOMAIN Stages /\ DOMAIN Stages = 1..Len(Stages) /\ Len(Stages) \in Nat
      /\ stage \in DOMAIN Stages
  BY DEF BackfillAssumption, IInv, TypeOK
<1>2. CASE Launch
  <2>1. /\ \A j \in Jobs : task'[j] \in TaskType(j) /\ task'[j].at = "waiting"
        /\ DOMAIN task' = Jobs
        /\ CheckpointHasRaw' /\ InHand' /\ FullWithin' /\ Walks' /\ ReportIsTrue'
    BY <1>2, AllWaiting DEF Launch, store
  <2>2. TypeOK'
    BY <1>1, <1>2, <2>1 DEF Launch, store, IInv, TypeOK, TaskType
  <2>3. InStages'
    <3>1. phase' = "stage" /\ stage' = 1
      BY <1>2 DEF Launch
    <3>2. \A i \in DOMAIN Stages : ~(i < 1) /\ \A j \in Stages[i] : task'[j].at = "waiting"
      <4> SUFFICES ASSUME NEW i \in DOMAIN Stages
                   PROVE  ~(i < 1) /\ \A j \in Stages[i] : task'[j].at = "waiting"
        OBVIOUS
      <4>1. ~(i < 1)
        BY <1>1
      <4>2. Stages[i] \subseteq Jobs
        BY DEF Jobs
      <4> QED  BY <2>1, <4>1, <4>2
    <3>3. (InFlight \cup Failed)' = {}
      BY <1>1, <3>1, <3>2 DEF InFlight, Failed, At
    <3> QED  BY <2>1, <3>1, <3>2, <3>3 DEF InStages, Busy
  <2> QED  BY <2>1, <2>2, <2>3 DEF IInv
<1>3. CASE NextStage
  <2>1. /\ CheckpointHasRaw' /\ InHand' /\ FullWithin' /\ Walks'
        /\ \A j \in Jobs : Whole(j)' = Whole(j)
    BY <1>3, RunStepKeepsWalks DEF NextStage, store
  <2>2. ReportIsTrue'
    BY <1>3, <2>1 DEF NextStage, IInv, ReportIsTrue
  <2>3. stage + 1 \in DOMAIN Stages
    BY <1>1, <1>3 DEF NextStage
  <2>4. TypeOK'
    BY <1>3, <2>3 DEF NextStage, store, IInv, TypeOK
  <2>5. \A j \in Stages[stage] : task[j].at \in {"done", "skipped"}
    BY <1>3 DEF NextStage, StageOver, At
  <2>6. \A i \in DOMAIN Stages : \A j \in Stages[i] :
            /\ i > stage + 1 => task[j].at = "waiting"
            /\ i < stage + 1 => j \in Optional \/ Whole(j)
    BY <1>1, <1>3, <2>5 DEF NextStage, StageOver, IInv, InStages, Walks, Jobs
  <2>7. \A j \in Jobs : task[j].at \notin Busy
    BY <1>3, <2>5 DEF NextStage, StageOver, IInv, InStages, Busy
  <2>8. \A j \in Stages[stage + 1] : task[j].at = "waiting"
    BY <1>1, <1>3, <2>3 DEF NextStage, StageOver, IInv, InStages
  <2>9. (InFlight \cup Failed)' = {}
    BY <1>3, <2>8 DEF NextStage, InFlight, Failed, At
  <2>10. stage' = stage + 1 /\ phase' = "stage" /\ task' = task
    BY <1>3 DEF NextStage, StageOver
  <2>11. \A j \in Jobs : task'[j].at \notin Busy
    BY <2>7, <2>10
  <2>12. \A i \in DOMAIN Stages : \A j \in Stages[i] :
            /\ i > stage' => task'[j].at = "waiting"
            /\ i < stage' => j \in Optional \/ Whole(j)'
    BY <2>1, <2>6, <2>10 DEF Jobs
  <2>13. InStages'
    BY <2>9, <2>10, <2>11, <2>12 DEF InStages
  <2> QED  BY <2>1, <2>2, <2>4, <2>13 DEF IInv
<1>4. CASE Completed
  <2>1. /\ CheckpointHasRaw' /\ InHand' /\ FullWithin' /\ Walks'
        /\ \A j \in Jobs : Whole(j)' = Whole(j)
    BY <1>4, RunStepKeepsWalks DEF Completed, store
  <2>2. \A j \in Stages[stage] : task[j].at \in {"done", "skipped"}
    BY <1>4 DEF Completed, StageOver, At
  <2>3. \A j \in Jobs : j \in Optional \/ Whole(j)
    BY <1>1, <1>4, <2>2 DEF Completed, StageOver, IInv, InStages, Walks, Jobs
  <2>4. ReportIsTrue'
    BY <2>1, <2>3 DEF ReportIsTrue
  <2>5. TypeOK'
    BY <1>4 DEF Completed, store, IInv, TypeOK
  <2>6. InStages'
    BY <1>4, <2>2 DEF Completed, StageOver, IInv, InStages, Busy
  <2> QED  BY <2>1, <2>4, <2>5, <2>6 DEF IInv
<1>5. CASE FailedResumable
  <2>1. /\ CheckpointHasRaw' /\ InHand' /\ FullWithin' /\ Walks'
    BY <1>5, RunStepKeepsWalks DEF FailedResumable, store
  <2>2. ReportIsTrue'
    BY <1>5 DEF FailedResumable, ReportIsTrue
  <2>3. TypeOK'
    BY <1>5 DEF FailedResumable, store, IInv, TypeOK
  <2>4. phase = "stage" /\ \A j \in Stages[stage] : task[j].at \notin Busy
    <3>1. CASE StageOver
      BY <3>1 DEF StageOver, At, Busy
    <3>2. CASE phase = "stage" /\ stage \in Pooled /\ Stages[stage] = At(Over)
      BY <3>2 DEF At, Over, Busy
    <3>3. CASE phase = "stage" /\ stage \notin Pooled /\ Failed # {}
      BY <3>3 DEF IInv, InStages, InFlight, Failed, At, Busy
    <3> QED  BY <1>5, <3>1, <3>2, <3>3 DEF FailedResumable
  <2>5. InStages'
    BY <1>5, <2>4 DEF FailedResumable, IInv, InStages
  <2> QED  BY <2>1, <2>2, <2>3, <2>5 DEF IInv
<1>6. CASE Crash
  <2>1. /\ \A j \in Jobs : task'[j] \in TaskType(j) /\ task'[j].at = "waiting"
        /\ DOMAIN task' = Jobs
        /\ CheckpointHasRaw' /\ InHand' /\ FullWithin' /\ Walks' /\ ReportIsTrue'
    BY <1>6, AllWaiting DEF Crash, store
  <2>2. TypeOK'
    BY <1>6, <2>1 DEF Crash, store, IInv, TypeOK, TaskType, BackfillAssumption
  <2>3. InStages'
    BY <1>6, <2>1 DEF Crash, InStages, Busy
  <2> QED  BY <2>1, <2>2, <2>3 DEF IInv
<1> QED  BY <1>2, <1>3, <1>4, <1>5, <1>6

-----------------------------------------------------------------------------
(* The theorems. *)

\* The invariant behind the four properties, whatever the provider answers.
THEOREM Invariance == Spec => []IInv
<1>1. Init => IInv
  <2> SUFFICES ASSUME Init PROVE IInv
    OBVIOUS
  <2>1. /\ DOMAIN task = Jobs
        /\ \A j \in Jobs : task[j] \in TaskType(j) /\ task[j].at = "waiting"
    BY BackfillAssumption, PlaceType, StartingPoint DEF Init, Waiting
  <2>2. 1 \in DOMAIN Stages
    BY BackfillAssumption DEF BackfillAssumption
  <2>3. TypeOK
    BY <2>1, <2>2, BackfillAssumption DEF Init, TypeOK, TaskType, BackfillAssumption
  <2>4. CheckpointHasRaw /\ FullWithin /\ ReportIsTrue
    BY DEF Init, CheckpointHasRaw, FullWithin, ReportIsTrue
  <2>5. InHand /\ Walks /\ InStages
    BY <2>1 DEF Init, InHand, Walks, InStages, Busy
  <2> QED  BY <2>3, <2>4, <2>5 DEF IInv
<1>2. IInv /\ [Next]_vars => IInv'
  <2> SUFFICES ASSUME IInv, [Next]_vars PROVE IInv'
    OBVIOUS
  <2>1. CASE UNCHANGED vars
    BY <2>1 DEF vars, IInv, TypeOK, CheckpointHasRaw, InHand, FullWithin, Walks, InStages,
                ReportIsTrue, Row, Whole, Pages, InFlight, Failed, At
  <2>2. CASE Launch \/ NextStage \/ Completed \/ FailedResumable \/ Crash
    BY <2>2, RunKeepsInvariant, BackfillAssumption
  <2>3. CASE \E j \in Jobs : JobStep(j)
    BY <2>3, MovesKeepInvariant, AnswerKeepsInvariant, CheckpointKeepsInvariant,
       BackfillAssumption DEF JobStep
  <2> QED  BY <2>1, <2>2, <2>3 DEF Next
<1> QED  BY <1>1, <1>2, PTL DEF Spec

\* The state of script, state file and raw store is well typed.
THEOREM TypeCorrect == Spec => []TypeOK
BY Invariance, PTL DEF IInv

\* A COMPLETED report is true, through any failures, deaths and reruns before it.
THEOREM ReportTrue == Spec => []ReportIsTrue
BY Invariance, PTL DEF IInv

\* A checkpoint never runs ahead of the raw store.
THEOREM CheckpointBacked == Spec => []CheckpointHasRaw
BY Invariance, PTL DEF IInv

\* No worker is at a page when the run is over.
THEOREM WorkersAtRest == Spec => []WorkersRest
<1>1. IInv => WorkersRest
  BY DEF IInv, InStages, WorkersRest, Busy
<1> QED  BY <1>1, Invariance, PTL

\* A completed page is not asked for again.
THEOREM CompletedForGood == Spec => CompletedStays
<1> DEFINE Kept == \A j \in Jobs : \A n \in Pages(j) :
                     checkpoint[j][n] # "none" => /\ checkpoint'[j][n] = checkpoint[j][n]
                                                  /\ raw'[j][n] = raw[j][n]
<1>1. IInv /\ Next => Kept
  <2> SUFFICES ASSUME IInv, Next PROVE Kept
    OBVIOUS
  <2>1. CASE UNCHANGED store
    BY <2>1 DEF store
  <2>2. ASSUME NEW j \in Jobs, NEW content \in Content, Answered(j, content) PROVE Kept
    BY <2>2 DEF Answered, Asks, Row, IInv, TypeOK
  <2>3. ASSUME NEW j \in Jobs, Checkpoint(j) PROVE Kept
    BY <2>3 DEF Checkpoint, InHand, Row, IInv, TypeOK
  <2> QED  BY <2>1, <2>2, <2>3
           DEF Next, JobStep, Launch, NextStage, Completed, FailedResumable, Crash,
               Begin, TakePage, Fails, Refused, GiveUp, Breaks
<1>2. IInv /\ [Next]_vars => [Kept]_vars
  BY <1>1
<1> QED  BY <1>2, Invariance, PTL DEF Spec, CompletedStays
=============================================================================
