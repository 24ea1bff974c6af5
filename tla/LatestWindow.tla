----------------------------- MODULE LatestWindow -----------------------------
(***************************************************************************)
(* The daily jobs that ask a source for what is new (etl_tasks): each takes  *)
(* the start of its window from what an earlier row has left in the          *)
(* database, and the end from the clock.  A behaviour is about one job; the   *)
(* one of GDACS dives.  Rows are run later, by the extraction worker, and     *)
(* USGS and GDACS then make child rows that count as "newest" as well.        *)
(***************************************************************************)
EXTENDS DeepDive

CONSTANTS
    Jobs,     \* the jobs to look at
    Worlds,   \* job -> the sets of events that may happen
    Size,     \* days in the first window of a dive
    Span,     \* days in one request of a historical job: 20 for USGS, a year for GLIDE
    MaxTime,  \* bound: the last point in time
    Years     \* days in a year of EM-DAT (bound: very short years)

VARIABLES
    job,    \* the source
    last,   \* when the job has last been run; none before the first time
    byHand  \* the rows of historical jobs

windowVars == <<diveVars, job, last, byHand>>

JobNames == {"USGS", "GDACS", "GLIDE", "PDC", "IFRC", "EMDAT"}
Never == MaxTime + 1

\* The code asks only for the hazards, or alert levels, and the countries that it lists:
\* other events are none of its business.
AskedFor(events) ==
    \A e \in events :
        e.at \in Nat /\ e.level \in NamesIn(Levels) /\ e.country \in NamesIn(Countries)

ASSUME WindowAssumption ==
    /\ Jobs \subseteq JobNames
    /\ Size \in Nat \ {0} /\ Span \in Nat \ {0} /\ MaxTime \in Nat /\ Years \in Nat \ {0}
    /\ \A j \in Jobs : \A events \in Worlds[j] : IsFiniteSet(events) /\ AskedFor(events)

Nested == {"USGS", "GDACS"}
Year(at) == Day(at) \div Years
FirstOfYear(year) == FirstOf(year * Years)

Init ==
    /\ job \in Jobs /\ world \in Worlds[job]
    /\ now = 0 /\ last = Never /\ byHand = {}
    /\ rows = <<>> /\ todo = <<>> /\ cache = <<>> /\ missed = {} /\ faults = 0

Done == {r \in DOMAIN rows : rows[r].status = "SUCCESS"}

\* created_at of the newest successful row, with the children.
NewestDate == CHOOSE d \in {Day(rows[r].child) : r \in Done} : \A r \in Done : Day(rows[r].child) <= d

\* order_by("-created_at").first().
NewestOf(S) == CHOOSE r \in S : \A o \in S : o <= r

\* Mutant of StartDay: the newest day is taken as done.
StartDayAfter == IF Done = {} THEN 0 ELSE NewestDate + 1

StartDay == IF Done = {} THEN 0 ELSE NewestDate

Today == Day(now)

\* The windows of the daily jobs, by the last time they include: a date is its midnight for
\* USGS and IFRC, and the whole day for the others.
UsgsWindow == [from |-> FirstOf(StartDay), to |-> FirstOf(Today)]
GlideWindow == [from |-> FirstOf(StartDay), to |-> LastOf(Today)]

\* From the LESS_THAN bound of the newest row, to now.
PdcWindow ==
    [from |-> IF Done = {} THEN 0 ELSE rows[NewestOf(Done)].ask.to + 1, to |-> now]

\* From the updated_at__lte in the URL of the newest row.
IfrcWindow ==
    [from |-> IF Done = {} THEN 0 ELSE rows[NewestOf(Done)].ask.to, to |-> FirstOf(Today)]

\* Years, from that of the newest row if it has not succeeded.
EmdatWindow ==
    [from |-> IF rows # <<>> /\ rows[Len(rows)].status # "SUCCESS" THEN rows[Len(rows)].ask.from
              ELSE FirstOfYear(Year(now)),
     to |-> FirstOfYear(Year(now) + 1) - 1]

Window ==
    CASE job = "USGS" -> UsgsWindow
      [] job = "GLIDE" -> GlideWindow
      [] job = "PDC" -> PdcWindow
      [] job = "IFRC" -> IfrcWindow
      [] job = "EMDAT" -> EmdatWindow

\* PDC and GLIDE make a row for every kind of hazard and window.
Kinds == IF job \in {"PDC", "GLIDE"} THEN Levels ELSE <<"any">>
QueryFor(w, kind) == QueryRow(Region(w.from, w.to, kind, "any"))
Queries(windows) ==
    [n \in 1..(Len(windows) * Len(Kinds)) |->
        QueryFor(windows[(n - 1) \div Len(Kinds) + 1], Kinds[((n - 1) % Len(Kinds)) + 1])]

\* The job runs, once a day.
Schedule ==
    /\ todo = <<>> /\ (last = Never \/ Day(last) < Today)
    /\ last' = now
    /\ \/ /\ job = "GDACS"
          /\ todo' = <<Dive(StartDay, Today, Size)>>
          /\ UNCHANGED rows
       \/ /\ job # "GDACS"
          /\ rows' = rows \o Queries(<<Window>>)
          /\ UNCHANGED todo
    /\ UNCHANGED <<world, now, cache, missed, faults, job, byHand>>

-----------------------------------------------------------------------------
(* The historical jobs, which commands run by hand for the days a..b, one      *)
(* request after the other.                                                    *)

\* How often a loop with steps of Span goes from a until b is reached.
Requests(a, b) == (b - a + Span - 1) \div Span

\* Mutant of UsgsByHand: the next request starts a day after the end of the last one.
UsgsByHandApart(a, b) ==
    [i \in 1..Requests(a, b) |->
        [from |-> FirstOf(IF i = 1 THEN a ELSE a + (i - 1) * Span + 1),
         to |-> FirstOf(Smaller(a + i * Span, b))]]

UsgsByHand(a, b) ==
    [i \in 1..Requests(a, b) |->
        [from |-> FirstOf(a + (i - 1) * Span), to |-> FirstOf(Smaller(a + i * Span, b))]]

\* Whole days.  b is left out when it would be a request of its own.
GlideByHand(a, b) ==
    [i \in 1..Requests(a, b) |->
        [from |-> FirstOf(a + (i - 1) * Span), to |-> LastOf(Smaller(a + i * Span - 1, b))]]

PdcByHand(a, b) == <<[from |-> FirstOf(a), to |-> FirstOf(b) - 1]>>
IfrcByHand(a, b) == <<[from |-> FirstOf(a), to |-> FirstOf(b)]>>

\* A request for every year.
EmdatByHand(a, b) ==
    LET first == a \div Years IN
    [i \in 1..(b \div Years - first + 1) |->
        [from |-> FirstOfYear(first + i - 1), to |-> FirstOfYear(first + i) - 1]]

WindowsByHand(a, b) ==
    CASE job = "USGS" -> UsgsByHand(a, b)
      [] job = "GLIDE" -> GlideByHand(a, b)
      [] job = "PDC" -> PdcByHand(a, b)
      [] job = "IFRC" -> IfrcByHand(a, b)
      [] job = "EMDAT" -> EmdatByHand(a, b)

\* Bound: past days, and counted with the faults.  The one of GDACS is the dive of Schedule.
RunByHand(a, b) ==
    /\ job # "GDACS" /\ faults < MaxFaults
    /\ a < b /\ b <= Today
    /\ rows' = rows \o Queries(WindowsByHand(a, b))
    /\ faults' = faults + 1
    /\ byHand' = byHand \cup ((Len(rows) + 1)..Len(rows'))
    /\ UNCHANGED <<world, now, todo, cache, missed, job, last>>

-----------------------------------------------------------------------------
\* Bound: pending rows are run in the order in which they were made.
IsNext(r) == \A o \in DOMAIN rows : rows[o].status = "PENDING" => r <= o

\* The row is run: what the source shows now is found, or as much of it as the search of
\* GDACS returns; the newest child is made now, if there is one.
Run(r) ==
    LET there == Visible(rows[r].ask)
        cut == job = "GDACS" /\ Cardinality(there) > Limit
    IN
    /\ rows[r].status = "PENDING" /\ IsNext(r) /\ todo = <<>>
    /\ \E got \in IF cut THEN {S \in SUBSET there : Cardinality(S) = Limit} ELSE {there} :
       \E child \in IF job \in Nested /\ got # {} THEN {rows[r].child, now} ELSE {rows[r].child} :
            rows' = [rows EXCEPT ![r].status = "SUCCESS", ![r].got = got, ![r].child = child]
    /\ missed' = IF cut THEN missed \cup {rows[r].ask} ELSE missed
    /\ UNCHANGED <<world, now, todo, cache, faults, job, last, byHand>>

\* The run fails for good; it may be retriggered.
RunFails(r) ==
    /\ rows[r].status = "PENDING" /\ IsNext(r) /\ todo = <<>> /\ faults < MaxFaults
    /\ faults' = faults + 1
    /\ rows' = [rows EXCEPT ![r].status = "FAILED"]
    /\ UNCHANGED <<world, now, todo, cache, missed, job, last, byHand>>
RunAgain(r) ==
    /\ rows[r].status = "FAILED" /\ todo = <<>>
    /\ rows' = [rows EXCEPT ![r].status = "PENDING"]
    /\ UNCHANGED <<world, now, todo, cache, missed, faults, job, last, byHand>>

\* Bound: a dive ends within one point in time.
Tick ==
    /\ todo = <<>> /\ now < MaxTime
    /\ now' = now + 1
    /\ UNCHANGED <<world, rows, todo, cache, missed, faults, job, last, byHand>>

DiveStep == (Ask \/ AskRefused) /\ UNCHANGED <<job, last, byHand>>

Next ==
    \/ Tick \/ Schedule \/ DiveStep
    \/ \E a, b \in 0..Today : RunByHand(a, b)
    \/ \E r \in DOMAIN rows : Run(r) \/ RunFails(r) \/ RunAgain(r)

\* The task that dives goes on by itself.
Spec == Init /\ [][Next]_windowVars /\ WF_windowVars(DiveStep)

-----------------------------------------------------------------------------
WindowTypeOK ==
    /\ now \in 0..MaxTime /\ last \in 0..Never /\ faults \in 0..MaxFaults
    /\ \A r \in DOMAIN rows :
        /\ rows[r].status \in {"PENDING", "SUCCESS", "FAILED"}
        /\ rows[r].created <= rows[r].child /\ rows[r].child <= now
        /\ rows[r].ask.from <= rows[r].ask.to + 1
        /\ rows[r].got \subseteq world

\* The events that the job should know of since it was last run.
Due(e) ==
    /\ last # Never
    /\ CASE job \in {"USGS", "IFRC"} -> e.at <= FirstOf(Day(last))
         [] OTHER -> e.at <= last

\* A row that was made on one day, and has children of a later one.
Drifted == \E r \in Done : Day(rows[r].child) > Day(rows[r].created)

(* The queries of one dive share no event: whatever is split by days, levels   *)
(* and countries, an event is asked for once, and is not extracted and          *)
(* transformed twice.                                                           *)
DiveDisjoint ==
    job = "GDACS" => \A i, j \in DOMAIN rows :
        (i # j /\ rows[i].created = rows[j].created) =>
            \A e \in world : ~(Within(e, rows[i].ask) /\ Within(e, rows[j].ask))

(* No event falls between two windows: when a job has run, every event that it  *)
(* should know of has been found, or is in the window of a row that has not      *)
(* been run successfully yet, whatever failed and was retriggered in between.   *)
(* What can lose an event is named here: a question of a dive that was refused,  *)
(* cut off at the finest grain, or answered from the cache or to the row         *)
(* differently; children made on a later day than their row (the drift that      *)
(* pdc.py:35 speaks of), for the sources that go by created_at; for these also a *)
(* historical job, whose rows are new but ask for the past; for PDC and IFRC,    *)
(* which read what their newest row has asked for, only one that asks for later  *)
(* days than the event's; and the end of a year for EM-DAT, which never asks for *)
(* it again after a success: what comes after the job's last run in the year.    *)
NoEventBetweenWindows ==
    todo = <<>> => \A e \in {x \in world : Due(x)} :
        \/ \E r \in DOMAIN rows : e \in rows[r].got
                \/ (rows[r].status # "SUCCESS" /\ Within(e, rows[r].ask))
        \/ \E q \in missed : Within(e, q)
        \/ job \in Nested /\ Drifted
        \/ job \in {"USGS", "GLIDE"} /\ byHand # {}
        \/ job \in {"PDC", "IFRC"} /\ \E r \in byHand : e.at < rows[r].ask.from
        \/ job = "EMDAT" /\ ~\E r \in DOMAIN rows \ byHand :
                Year(rows[r].created) = Year(e.at) /\ e.at <= rows[r].created

(* The requests of a historical job leave no gap between them, whatever the      *)
(* length of the loop's last step: all before the last day is asked for          *)
(* (usgs.py:59-76, glide.py:48-70).  The last day itself is up to the dates:     *)
(* USGS and IFRC ask for its midnight, and GLIDE for none of it when the days    *)
(* before fill whole years.                                                      *)
ByHandLeavesNoGap ==
    [][\A a, b \in 0..Today : RunByHand(a, b) =>
        \A at \in FirstOf(a)..(FirstOf(b) - 1) :
            \E r \in (Len(rows) + 1)..Len(rows') : at \in rows'[r].ask.from..rows'[r].ask.to]_windowVars
=============================================================================
