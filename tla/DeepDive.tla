------------------------------- MODULE DeepDive -------------------------------
(***************************************************************************)
(* deep_dive (etl_tasks/segment_gdacs.py): the search of GDACS returns at    *)
(* most 100 events, so a range of days is asked in windows, a window with    *)
(* too many events in smaller windows, a day with too many by alert level,   *)
(* and a level with too many by country.  Every question that has few        *)
(* enough answers becomes a QUERY row.  Answers are cached for good           *)
(* (CachedSession in etl_tasks/gdacs.py).  total_items is left out: no        *)
(* caller reads it.                                                         *)
(***************************************************************************)
EXTENDS Naturals, Sequences, FiniteSets

CONSTANTS
    Limit,      \* the number of items at which an answer counts as cut off
    Levels,     \* alert_levels
    Countries,  \* countries
    Ticks,      \* points in time per day
    MaxFaults   \* bound: failing requests

NamesIn(list) == {list[i] : i \in DOMAIN list}
IsList(list) ==
    /\ list \in Seq(NamesIn(list)) /\ list # <<>> /\ "any" \notin NamesIn(list)
    /\ \A i, j \in DOMAIN list : list[i] = list[j] => i = j

ASSUME DiveAssumption ==
    /\ Limit \in Nat \ {0} /\ Ticks \in Nat \ {0} /\ MaxFaults \in Nat
    /\ IsList(Levels) /\ IsList(Countries)

VARIABLES
    world,   \* the events there ever are: when, of which level, in which country
    now,     \* the time
    rows,    \* the rows of the queries
    todo,    \* the questions still to be asked, nested loops flattened: the first is next
    cache,   \* question -> the number of items, and when it was asked
    missed,  \* questions that were not answered, or not as things are
    faults   \* how many requests have failed

diveVars == <<world, now, rows, todo, cache, missed, faults>>

Day(at) == at \div Ticks
FirstOf(day) == day * Ticks
LastOf(day) == day * Ticks + Ticks - 1

\* A question about the times from..to; "any" stands for a parameter that is not given.
Region(from, to, level, country) == [from |-> from, to |-> to, level |-> level, country |-> country]
Within(e, q) ==
    /\ e.at \in q.from..q.to
    /\ q.level \in {"any", e.level} /\ q.country \in {"any", e.country}

Visible(q) == {e \in world : Within(e, q) /\ e.at <= now}

\* A row of a query; child is when the newest of its children was made, got what was found.
QueryRow(q) ==
    [ask |-> q, created |-> now, status |-> "PENDING", child |-> now, got |-> {}]

\* The loop of deep_dive over the days from..to in windows of num days.
Dive(from, to, num) == [from |-> from, to |-> to, num |-> num, level |-> "any", country |-> "any"]
Single(f, level, country) == [f EXCEPT !.to = f.from, !.num = 1, !.level = level, !.country = country]

Smaller(a, b) == IF a < b THEN a ELSE b

WindowEnd(f) == Smaller(f.from + f.num - 1, f.to)
AskOf(f) == Region(FirstOf(f.from), LastOf(WindowEnd(f)), f.level, f.country)

\* What is left of the loop after its first window.
RestOf(f) == IF f.from + f.num > f.to THEN <<>> ELSE <<[f EXCEPT !.from = @ + f.num]>>

\* Mutant of Half: the window stays as it is.
Same(num) == num

Half(num) == (num + 1) \div 2

\* The questions that replace one with too many answers.
Split(f) ==
    CASE f.from < WindowEnd(f) -> <<Dive(f.from, WindowEnd(f), Half(f.num))>>
      [] f.from = WindowEnd(f) /\ f.level = "any" ->
            [i \in DOMAIN Levels |-> Single(f, Levels[i], "any")]
      [] f.from = WindowEnd(f) /\ f.level # "any" /\ f.country = "any" ->
            [i \in DOMAIN Countries |-> Single(f, f.level, Countries[i])]
      [] OTHER -> <<>>

\* How many items the session says there are.
Items(q) == IF q \in DOMAIN cache THEN cache[q] ELSE Cardinality(Visible(q))

\* Mutant of IsQuery: a window that is split becomes a query as well.
IsQueryAny(n) == n > 0

\* An answer that is complete becomes a query; 204 says that there is nothing.
IsQuery(n) == n > 0 /\ n < Limit

\* A question is asked.  Too many items in one country are only printed ("Bad"); a status
\* other than 200 and 204, which is not cached, too.
Ask ==
    LET f == Head(todo)
        q == AskOf(f)
        many == Items(q) >= Limit
        stale == Items(q) # Cardinality(Visible(q))
        bad == many /\ f.country # "any"
    IN
    /\ todo # <<>>
    /\ todo' = (IF many THEN Split(f) ELSE <<>>) \o RestOf(f) \o Tail(todo)
    /\ rows' = IF IsQuery(Items(q)) THEN Append(rows, QueryRow(q)) ELSE rows
    /\ cache' = [x \in DOMAIN cache \cup {q} |-> IF x = q THEN Items(q) ELSE cache[x]]
    /\ missed' = IF stale \/ bad THEN missed \cup {q} ELSE missed
    /\ UNCHANGED <<world, now, faults>>

AskRefused ==
    LET f == Head(todo) IN
    /\ todo # <<>> /\ faults < MaxFaults /\ AskOf(f) \notin DOMAIN cache
    /\ todo' = RestOf(f) \o Tail(todo)
    /\ missed' = missed \cup {AskOf(f)}
    /\ faults' = faults + 1
    /\ UNCHANGED <<world, now, rows, cache>>

-----------------------------------------------------------------------------
(* A dive ends: no window is replaced by itself for ever.                      *)
DiveEnds == (todo # <<>>) ~> (todo = <<>>)
=============================================================================
