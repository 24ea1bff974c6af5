-------------------------- MODULE LatestWindowProofs --------------------------
(***************************************************************************)
(* Theorems about LatestWindow, for any lengths of a day, a window, a       *)
(* request and a year, any levels and countries, any limit of the search    *)
(* and any events.                                                          *)
(***************************************************************************)
EXTENDS LatestWindow, FiniteSetTheorems, WellFoundedInduction, TLAPS

-----------------------------------------------------------------------------
(* Arithmetic: points in time, days and years.                              *)

LEMMA DivBounds ==
    ASSUME NEW K \in Nat \ {0}, NEW t \in Nat, NEW q \in Nat
    PROVE  t \div K \in Nat /\ (q * K <= t <=> q <= t \div K)
<1>1. t \div K \in Nat /\ (t \div K) * K <= t /\ t < (t \div K) * K + K
    OBVIOUS
<1>2. CASE q <= t \div K
    <2>1. q * K <= (t \div K) * K
        BY <1>1, <1>2
    <2> QED
        BY <1>1, <1>2, <2>1
<1>3. CASE t \div K < q
    <2>1. (t \div K) * K + K <= q * K
        BY <1>1, <1>3
    <2> QED
        BY <1>1, <1>3, <2>1
<1> QED
    BY <1>1, <1>2, <1>3

\* An interval of whole days holds a point in time if it holds its day.
LEMMA DayBounds ==
    ASSUME NEW t \in Nat, NEW d \in Nat
    PROVE  /\ Day(t) \in Nat /\ FirstOf(d) \in Nat /\ LastOf(d) \in Nat
           /\ FirstOf(d) <= LastOf(d)
           /\ FirstOf(d) <= t <=> d <= Day(t)
           /\ t <= LastOf(d) <=> Day(t) <= d
<1>1. Ticks \in Nat \ {0}
    BY DiveAssumption
<1>2. d * Ticks \in Nat /\ (d + 1) * Ticks \in Nat /\ (d + 1) * Ticks = d * Ticks + Ticks
    BY <1>1
<1>3. Day(t) \in Nat /\ (d * Ticks <= t <=> d <= Day(t))
    BY <1>1, DivBounds DEF Day
<1>4. (d + 1) * Ticks <= t <=> d + 1 <= Day(t)
    BY <1>1, DivBounds DEF Day
<1> QED
    BY <1>1, <1>2, <1>3, <1>4 DEF FirstOf, LastOf

LEMMA DayOrder ==
    ASSUME NEW s \in Nat, NEW t \in Nat, NEW c \in Nat, NEW d \in Nat
    PROVE  /\ s <= t => Day(s) <= Day(t)
           /\ c <= d => FirstOf(c) <= FirstOf(d) /\ LastOf(c) <= LastOf(d)
           /\ c < d => LastOf(c) < FirstOf(d)
<1>1. FirstOf(Day(s)) <= s /\ Day(s) \in Nat /\ Day(t) \in Nat
    BY DayBounds
<1>2. s <= t => Day(s) <= Day(t)
    <2>1. FirstOf(Day(s)) \in Nat /\ (FirstOf(Day(s)) <= t <=> Day(s) <= Day(t))
        BY <1>1, DayBounds
    <2> QED
        BY <1>1, <2>1
<1>3. Day(FirstOf(c)) = c /\ Day(LastOf(c)) = c /\ FirstOf(c) \in Nat /\ LastOf(c) \in Nat
    <2>1. FirstOf(c) \in Nat /\ LastOf(c) \in Nat /\ FirstOf(c) <= LastOf(c)
        BY DayBounds
    <2>2. /\ c <= Day(FirstOf(c)) /\ Day(FirstOf(c)) <= c
          /\ c <= Day(LastOf(c)) /\ Day(LastOf(c)) <= c
        BY <2>1, DayBounds
    <2>3. Day(FirstOf(c)) \in Nat /\ Day(LastOf(c)) \in Nat
        BY <2>1, DayBounds
    <2> QED
        BY <2>1, <2>2, <2>3
<1>4. FirstOf(d) \in Nat /\ LastOf(d) \in Nat
    BY DayBounds
<1>5. /\ LastOf(c) <= LastOf(d) <=> Day(LastOf(c)) <= d
      /\ FirstOf(d) <= LastOf(c) <=> d <= Day(LastOf(c))
    BY <1>3, DayBounds
<1>6. FirstOf(c) <= FirstOf(d) <=> c <= Day(FirstOf(d))
    BY <1>4, DayBounds
<1>7. Day(FirstOf(d)) = d
    <2>1. d <= Day(FirstOf(d)) /\ Day(FirstOf(d)) \in Nat /\ FirstOf(d) <= LastOf(d)
        BY <1>4, DayBounds
    <2>2. FirstOf(d) <= LastOf(d) <=> Day(FirstOf(d)) <= d
        BY <1>4, DayBounds
    <2> QED
        BY <2>1, <2>2
<1> QED
    BY <1>2, <1>3, <1>4, <1>5, <1>6, <1>7

LEMMA YearBounds ==
    ASSUME NEW t \in Nat, NEW y \in Nat
    PROVE  /\ Year(t) \in Nat /\ FirstOfYear(y) \in Nat
           /\ FirstOfYear(y) <= t <=> y <= Year(t)
<1>1. Years \in Nat \ {0} /\ Day(t) \in Nat /\ y * Years \in Nat
    BY WindowAssumption, DayBounds
<1>2. y * Years <= Day(t) <=> y <= Day(t) \div Years
    BY <1>1, DivBounds
<1>3. FirstOf(y * Years) \in Nat /\ (FirstOf(y * Years) <= t <=> y * Years <= Day(t))
    BY <1>1, DayBounds
<1>4. Day(t) \div Years \in Nat
    BY <1>1, DivBounds
<1> QED
    BY <1>2, <1>3, <1>4 DEF Year, FirstOfYear

-----------------------------------------------------------------------------
(* A bounded set of numbers has a least and a greatest element.             *)

LEMMA LeastOf ==
    ASSUME NEW n \in Nat, NEW T, T \subseteq 0..n, T # {}
    PROVE  \E x \in T : \A y \in T : x <= y
<1> DEFINE Below(x) == {y \in 0..n : y < x}
           F == {Below(x) : x \in T}
<1>1. IsWellFoundedOn(StrictSubsetOrdering(0..n), SUBSET (0..n))
    <2>1. IsFiniteSet(0..n)
        BY FS_Interval
    <2>2. FiniteSubsetsOf(0..n) = SUBSET (0..n)
        BY <2>1, FS_FiniteSubsetsOfFinite
    <2> QED
        BY <2>2, FS_StrictSubsetOrderingWellFounded
<1>2. F \subseteq SUBSET (0..n) /\ F # {}
    OBVIOUS
<1>3. PICK u \in F : \A v \in F : <<v, u>> \notin StrictSubsetOrdering(0..n)
    <2> HIDE DEF F
    <2> QED
        BY <1>1, <1>2, WFMin
<1>4. PICK x \in T : u = Below(x)
    BY DEF F
<1>5. ASSUME NEW y \in T, y < x PROVE FALSE
    <2>1. Below(y) \subseteq Below(x) /\ y \in Below(x) /\ y \notin Below(y)
        BY <1>5
    <2>2. Below(y) \in SUBSET (0..n) /\ Below(x) \in SUBSET (0..n) /\ Below(y) # Below(x)
        BY <2>1
    <2>3. <<Below(y), Below(x)>> \in StrictSubsetOrdering(0..n)
        BY <2>1, <2>2 DEF StrictSubsetOrdering
    <2> QED
        BY <2>3, <1>3, <1>4
<1> QED
    BY <1>5

LEMMA GreatestOf ==
    ASSUME NEW n \in Nat, NEW T, T \subseteq 0..n, T # {}
    PROVE  \E x \in T : \A y \in T : y <= x
<1> DEFINE U == {n - t : t \in T}
<1>1. \A t \in T : t \in Nat /\ t <= n
    OBVIOUS
<1>2. U \subseteq 0..n /\ U # {}
    <2>1. \A t \in T : n - t \in 0..n
        BY <1>1
    <2> QED
        BY <2>1
<1>3. PICK u \in U : \A v \in U : u <= v
    BY <1>2, LeastOf
<1>4. PICK t \in T : u = n - t
    OBVIOUS
<1>5. \A y \in T : n - y \in U /\ u <= n - y
    BY <1>3
<1> QED
    BY <1>1, <1>4, <1>5

-----------------------------------------------------------------------------
(* The types of the state.                                                  *)

LevelNames == NamesIn(Levels) \cup {"any"}
CountryNames == NamesIn(Countries) \cup {"any"}
Windows == [from : Nat, to : Nat]
Asks == [from : Nat, to : Nat, level : LevelNames, country : CountryNames]
Statuses == {"PENDING", "SUCCESS", "FAILED"}
RowSet == [ask : Asks, created : Nat, status : Statuses, child : Nat, got : SUBSET world]
Loops == [from : Nat, to : Nat, num : Nat \ {0}, level : LevelNames, country : CountryNames]

\* What is true of a row for as long as it exists.  PDC and IFRC have not asked for what
\* was to come, and EM-DAT has not asked for years to come.
RowOK(row) ==
    /\ row.created <= row.child /\ row.child <= now
    /\ row.ask.from <= row.ask.to + 1
    /\ job \notin Nested \/ row.status # "SUCCESS" => row.child = row.created
    /\ job = "PDC" => row.ask.to <= row.created
    /\ job = "IFRC" => row.ask.to <= FirstOf(Day(row.created))
    /\ job = "EMDAT" => row.ask.from <= FirstOfYear(Year(row.created))

\* A loop has days left, and only single days are asked by level and country.
LoopOK(f) ==
    /\ f.from <= f.to
    /\ f.level = "any" => f.country = "any"
    /\ f.level # "any" => f.from = f.to

Typed ==
    /\ job \in Jobs /\ world \in Worlds[job]
    /\ now \in 0..MaxTime /\ last \in 0..Never /\ faults \in 0..MaxFaults
    /\ rows \in Seq(RowSet) /\ byHand \subseteq DOMAIN rows
    /\ todo \in Seq(Loops) /\ (todo # <<>> => job = "GDACS")
    /\ \A q \in DOMAIN cache : cache[q] \in Nat
    /\ \A r \in DOMAIN rows : RowOK(rows[r])
    /\ \A i \in DOMAIN todo : LoopOK(todo[i])

LEMMA Joined ==
    ASSUME NEW S, NEW s \in Seq(S), NEW t \in Seq(S)
    PROVE  /\ s \o t \in Seq(S) /\ Len(s \o t) = Len(s) + Len(t)
           /\ Len(s) \in Nat /\ Len(t) \in Nat
           /\ DOMAIN s = 1..Len(s) /\ DOMAIN t = 1..Len(t)
           /\ DOMAIN (s \o t) = 1..(Len(s) + Len(t))
           /\ \A i \in DOMAIN s : i \in DOMAIN (s \o t) /\ (s \o t)[i] = s[i]
           /\ \A i \in DOMAIN t : Len(s) + i \in DOMAIN (s \o t) /\ (s \o t)[Len(s) + i] = t[i]
           /\ \A i \in DOMAIN (s \o t) :
                  \/ i \in DOMAIN s
                  \/ i - Len(s) \in DOMAIN t /\ (s \o t)[i] = t[i - Len(s)]
OBVIOUS

LEMMA KindsList ==
    ASSUME Typed
    PROVE  /\ Kinds \in Seq(LevelNames) /\ Len(Kinds) \in Nat \ {0}
           /\ DOMAIN Kinds = 1..Len(Kinds)
<1>1. CASE job \in {"PDC", "GLIDE"}
    <2>1. Levels \in Seq(NamesIn(Levels)) /\ Levels # <<>> /\ Kinds = Levels
        BY <1>1, DiveAssumption DEF IsList, Kinds
    <2>2. Levels \in Seq(LevelNames)
        BY <2>1 DEF LevelNames
    <2> QED
        BY <2>1, <2>2
<1>2. CASE job \notin {"PDC", "GLIDE"}
    <2>1. Kinds = <<"any">> /\ "any" \in LevelNames
        BY <1>2 DEF Kinds, LevelNames
    <2> QED
        BY <2>1
<1> QED
    BY <1>1, <1>2

\* The pair at place n of windows times kinds, and the place of every pair.
LEMMA Places ==
    ASSUME NEW w \in Nat, NEW k \in Nat \ {0}, NEW n \in 1..(w * k)
    PROVE  (n - 1) \div k + 1 \in 1..w /\ ((n - 1) % k) + 1 \in 1..k
<1>1. n - 1 \in Nat /\ w * k \in Nat /\ n - 1 < w * k
    OBVIOUS
<1>2. (n - 1) \div k \in Nat /\ ~(w <= (n - 1) \div k)
    BY <1>1, DivBounds
<1>3. (n - 1) % k \in 0..(k - 1)
    BY <1>1
<1> QED
    BY <1>2, <1>3

AtPlace(n, k, i, j) == (n - 1) \div k + 1 = i /\ ((n - 1) % k) + 1 = j

LEMMA PlaceOf ==
    ASSUME NEW w \in Nat, NEW k \in Nat \ {0}, NEW i \in 1..w, NEW j \in 1..k
    PROVE  \E n \in 1..(w * k) : AtPlace(n, k, i, j)
<1> DEFINE m == (i - 1) * k + (j - 1)
<1>1. (i - 1) * k \in Nat /\ m \in Nat /\ (i - 1) * k + k = i * k /\ i * k <= w * k
    OBVIOUS
<1>2. m \div k = i - 1 /\ m % k = j - 1
    <2>1. i - 1 <= m \div k /\ ~(i <= m \div k) /\ m \div k \in Nat
        BY <1>1, DivBounds
    <2>2. m \div k = i - 1
        BY <2>1
    <2>3. m % k = m - k * (m \div k)
        BY <1>1
    <2> QED
        BY <1>1, <2>2, <2>3
<1>3. m + 1 \in 1..(w * k) /\ (m + 1) - 1 = m
    BY <1>1
<1>4. AtPlace(m + 1, k, i, j)
    BY <1>2, <1>3 DEF AtPlace
<1> HIDE DEF m
<1> QED
    BY <1>3, <1>4

\* The rows of a job: one for every window and kind, as they are made.
MadeFor(row, w) ==
    /\ row.ask \in Asks /\ row.ask.from = w.from /\ row.ask.to = w.to
    /\ row.created = now /\ row.child = now /\ row.status = "PENDING" /\ row.got = {}

LEMMA RowsOfWindows ==
    ASSUME Typed, NEW ws \in Seq(Windows)
    PROVE  /\ Queries(ws) \in Seq(RowSet)
           /\ \A n \in DOMAIN Queries(ws) : \E i \in DOMAIN ws : MadeFor(Queries(ws)[n], ws[i])
           /\ \A i \in DOMAIN ws, j \in DOMAIN Kinds :
                  \E n \in DOMAIN Queries(ws) : Queries(ws)[n] = QueryFor(ws[i], Kinds[j])
<1> DEFINE w == Len(ws)
           k == Len(Kinds)
<1>1. w \in Nat /\ DOMAIN ws = 1..w /\ w * k \in Nat /\ k \in Nat \ {0} /\ DOMAIN Kinds = 1..k
    BY KindsList
<1> HIDE DEF w, k
<1>2. ASSUME NEW i \in 1..w, NEW j \in 1..k
      PROVE  QueryFor(ws[i], Kinds[j]) \in RowSet /\ MadeFor(QueryFor(ws[i], Kinds[j]), ws[i])
    <2>1. ws[i] \in Windows
        BY <1>1
    <2>2. Kinds[j] \in LevelNames
        BY KindsList, <1>1
    <2>3. now \in Nat
        BY WindowAssumption DEF Typed
    <2> QED
        BY <2>1, <2>2, <2>3 DEF Windows, QueryFor, QueryRow, Region, RowSet, Asks, CountryNames, Statuses, MadeFor
<1>3. DOMAIN Queries(ws) = 1..(w * k)
    BY DEF Queries, w, k
<1>4. ASSUME NEW n \in 1..(w * k)
      PROVE  \E i \in 1..w, j \in 1..k : Queries(ws)[n] = QueryFor(ws[i], Kinds[j])
    <2>1. (n - 1) \div k + 1 \in 1..w /\ ((n - 1) % k) + 1 \in 1..k
        BY <1>1, Places
    <2> QED
        BY <2>1 DEF Queries, w, k
<1>5. ASSUME NEW i \in 1..w, NEW j \in 1..k
      PROVE  \E n \in 1..(w * k) : Queries(ws)[n] = QueryFor(ws[i], Kinds[j])
    <2>1. PICK n \in 1..(w * k) : AtPlace(n, k, i, j)
        BY <1>1, PlaceOf
    <2> QED
        BY <2>1 DEF Queries, AtPlace, w, k
<1>6. \A n \in 1..(w * k) : Queries(ws)[n] \in RowSet
    BY <1>2, <1>4
<1>7. Queries(ws) \in Seq(RowSet)
    <2>1. Queries(ws) \in [1..(w * k) -> RowSet]
        BY <1>6 DEF Queries, w, k
    <2> QED
        BY <2>1, <1>1
<1>8. \A n \in DOMAIN Queries(ws) : \E i \in DOMAIN ws : MadeFor(Queries(ws)[n], ws[i])
    <2> SUFFICES ASSUME NEW n \in 1..(w * k)
                 PROVE  \E i \in 1..w : MadeFor(Queries(ws)[n], ws[i])
        BY <1>1, <1>3
    <2>1. PICK i \in 1..w, j \in 1..k : Queries(ws)[n] = QueryFor(ws[i], Kinds[j])
        BY <1>4
    <2> QED
        BY <1>2, <2>1
<1>9. \A i \in DOMAIN ws, j \in DOMAIN Kinds :
          \E n \in DOMAIN Queries(ws) : Queries(ws)[n] = QueryFor(ws[i], Kinds[j])
    BY <1>1, <1>3, <1>5
<1> QED
    BY <1>7, <1>8, <1>9

-----------------------------------------------------------------------------
(* The windows that the jobs ask for.                                       *)

LEMMA Clock ==
    ASSUME Typed
    PROVE  /\ now \in Nat /\ Today \in Nat /\ FirstOf(Today) \in Nat /\ LastOf(Today) \in Nat
           /\ FirstOf(Today) <= now /\ now <= LastOf(Today)
           /\ Year(now) \in Nat /\ FirstOfYear(Year(now)) <= now
<1>1. now \in Nat
    BY WindowAssumption DEF Typed
<1>2. Today \in Nat
    BY <1>1, DayBounds DEF Today
<1>3. Year(now) \in Nat
    BY <1>1, YearBounds
<1> QED
    BY <1>1, <1>2, <1>3, DayBounds, YearBounds DEF Today

\* A year ends before the next one starts.
LEMMA YearOrder ==
    ASSUME NEW y \in Nat, NEW z \in Nat
    PROVE  /\ FirstOfYear(y) \in Nat /\ FirstOfYear(y) < FirstOfYear(y + 1)
           /\ y <= z => FirstOfYear(y) <= FirstOfYear(z)
<1>1. Ticks \in Nat \ {0} /\ Years \in Nat \ {0}
    BY DiveAssumption, WindowAssumption
<1>2. ASSUME NEW k \in Nat \ {0}, NEW c \in Nat, NEW d \in Nat
      PROVE  c * k \in Nat /\ (c + 1) * k = c * k + k /\ (c <= d => c * k <= d * k)
    OBVIOUS
<1>3. y * Years \in Nat /\ z * Years \in Nat /\ (y + 1) * Years = y * Years + Years
      /\ (y <= z => y * Years <= z * Years)
    BY <1>1, <1>2
<1>4. (y * Years) * Ticks \in Nat /\ (y * Years) * Ticks + Ticks = (y * Years + 1) * Ticks
    BY <1>1, <1>3, <1>2
<1>5. (y * Years + 1) * Ticks <= (y * Years + Years) * Ticks
    BY <1>1, <1>3, <1>2
<1>6. y <= z => (y * Years) * Ticks <= (z * Years) * Ticks
    BY <1>1, <1>3, <1>2
<1> QED
    BY <1>1, <1>3, <1>4, <1>5, <1>6 DEF FirstOfYear, FirstOf

LEMMA RowTyped ==
    ASSUME Typed, NEW r \in DOMAIN rows
    PROVE  /\ rows[r] \in RowSet /\ rows[r].ask \in Asks
           /\ rows[r].ask.from \in Nat /\ rows[r].ask.to \in Nat
           /\ rows[r].created \in Nat /\ rows[r].child \in Nat
           /\ RowOK(rows[r])
           /\ Len(rows) \in Nat /\ DOMAIN rows = 1..Len(rows) /\ r \in Nat
<1>1. rows[r] \in RowSet /\ RowOK(rows[r])
    BY DEF Typed
<1>2. Len(rows) \in Nat /\ DOMAIN rows = 1..Len(rows) /\ r \in Nat
    BY DEF Typed
<1>3. rows[r].ask \in Asks /\ rows[r].created \in Nat /\ rows[r].child \in Nat
    BY <1>1 DEF RowSet
<1> QED
    BY <1>1, <1>2, <1>3 DEF Asks

\* What has been is not later than today and this year.
LEMMA Past ==
    ASSUME Typed, NEW t \in Nat, t <= now
    PROVE  /\ Day(t) \in 0..Today
           /\ FirstOf(Day(t)) \in Nat /\ FirstOf(Day(t)) <= t /\ FirstOf(Day(t)) <= FirstOf(Today)
           /\ Year(t) \in Nat /\ Year(t) <= Year(now)
           /\ FirstOfYear(Year(t)) \in Nat /\ FirstOfYear(Year(t)) <= t
           /\ FirstOfYear(Year(t)) <= FirstOfYear(Year(now))
<1>1. Day(t) \in Nat /\ Today \in Nat /\ Day(t) <= Today
    BY Clock, DayBounds, DayOrder DEF Today
<1>2. FirstOf(Day(t)) \in Nat /\ FirstOf(Day(t)) <= t /\ FirstOf(Day(t)) <= FirstOf(Today)
    BY <1>1, DayBounds, DayOrder
<1>3. Year(t) \in Nat
    BY YearBounds
<1>4. FirstOfYear(Year(t)) \in Nat /\ FirstOfYear(Year(t)) <= t
    BY <1>3, YearBounds
<1>5. Year(t) <= Year(now)
    <2>1. FirstOfYear(Year(t)) <= now
        BY <1>4, Clock
    <2> QED
        BY <1>3, <2>1, Clock, YearBounds
<1>6. FirstOfYear(Year(t)) <= FirstOfYear(Year(now))
    BY <1>3, <1>5, Clock, YearOrder
<1> QED
    BY <1>1, <1>2, <1>3, <1>4, <1>5, <1>6

\* The newest row, and the newest day, are there.
LEMMA NewestRow ==
    ASSUME Typed, Done # {}
    PROVE  NewestOf(Done) \in Done
<1>1. Len(rows) \in Nat /\ Done \subseteq 0..Len(rows)
    BY DEF Typed, Done
<1>2. \E r \in Done : \A o \in Done : o <= r
    BY <1>1, GreatestOf
<1> QED
    BY <1>2 DEF NewestOf

LEMMA StartOfWindow ==
    ASSUME Typed
    PROVE  /\ StartDay \in Nat /\ StartDay <= Today
           /\ Done = {} => StartDay = 0
           /\ Done # {} => \E r \in Done : StartDay = Day(rows[r].child)
<1> DEFINE T == {Day(rows[r].child) : r \in Done}
<1>1. CASE Done = {}
    BY <1>1, Clock DEF StartDay
<1>2. CASE Done # {}
    <2>1. \A r \in Done : Day(rows[r].child) \in 0..Today
        <3> TAKE r \in Done
        <3>1. rows[r].child \in Nat /\ rows[r].child <= now
            BY RowTyped DEF Done, RowOK
        <3> QED
            BY <3>1, Past
    <2>2. T \subseteq 0..Today /\ T # {}
        BY <1>2, <2>1
    <2>3. \E d \in T : \A y \in T : y <= d
        <3> HIDE DEF T
        <3> QED
            BY <2>2, Clock, GreatestOf
    <2>4. \E d \in T : \A r \in Done : Day(rows[r].child) <= d
        BY <2>3
    <2>5. NewestDate \in T
        BY <2>4 DEF NewestDate
    <2> QED
        BY <1>2, <2>1, <2>5, Clock DEF StartDay
<1> QED
    BY <1>1, <1>2

\* A window ends no earlier than the moment before it starts, and asks for nothing that the
\* row may not ask for.
WindowOK(w) ==
    /\ w \in Windows /\ w.from <= w.to + 1
    /\ job = "PDC" => w.to <= now
    /\ job = "IFRC" => w.to <= FirstOf(Today)
    /\ job = "EMDAT" => w.from <= FirstOfYear(Year(now))

LEMMA FreshRowsOK ==
    ASSUME Typed, NEW ws \in Seq(Windows), \A i \in DOMAIN ws : WindowOK(ws[i]),
           NEW n \in DOMAIN Queries(ws)
    PROVE  RowOK(Queries(ws)[n])
<1>1. PICK i \in DOMAIN ws : MadeFor(Queries(ws)[n], ws[i])
    BY RowsOfWindows
<1>2. WindowOK(ws[i])
    BY <1>1
<1> QED
    BY <1>1, <1>2, Clock DEF MadeFor, WindowOK, RowOK, Today

LEMMA DailyWindow ==
    ASSUME Typed, job # "GDACS"
    PROVE  WindowOK(Window)
<1>1. job \in {"USGS", "GLIDE", "PDC", "IFRC", "EMDAT"}
    BY WindowAssumption DEF Typed, JobNames
<1>2. FirstOf(StartDay) \in Nat /\ FirstOf(StartDay) <= FirstOf(Today)
    BY StartOfWindow, Clock, DayBounds, DayOrder
<1>3. CASE job = "USGS"
    BY <1>2, <1>3, Clock DEF Window, UsgsWindow, WindowOK, Windows
<1>4. CASE job = "GLIDE"
    BY <1>2, <1>4, Clock DEF Window, GlideWindow, WindowOK, Windows
<1>5. CASE job = "PDC"
    <2>1. PdcWindow.from \in Nat /\ PdcWindow.from <= now + 1 /\ PdcWindow.to = now
        <3>1. CASE Done = {}
            BY <3>1, Clock DEF PdcWindow
        <3>2. CASE Done # {}
            <4>1. NewestOf(Done) \in DOMAIN rows
                BY <3>2, NewestRow DEF Done
            <4>2. /\ rows[NewestOf(Done)].ask.to \in Nat /\ rows[NewestOf(Done)].created \in Nat
                  /\ rows[NewestOf(Done)].child \in Nat /\ RowOK(rows[NewestOf(Done)])
                BY <4>1, RowTyped
            <4> QED
                BY <3>2, <4>2, <1>5, Clock DEF PdcWindow, RowOK
        <3> QED
            BY <3>1, <3>2
    <2> QED
        BY <1>5, <2>1, Clock DEF Window, PdcWindow, WindowOK, Windows
<1>6. CASE job = "IFRC"
    <2>1. IfrcWindow.from \in Nat /\ IfrcWindow.from <= FirstOf(Today) /\ IfrcWindow.to = FirstOf(Today)
        <3>1. CASE Done = {}
            BY <3>1, Clock DEF IfrcWindow
        <3>2. CASE Done # {}
            <4> DEFINE n == NewestOf(Done)
            <4>1. n \in DOMAIN rows
                BY <3>2, NewestRow DEF Done
            <4>2. /\ rows[n].ask.to \in Nat /\ rows[n].created \in Nat
                  /\ rows[n].child \in Nat /\ RowOK(rows[n])
                BY <4>1, RowTyped
            <4>3. rows[n].created <= now /\ rows[n].ask.to <= FirstOf(Day(rows[n].created))
                BY <4>2, <1>6, Clock DEF RowOK
            <4>4. FirstOf(Day(rows[n].created)) <= FirstOf(Today) /\ FirstOf(Day(rows[n].created)) \in Nat
                BY <4>2, <4>3, Past
            <4> QED
                BY <3>2, <4>2, <4>3, <4>4, Clock DEF IfrcWindow
        <3> QED
            BY <3>1, <3>2
    <2> QED
        BY <1>6, <2>1, Clock DEF Window, IfrcWindow, WindowOK, Windows
<1>7. CASE job = "EMDAT"
    <2>1. /\ FirstOfYear(Year(now)) \in Nat
          /\ FirstOfYear(Year(now) + 1) \in Nat /\ FirstOfYear(Year(now)) < FirstOfYear(Year(now) + 1)
        BY Clock, YearOrder
    <2>2. EmdatWindow.from \in Nat /\ EmdatWindow.from <= FirstOfYear(Year(now))
        <3>1. CASE rows = <<>>
            BY <3>1, <2>1 DEF EmdatWindow
        <3>2. CASE rows # <<>>
            <4> DEFINE n == Len(rows)
            <4>1. n \in DOMAIN rows
                BY <3>2 DEF Typed
            <4>2. /\ rows[n].ask.from \in Nat /\ rows[n].created \in Nat
                  /\ rows[n].child \in Nat /\ RowOK(rows[n])
                BY <4>1, RowTyped
            <4>3. rows[n].created <= now /\ rows[n].ask.from <= FirstOfYear(Year(rows[n].created))
                BY <4>2, <1>7, Clock DEF RowOK
            <4>4. FirstOfYear(Year(rows[n].created)) <= FirstOfYear(Year(now))
                  /\ FirstOfYear(Year(rows[n].created)) \in Nat
                BY <4>2, <4>3, Past
            <4> QED
                BY <2>1, <4>2, <4>3, <4>4 DEF EmdatWindow
        <3> QED
            BY <3>1, <3>2
    <2> QED
        <3>1. EmdatWindow.to = FirstOfYear(Year(now) + 1) - 1
            BY DEF EmdatWindow
        <3>2. EmdatWindow \in Windows
            BY <2>1, <2>2, <3>1 DEF EmdatWindow, Windows
        <3>3. Window = EmdatWindow
            BY <1>7 DEF Window
        <3> QED
            BY <1>7, <2>1, <2>2, <3>1, <3>2, <3>3 DEF WindowOK
<1> QED
    BY <1>1, <1>3, <1>4, <1>5, <1>6, <1>7

-----------------------------------------------------------------------------
(* The loops of the historical jobs.                                        *)

\* A request starts on one of the days a..b - 1, and the next one Span days later.
LEMMA RequestDays ==
    ASSUME NEW a \in Nat, NEW b \in Nat, a < b
    PROVE  /\ Requests(a, b) \in Nat
           /\ \A i \in 1..Requests(a, b) :
                  /\ a + (i - 1) * Span \in Nat /\ a + (i - 1) * Span < b
                  /\ a + i * Span \in Nat /\ a + i * Span = a + (i - 1) * Span + Span
<1>1. Span \in Nat \ {0}
    BY WindowAssumption
<1>2. b - a + Span - 1 \in Nat
    BY <1>1
<1>3. Requests(a, b) \in Nat
    BY <1>1, <1>2, DivBounds DEF Requests
<1>4. ASSUME NEW i \in 1..Requests(a, b)
      PROVE  /\ a + (i - 1) * Span \in Nat /\ a + (i - 1) * Span < b
             /\ a + i * Span \in Nat /\ a + i * Span = a + (i - 1) * Span + Span
    <2>1. i \in Nat /\ i - 1 \in Nat /\ i * Span \in Nat /\ (i - 1) * Span \in Nat
        BY <1>1, <1>3
    <2>2. i * Span = (i - 1) * Span + Span
        BY <1>1, <2>1
    <2>3. i * Span <= b - a + Span - 1
        BY <1>1, <1>2, <1>3, <2>1, DivBounds DEF Requests
    <2> HIDE DEF Requests
    <2> QED
        BY <1>1, <2>1, <2>2, <2>3
<1> QED
    BY <1>3, <1>4

\* Every day before b lies between the start of a request and that of the next.
LEMMA RequestOfDay ==
    ASSUME NEW a \in Nat, NEW b \in Nat, NEW d \in Nat, a <= d, d < b
    PROVE  \E i \in 1..Requests(a, b) : a + (i - 1) * Span <= d /\ d < a + i * Span
<1> DEFINE k == (d - a) \div Span
<1>1. Span \in Nat \ {0} /\ d - a \in Nat /\ b - a + Span - 1 \in Nat
    BY WindowAssumption
<1>2. k \in Nat /\ k * Span <= d - a
    <2>1. k \in Nat
        BY <1>1, DivBounds
    <2> QED
        BY <1>1, <2>1, DivBounds
<1>3. d - a < (k + 1) * Span
    <2>1. ~(k + 1 <= k)
        BY <1>2
    <2>2. k + 1 \in Nat
        BY <1>2
    <2>3. (k + 1) * Span <= d - a <=> k + 1 <= (d - a) \div Span
        BY <1>1, <2>2, DivBounds
    <2>4. (k + 1) * Span \in Nat
        BY <1>1, <2>2
    <2> QED
        BY <1>1, <2>1, <2>3, <2>4
<1>4. (k + 1) * Span = k * Span + Span
    BY <1>1, <1>2
<1>5. k + 1 <= Requests(a, b)
    <2>1. (k + 1) * Span <= b - a + Span - 1
        BY <1>1, <1>2, <1>4
    <2>2. k + 1 \in Nat
        BY <1>2
    <2> QED
        BY <1>1, <2>1, <2>2, DivBounds DEF Requests
<1>6. Requests(a, b) \in Nat
    BY <1>1, DivBounds DEF Requests
<1> HIDE DEF k, Requests
<1>7. k + 1 \in 1..Requests(a, b) /\ (k + 1) - 1 = k
    BY <1>2, <1>5, <1>6
<1>8. a + ((k + 1) - 1) * Span <= d /\ d < a + (k + 1) * Span
    BY <1>1, <1>2, <1>3, <1>4, <1>7
<1> QED
    BY <1>7, <1>8

LEMMA SmallerOf ==
    ASSUME NEW m \in Nat, NEW n \in Nat
    PROVE  /\ Smaller(m, n) \in Nat /\ Smaller(m, n) <= m /\ Smaller(m, n) <= n
           /\ \A d \in Nat : d <= m /\ d <= n => d <= Smaller(m, n)
           /\ \A d \in Nat : d < m /\ d < n => d < Smaller(m, n)
BY DEF Smaller

LEMMA DayOfTime ==
    ASSUME NEW a \in Nat, NEW b \in Nat, NEW at \in FirstOf(a)..(FirstOf(b) - 1)
    PROVE  at \in Nat /\ Day(at) \in Nat /\ a <= Day(at) /\ Day(at) < b
<1>1. FirstOf(a) \in Nat /\ FirstOf(b) \in Nat
    BY DayBounds
<1>2. at \in Nat /\ FirstOf(a) <= at /\ ~(FirstOf(b) <= at)
    BY <1>1
<1>3. Day(at) \in Nat
    BY <1>2, DayBounds
<1> QED
    BY <1>2, <1>3, DayBounds

Gapless(ws, a, b) ==
    \A at \in FirstOf(a)..(FirstOf(b) - 1) : \E i \in DOMAIN ws : at \in ws[i].from..ws[i].to

LEMMA UsgsHandWindows ==
    ASSUME NEW a \in Nat, NEW b \in Nat, a < b
    PROVE  /\ UsgsByHand(a, b) \in Seq(Windows) /\ Gapless(UsgsByHand(a, b), a, b)
           /\ \A i \in DOMAIN UsgsByHand(a, b) :
                  UsgsByHand(a, b)[i].from <= UsgsByHand(a, b)[i].to
<1> DEFINE n == Requests(a, b)
           S(i) == a + (i - 1) * Span
           E(i) == Smaller(a + i * Span, b)
<1>1. n \in Nat /\ Span \in Nat \ {0}
    BY RequestDays, WindowAssumption
<1>2. ASSUME NEW i \in 1..n
      PROVE  /\ S(i) \in Nat /\ E(i) \in Nat /\ S(i) <= E(i)
             /\ FirstOf(S(i)) \in Nat /\ FirstOf(E(i)) \in Nat /\ FirstOf(S(i)) <= FirstOf(E(i))
    <2>1. S(i) \in Nat /\ S(i) < b /\ a + i * Span \in Nat /\ a + i * Span = S(i) + Span
        BY RequestDays
    <2>2. S(i) <= a + i * Span
        BY <1>1, <2>1
    <2>3. E(i) \in Nat /\ S(i) <= E(i)
        BY <2>1, <2>2, SmallerOf
    <2> HIDE DEF S, E
    <2> QED
        BY <2>1, <2>3, DayBounds, DayOrder
<1>3. DOMAIN UsgsByHand(a, b) = 1..n
      /\ \A i \in 1..n : UsgsByHand(a, b)[i] = [from |-> FirstOf(S(i)), to |-> FirstOf(E(i))]
    BY DEF UsgsByHand
<1>4. ASSUME NEW at \in FirstOf(a)..(FirstOf(b) - 1)
      PROVE  \E i \in 1..n : at \in FirstOf(S(i))..FirstOf(E(i))
    <2>1. at \in Nat /\ Day(at) \in Nat /\ a <= Day(at) /\ Day(at) < b
        BY DayOfTime
    <2>2. PICK i \in 1..n : S(i) <= Day(at) /\ Day(at) < a + i * Span
        BY <2>1, RequestOfDay
    <2>3. Day(at) < E(i)
        <3>1. a + i * Span \in Nat
            BY RequestDays
        <3> QED
            BY <2>1, <2>2, <3>1, SmallerOf
    <2>4. FirstOf(S(i)) <= at /\ ~(FirstOf(E(i)) <= at)
        <3>1. S(i) \in Nat /\ E(i) \in Nat
            BY <1>2
        <3> HIDE DEF S, E
        <3>2. (FirstOf(S(i)) <= at <=> S(i) <= Day(at)) /\ (FirstOf(E(i)) <= at <=> E(i) <= Day(at))
            BY <2>1, <3>1, DayBounds
        <3> QED
            BY <2>1, <2>2, <2>3, <3>1, <3>2
    <2> HIDE DEF S, E, n
    <2> QED
        BY <1>2, <2>1, <2>4
<1>5. UsgsByHand(a, b) \in Seq(Windows)
    <2>1. UsgsByHand(a, b) \in [1..n -> Windows]
        BY <1>2, <1>3 DEF UsgsByHand, Windows
    <2> HIDE DEF n
    <2> QED
        BY <1>1, <2>1
<1> HIDE DEF S, E, n
<1>6. Gapless(UsgsByHand(a, b), a, b)
    BY <1>3, <1>4 DEF Gapless
<1> QED
    BY <1>2, <1>3, <1>5, <1>6

LEMMA GlideHandWindows ==
    ASSUME NEW a \in Nat, NEW b \in Nat, a < b
    PROVE  /\ GlideByHand(a, b) \in Seq(Windows) /\ Gapless(GlideByHand(a, b), a, b)
           /\ \A i \in DOMAIN GlideByHand(a, b) :
                  GlideByHand(a, b)[i].from <= GlideByHand(a, b)[i].to
<1> DEFINE n == Requests(a, b)
           S(i) == a + (i - 1) * Span
           E(i) == Smaller(a + i * Span - 1, b)
<1>1. n \in Nat /\ Span \in Nat \ {0}
    BY RequestDays, WindowAssumption
<1>2. ASSUME NEW i \in 1..n
      PROVE  /\ S(i) \in Nat /\ E(i) \in Nat /\ S(i) <= E(i)
             /\ FirstOf(S(i)) \in Nat /\ LastOf(E(i)) \in Nat /\ FirstOf(S(i)) <= LastOf(E(i))
    <2>1. S(i) \in Nat /\ S(i) < b /\ a + i * Span \in Nat /\ a + i * Span = S(i) + Span
        BY RequestDays
    <2>2. S(i) <= a + i * Span - 1 /\ a + i * Span - 1 \in Nat
        BY <1>1, <2>1
    <2>3. E(i) \in Nat /\ S(i) <= E(i)
        BY <2>1, <2>2, SmallerOf
    <2> HIDE DEF S, E
    <2>4. FirstOf(S(i)) <= FirstOf(E(i)) /\ FirstOf(S(i)) \in Nat
        BY <2>1, <2>3, DayBounds, DayOrder
    <2>5. FirstOf(E(i)) \in Nat /\ LastOf(E(i)) \in Nat /\ FirstOf(E(i)) <= LastOf(E(i))
        BY <2>3, DayBounds
    <2> QED
        BY <2>1, <2>3, <2>4, <2>5
<1>3. DOMAIN GlideByHand(a, b) = 1..n
      /\ \A i \in 1..n : GlideByHand(a, b)[i] = [from |-> FirstOf(S(i)), to |-> LastOf(E(i))]
    BY DEF GlideByHand
<1>4. ASSUME NEW at \in FirstOf(a)..(FirstOf(b) - 1)
      PROVE  \E i \in 1..n : at \in FirstOf(S(i))..LastOf(E(i))
    <2>1. at \in Nat /\ Day(at) \in Nat /\ a <= Day(at) /\ Day(at) < b
        BY DayOfTime
    <2>2. PICK i \in 1..n : S(i) <= Day(at) /\ Day(at) < a + i * Span
        BY <2>1, RequestOfDay
    <2>3. Day(at) <= E(i)
        <3> DEFINE m == a + i * Span
        <3>1. m \in Nat /\ Day(at) < m
            BY <2>2, RequestDays
        <3>2. E(i) = Smaller(m - 1, b)
            <4>1. i * Span \in Nat
                BY <1>1
            <4>2. a + (i * Span - 1) = m - 1
                BY <4>1
            <4> QED
                BY <4>2, Zenon
        <3> HIDE DEF m, S, E
        <3>3. m - 1 \in Nat /\ Day(at) <= m - 1
            BY <2>1, <3>1
        <3> QED
            BY <2>1, <3>2, <3>3, SmallerOf
    <2>4. FirstOf(S(i)) <= at /\ at <= LastOf(E(i))
        <3>1. S(i) \in Nat /\ E(i) \in Nat
            BY <1>2
        <3> HIDE DEF S, E
        <3>2. (FirstOf(S(i)) <= at <=> S(i) <= Day(at)) /\ (at <= LastOf(E(i)) <=> Day(at) <= E(i))
            BY <2>1, <3>1, DayBounds
        <3> QED
            BY <2>1, <2>2, <2>3, <3>1, <3>2
    <2> HIDE DEF S, E, n
    <2> QED
        BY <1>2, <2>1, <2>4
<1>5. GlideByHand(a, b) \in Seq(Windows)
    <2>1. GlideByHand(a, b) \in [1..n -> Windows]
        BY <1>2, <1>3 DEF GlideByHand, Windows
    <2> HIDE DEF n
    <2> QED
        BY <1>1, <2>1
<1> HIDE DEF S, E, n
<1>6. Gapless(GlideByHand(a, b), a, b)
    BY <1>3, <1>4 DEF Gapless
<1> QED
    BY <1>2, <1>3, <1>5, <1>6

LEMMA EmdatHandWindows ==
    ASSUME NEW a \in Nat, NEW b \in Nat, a < b
    PROVE  /\ EmdatByHand(a, b) \in Seq(Windows) /\ Gapless(EmdatByHand(a, b), a, b)
           /\ \A i \in DOMAIN EmdatByHand(a, b) :
                  /\ EmdatByHand(a, b)[i].from <= EmdatByHand(a, b)[i].to
                  /\ EmdatByHand(a, b)[i].from <= FirstOfYear(b \div Years)
<1> DEFINE first == a \div Years
           n == b \div Years - first + 1
<1>1. first \in Nat /\ b \div Years \in Nat /\ first <= b \div Years
    <2>1. Years \in Nat \ {0}
        BY WindowAssumption
    <2>2. first \in Nat /\ first * Years <= a /\ b \div Years \in Nat
        <3>1. first \in Nat /\ b \div Years \in Nat
            BY <2>1, DivBounds
        <3> QED
            BY <2>1, <3>1, DivBounds
    <2>3. first * Years \in Nat /\ first * Years <= b
        BY <2>1, <2>2
    <2> QED
        BY <2>1, <2>2, <2>3, DivBounds
<1>2. n \in Nat
    BY <1>1
<1>3. ASSUME NEW i \in 1..n
      PROVE  /\ first + i - 1 \in Nat /\ first + i = (first + i - 1) + 1
             /\ FirstOfYear(first + i - 1) \in Nat /\ FirstOfYear(first + i) - 1 \in Nat
             /\ FirstOfYear(first + i - 1) <= FirstOfYear(first + i) - 1
             /\ FirstOfYear(first + i - 1) <= FirstOfYear(b \div Years)
    <2> HIDE DEF first
    <2>1. first + i - 1 \in Nat /\ first + i = (first + i - 1) + 1 /\ first + i - 1 <= b \div Years
        BY <1>1
    <2>2. /\ FirstOfYear(first + i - 1) \in Nat
          /\ FirstOfYear(first + i - 1) < FirstOfYear((first + i - 1) + 1)
          /\ FirstOfYear(first + i - 1) <= FirstOfYear(b \div Years)
        BY <1>1, <2>1, YearOrder
    <2>3. first + i \in Nat
        BY <1>1
    <2>4. FirstOfYear(first + i) \in Nat
        BY <2>3, YearOrder
    <2> QED
        BY <2>1, <2>2, <2>4
<1>4. DOMAIN EmdatByHand(a, b) = 1..n
      /\ \A i \in 1..n : EmdatByHand(a, b)[i] =
            [from |-> FirstOfYear(first + i - 1), to |-> FirstOfYear(first + i) - 1]
    BY DEF EmdatByHand
<1>5. ASSUME NEW at \in FirstOf(a)..(FirstOf(b) - 1)
      PROVE  \E i \in 1..n : at \in FirstOfYear(first + i - 1)..(FirstOfYear(first + i) - 1)
    <2>1. at \in Nat /\ Day(at) \in Nat /\ a <= Day(at) /\ Day(at) < b
        BY DayOfTime
    <2> DEFINE y == Year(at)
    <2>2. y \in Nat /\ first <= y /\ y <= b \div Years
        <3>1. Years \in Nat \ {0}
            BY WindowAssumption
        <3>2. y \in Nat
            BY <2>1, YearBounds
        <3>3. first * Years \in Nat /\ first * Years <= a
            BY <1>1, <3>1, DivBounds
        <3>4. first * Years <= Day(at)
            BY <2>1, <3>3
        <3>5. first <= y
            BY <1>1, <2>1, <3>1, <3>4, DivBounds DEF Year
        <3>6. y * Years \in Nat /\ y * Years <= Day(at)
            BY <2>1, <3>1, <3>2, DivBounds DEF Year
        <3>7. y * Years <= b
            BY <2>1, <3>6
        <3> HIDE DEF y
        <3>8. y <= b \div Years
            BY <3>1, <3>2, <3>7, DivBounds
        <3> QED
            BY <3>2, <3>5, <3>8
    <2>3. FirstOfYear(y) \in Nat /\ FirstOfYear(y + 1) \in Nat
          /\ FirstOfYear(y) <= at /\ ~(FirstOfYear(y + 1) <= at)
        <3>1. y + 1 \in Nat /\ ~(y + 1 <= y)
            BY <2>2
        <3> QED
            BY <2>1, <2>2, <3>1, YearBounds
    <2> HIDE DEF first, y
    <2>4. y - first + 1 \in 1..n /\ first + (y - first + 1) - 1 = y /\ first + (y - first + 1) = y + 1
        BY <1>1, <2>2
    <2>5. at \in FirstOfYear(y)..(FirstOfYear(y + 1) - 1)
        BY <2>1, <2>3
    <2> QED
        BY <2>4, <2>5
<1>6. EmdatByHand(a, b) \in Seq(Windows)
    <2>1. \A i \in 1..n :
              [from |-> FirstOfYear(first + i - 1), to |-> FirstOfYear(first + i) - 1] \in Windows
        BY <1>3 DEF Windows
    <2>2. EmdatByHand(a, b) \in [1..n -> Windows]
        BY <2>1 DEF EmdatByHand
    <2> HIDE DEF n
    <2> QED
        BY <1>2, <2>2
<1> HIDE DEF first, n
<1>7. Gapless(EmdatByHand(a, b), a, b)
    BY <1>4, <1>5 DEF Gapless
<1> QED
    BY <1>3, <1>4, <1>6, <1>7

LEMMA HandWindows ==
    ASSUME Typed, job # "GDACS", NEW a \in 0..Today, NEW b \in 0..Today, a < b
    PROVE  /\ WindowsByHand(a, b) \in Seq(Windows) /\ Gapless(WindowsByHand(a, b), a, b)
           /\ \A i \in DOMAIN WindowsByHand(a, b) : WindowOK(WindowsByHand(a, b)[i])
<1>1. a \in Nat /\ b \in Nat /\ b <= Today
    BY Clock
<1>2. /\ FirstOf(a) \in Nat /\ FirstOf(b) \in Nat
      /\ FirstOf(a) <= FirstOf(b) - 1 /\ FirstOf(b) - 1 \in Nat
      /\ FirstOf(b) <= FirstOf(Today)
    <2>1. FirstOf(a) \in Nat /\ LastOf(a) \in Nat /\ FirstOf(a) <= LastOf(a) /\ FirstOf(b) \in Nat
        BY <1>1, DayBounds
    <2>2. LastOf(a) < FirstOf(b) /\ FirstOf(b) <= FirstOf(Today)
        BY <1>1, Clock, DayOrder
    <2> QED
        BY <2>1, <2>2
<1>3. job \in {"USGS", "GLIDE", "PDC", "IFRC", "EMDAT"}
    BY WindowAssumption DEF Typed, JobNames
<1>4. CASE job = "USGS"
    <2>1. /\ UsgsByHand(a, b) \in Seq(Windows) /\ Gapless(UsgsByHand(a, b), a, b)
          /\ \A i \in DOMAIN UsgsByHand(a, b) :
                 UsgsByHand(a, b)[i].from <= UsgsByHand(a, b)[i].to
        BY <1>1, UsgsHandWindows
    <2>2. \A i \in DOMAIN UsgsByHand(a, b) : UsgsByHand(a, b)[i] \in Windows
        BY <2>1
    <2>3. \A i \in DOMAIN UsgsByHand(a, b) : WindowOK(UsgsByHand(a, b)[i])
        BY <1>4, <2>1, <2>2 DEF WindowOK, Windows
    <2> QED
        BY <1>4, <2>1, <2>3 DEF WindowsByHand
<1>5. CASE job = "GLIDE"
    <2>1. /\ GlideByHand(a, b) \in Seq(Windows) /\ Gapless(GlideByHand(a, b), a, b)
          /\ \A i \in DOMAIN GlideByHand(a, b) :
                 GlideByHand(a, b)[i].from <= GlideByHand(a, b)[i].to
        BY <1>1, GlideHandWindows
    <2>2. \A i \in DOMAIN GlideByHand(a, b) : GlideByHand(a, b)[i] \in Windows
        BY <2>1
    <2>3. \A i \in DOMAIN GlideByHand(a, b) : WindowOK(GlideByHand(a, b)[i])
        BY <1>5, <2>1, <2>2 DEF WindowOK, Windows
    <2> QED
        BY <1>5, <2>1, <2>3 DEF WindowsByHand
<1>6. CASE job = "PDC"
    <2> DEFINE w == [from |-> FirstOf(a), to |-> FirstOf(b) - 1]
    <2>1. WindowOK(w)
        BY <1>2, <1>6, Clock DEF WindowOK, Windows
    <2>2. <<w>> \in Seq(Windows) /\ \A i \in DOMAIN <<w>> : i = 1
        BY <2>1 DEF WindowOK
    <2>3. Gapless(<<w>>, a, b)
        BY DEF Gapless
    <2> QED
        BY <1>6, <2>1, <2>2, <2>3 DEF WindowsByHand, PdcByHand
<1>7. CASE job = "IFRC"
    <2> DEFINE w == [from |-> FirstOf(a), to |-> FirstOf(b)]
    <2>1. WindowOK(w)
        BY <1>2, <1>7, Clock DEF WindowOK, Windows
    <2>2. <<w>> \in Seq(Windows) /\ \A i \in DOMAIN <<w>> : i = 1
        BY <2>1 DEF WindowOK
    <2>3. Gapless(<<w>>, a, b)
        BY <1>2 DEF Gapless
    <2> QED
        BY <1>7, <2>1, <2>2, <2>3 DEF WindowsByHand, IfrcByHand
<1>8. CASE job = "EMDAT"
    <2>1. /\ EmdatByHand(a, b) \in Seq(Windows) /\ Gapless(EmdatByHand(a, b), a, b)
          /\ \A i \in DOMAIN EmdatByHand(a, b) :
                  /\ EmdatByHand(a, b)[i].from <= EmdatByHand(a, b)[i].to
                  /\ EmdatByHand(a, b)[i].from <= FirstOfYear(b \div Years)
        BY <1>1, EmdatHandWindows
    <2>2. FirstOfYear(b \div Years) <= FirstOfYear(Year(now)) /\ FirstOfYear(b \div Years) \in Nat
        <3>1. Years \in Nat \ {0}
            BY WindowAssumption
        <3>2. b \div Years \in Nat
            BY <1>1, <3>1, DivBounds
        <3>3. (b \div Years) * Years \in Nat /\ (b \div Years) * Years <= b
            BY <1>1, <3>1, <3>2, DivBounds
        <3>4. (b \div Years) * Years <= Today
            BY <1>1, <3>3, Clock
        <3>5. b \div Years <= Today \div Years
            BY <3>1, <3>2, <3>4, Clock, DivBounds
        <3> QED
            BY <3>2, <3>5, Clock, YearOrder DEF Year, Today
    <2>3. FirstOfYear(Year(now)) \in Nat
        BY Clock, YearOrder
    <2>4. \A i \in DOMAIN EmdatByHand(a, b) : EmdatByHand(a, b)[i] \in Windows
        BY <2>1
    <2>5. \A i \in DOMAIN EmdatByHand(a, b) : WindowOK(EmdatByHand(a, b)[i])
        BY <1>8, <2>1, <2>2, <2>3, <2>4 DEF WindowOK, Windows
    <2> QED
        BY <1>8, <2>1, <2>5 DEF WindowsByHand
<1> QED
    BY <1>3, <1>4, <1>5, <1>6, <1>7, <1>8

-----------------------------------------------------------------------------
(* The loops of a dive.                                                     *)

LEMMA FiniteWorld ==
    ASSUME Typed
    PROVE  /\ IsFiniteSet(world) /\ \A e \in world : e.at \in Nat
           /\ \A e \in world : e.level \in NamesIn(Levels) /\ e.country \in NamesIn(Countries)
           /\ \A q : Visible(q) \in SUBSET world /\ IsFiniteSet(Visible(q))
                     /\ Cardinality(Visible(q)) \in Nat
<1>1. IsFiniteSet(world) /\ AskedFor(world)
    BY WindowAssumption DEF Typed
<1>2. \A q : Visible(q) \in SUBSET world
    BY DEF Visible
<1>3. \A q : IsFiniteSet(Visible(q)) /\ Cardinality(Visible(q)) \in Nat
    <2> TAKE q
    <2> QED
        BY <1>1, <1>2, FS_Subset, FS_CardinalityType
<1> QED
    BY <1>1, <1>2, <1>3 DEF AskedFor

LEMMA HalfOf ==
    ASSUME NEW n \in Nat \ {0}
    PROVE  Half(n) \in Nat \ {0}
BY DEF Half

LEMMA EndOfWindow ==
    ASSUME NEW f \in Loops, LoopOK(f)
    PROVE  /\ f.from \in Nat /\ f.to \in Nat /\ f.num \in Nat \ {0}
           /\ WindowEnd(f) \in Nat /\ f.from <= WindowEnd(f) /\ WindowEnd(f) <= f.to
           /\ WindowEnd(f) < f.from + f.num
           /\ f.from + f.num <= f.to => WindowEnd(f) = f.from + f.num - 1
           /\ f.from + f.num > f.to => WindowEnd(f) = f.to
<1>1. f.from \in Nat /\ f.to \in Nat /\ f.num \in Nat \ {0} /\ f.from <= f.to
    BY DEF Loops, LoopOK
<1> QED
    BY <1>1 DEF WindowEnd, Smaller

LEMMA AskTyped ==
    ASSUME NEW f \in Loops, LoopOK(f)
    PROVE  AskOf(f) \in Asks /\ AskOf(f).from <= AskOf(f).to
<1>1. f.from \in Nat /\ WindowEnd(f) \in Nat /\ f.from <= WindowEnd(f)
    BY EndOfWindow
<1>2. /\ FirstOf(f.from) \in Nat /\ LastOf(WindowEnd(f)) \in Nat
      /\ FirstOf(f.from) <= LastOf(WindowEnd(f))
    <2>1. FirstOf(f.from) \in Nat /\ LastOf(f.from) \in Nat /\ LastOf(WindowEnd(f)) \in Nat
          /\ FirstOf(f.from) <= LastOf(f.from)
        BY <1>1, DayBounds
    <2>2. LastOf(f.from) <= LastOf(WindowEnd(f))
        BY <1>1, DayOrder
    <2> QED
        BY <2>1, <2>2
<1>3. f.level \in LevelNames /\ f.country \in CountryNames
    BY DEF Loops
<1> QED
    BY <1>2, <1>3 DEF AskOf, Region, Asks

LEMMA RestTyped ==
    ASSUME NEW f \in Loops, LoopOK(f)
    PROVE  /\ RestOf(f) \in Seq(Loops)
           /\ \A i \in DOMAIN RestOf(f) :
                  /\ RestOf(f)[i] = [f EXCEPT !.from = f.from + f.num] /\ f.from + f.num <= f.to
                  /\ RestOf(f)[i] \in Loops /\ LoopOK(RestOf(f)[i])
<1> DEFINE g == [f EXCEPT !.from = f.from + f.num]
<1>1. f.from \in Nat /\ f.to \in Nat /\ f.num \in Nat \ {0}
    BY EndOfWindow
<1>2. CASE f.from + f.num > f.to
    <2>1. RestOf(f) = <<>>
        BY <1>2 DEF RestOf
    <2> QED
        BY <2>1
<1>3. CASE ~(f.from + f.num > f.to)
    <2>1. RestOf(f) = <<g>>
        BY <1>3 DEF RestOf
    <2>2. g \in Loops
        BY <1>1 DEF Loops
    <2>3. LoopOK(g)
        BY <1>1, <1>3 DEF Loops, LoopOK
    <2> HIDE DEF g
    <2>4. RestOf(f) \in Seq(Loops) /\ \A i \in DOMAIN RestOf(f) : RestOf(f)[i] = g
        BY <2>1, <2>2
    <2> QED
        BY <1>1, <1>3, <2>2, <2>3, <2>4 DEF g
<1> QED
    BY <1>2, <1>3

LEMMA SingleTyped ==
    ASSUME NEW f \in Loops, LoopOK(f), NEW level \in LevelNames \ {"any"}, NEW country \in CountryNames
    PROVE  Single(f, level, country) \in Loops /\ LoopOK(Single(f, level, country))
<1>1. f.from \in Nat
    BY DEF Loops
<1> DEFINE g == [f EXCEPT !.to = f.from]
           h == [g EXCEPT !.num = 1]
           k == [h EXCEPT !.level = level]
           l == [k EXCEPT !.country = country]
<1>2. g \in Loops /\ g.from = f.from /\ g.to = f.from
    BY <1>1 DEF Loops
<1> HIDE DEF g
<1>3. h \in Loops /\ h.from = f.from /\ h.to = f.from
    BY <1>2 DEF Loops
<1> HIDE DEF h
<1>4. k \in Loops /\ k.from = f.from /\ k.to = f.from /\ k.level = level
    BY <1>3 DEF Loops
<1> HIDE DEF k
<1>5. l \in Loops /\ l.from = f.from /\ l.to = f.from /\ l.level = level
    BY <1>4 DEF Loops
<1>6. Single(f, level, country) = l
    BY DEF Single, g, h, k
<1> QED
    BY <1>1, <1>5, <1>6 DEF LoopOK

LEMMA SplitTyped ==
    ASSUME NEW f \in Loops, LoopOK(f)
    PROVE  Split(f) \in Seq(Loops) /\ \A i \in DOMAIN Split(f) : LoopOK(Split(f)[i])
<1>1. f.from \in Nat /\ WindowEnd(f) \in Nat /\ f.num \in Nat \ {0} /\ f.from <= WindowEnd(f)
    BY EndOfWindow
<1>2. CASE f.from < WindowEnd(f)
    <2> DEFINE g == Dive(f.from, WindowEnd(f), Half(f.num))
    <2>1. Split(f) = <<g>>
        BY <1>1, <1>2 DEF Split
    <2>2. g \in Loops /\ LoopOK(g)
        BY <1>1, HalfOf DEF Dive, Loops, LevelNames, CountryNames, LoopOK
    <2> HIDE DEF g
    <2> QED
        BY <2>1, <2>2
<1>3. CASE f.from = WindowEnd(f) /\ f.level = "any"
    <2>1. Split(f) = [i \in DOMAIN Levels |-> Single(f, Levels[i], "any")]
        BY <1>1, <1>3 DEF Split
    <2>2. Len(Levels) \in Nat /\ DOMAIN Levels = 1..Len(Levels)
        BY DiveAssumption DEF IsList
    <2>3. \A i \in DOMAIN Levels : Levels[i] \in LevelNames \ {"any"} /\ "any" \in CountryNames
        BY DiveAssumption DEF IsList, NamesIn, LevelNames, CountryNames
    <2>4. \A i \in DOMAIN Levels :
              Single(f, Levels[i], "any") \in Loops /\ LoopOK(Single(f, Levels[i], "any"))
        BY <2>3, SingleTyped
    <2>5. Split(f) \in [1..Len(Levels) -> Loops]
        BY <2>1, <2>2, <2>4
    <2>6. Split(f) \in Seq(Loops)
        BY <2>2, <2>5
    <2> QED
        BY <2>1, <2>4, <2>6
<1>4. CASE f.from = WindowEnd(f) /\ f.level # "any" /\ f.country = "any"
    <2>1. Split(f) = [i \in DOMAIN Countries |-> Single(f, f.level, Countries[i])]
        BY <1>1, <1>4 DEF Split
    <2>2. Len(Countries) \in Nat /\ DOMAIN Countries = 1..Len(Countries)
        BY DiveAssumption DEF IsList
    <2>3. \A i \in DOMAIN Countries : Countries[i] \in CountryNames
        BY DEF NamesIn, CountryNames
    <2>4. f.level \in LevelNames \ {"any"}
        BY <1>4 DEF Loops
    <2>5. \A i \in DOMAIN Countries :
              Single(f, f.level, Countries[i]) \in Loops /\ LoopOK(Single(f, f.level, Countries[i]))
        BY <2>3, <2>4, SingleTyped
    <2>6. Split(f) \in [1..Len(Countries) -> Loops]
        BY <2>1, <2>2, <2>5
    <2>7. Split(f) \in Seq(Loops)
        BY <2>2, <2>6
    <2> QED
        BY <2>1, <2>5, <2>7
<1>5. CASE f.from = WindowEnd(f) /\ f.level # "any" /\ f.country # "any"
    <2>1. Split(f) = <<>>
        BY <1>1, <1>5 DEF Split
    <2> QED
        BY <2>1
<1> QED
    BY <1>1, <1>2, <1>3, <1>4, <1>5

\* The first loop and the others.
LEMMA HeadOfTodo ==
    ASSUME Typed, todo # <<>>
    PROVE  /\ Head(todo) \in Loops /\ LoopOK(Head(todo)) /\ Head(todo) = todo[1] /\ 1 \in DOMAIN todo
           /\ Tail(todo) \in Seq(Loops)
           /\ \A i \in DOMAIN Tail(todo) : i + 1 \in DOMAIN todo /\ Tail(todo)[i] = todo[i + 1]
           /\ job = "GDACS"
<1>1. todo \in Seq(Loops) /\ job = "GDACS" /\ \A i \in DOMAIN todo : LoopOK(todo[i])
    BY DEF Typed
<1>2. 1 \in DOMAIN todo /\ Head(todo) = todo[1] /\ Head(todo) \in Loops
    BY <1>1
<1>3. Tail(todo) \in Seq(Loops)
    BY <1>1
<1>4. \A i \in DOMAIN Tail(todo) : i + 1 \in DOMAIN todo /\ Tail(todo)[i] = todo[i + 1]
    BY <1>1
<1> QED
    BY <1>1, <1>2, <1>3, <1>4

\* A loop of the first, second or third part of the new list.
LEMMA ThreeParts ==
    ASSUME NEW S, NEW s \in Seq(S), NEW t \in Seq(S), NEW u \in Seq(S)
    PROVE  /\ s \o t \o u \in Seq(S)
           /\ \A i \in DOMAIN (s \o t \o u) :
                  \/ i \in DOMAIN s /\ (s \o t \o u)[i] = s[i]
                  \/ i - Len(s) \in DOMAIN t /\ (s \o t \o u)[i] = t[i - Len(s)]
                  \/ /\ i - (Len(s) + Len(t)) \in DOMAIN u
                     /\ (s \o t \o u)[i] = u[i - (Len(s) + Len(t))]
<1> DEFINE st == s \o t
<1>1. /\ st \in Seq(S) /\ Len(st) = Len(s) + Len(t)
      /\ Len(s) \in Nat /\ Len(t) \in Nat
      /\ DOMAIN st = 1..(Len(s) + Len(t))
      /\ \A i \in DOMAIN s : i \in DOMAIN st /\ st[i] = s[i]
      /\ \A i \in DOMAIN t : Len(s) + i \in DOMAIN st /\ st[Len(s) + i] = t[i]
      /\ \A i \in DOMAIN st :
             \/ i \in DOMAIN s
             \/ i - Len(s) \in DOMAIN t /\ st[i] = t[i - Len(s)]
    BY Joined
<1> HIDE DEF st
<1>2. st \in Seq(S)
    BY <1>1
<1>3. /\ st \o u \in Seq(S)
      /\ \A i \in DOMAIN st : i \in DOMAIN (st \o u) /\ (st \o u)[i] = st[i]
      /\ \A i \in DOMAIN u : Len(st) + i \in DOMAIN (st \o u) /\ (st \o u)[Len(st) + i] = u[i]
      /\ \A i \in DOMAIN (st \o u) :
             \/ i \in DOMAIN st
             \/ i - Len(st) \in DOMAIN u /\ (st \o u)[i] = u[i - Len(st)]
    BY <1>2, Joined
<1>4. /\ st \o u \in Seq(S)
      /\ \A i \in DOMAIN (st \o u) :
             \/ i \in DOMAIN s /\ (st \o u)[i] = s[i]
             \/ i - Len(s) \in DOMAIN t /\ (st \o u)[i] = t[i - Len(s)]
             \/ /\ i - (Len(s) + Len(t)) \in DOMAIN u
                /\ (st \o u)[i] = u[i - (Len(s) + Len(t))]
    BY <1>1, <1>3, Zenon
<1> QED
    BY <1>4 DEF st

-----------------------------------------------------------------------------
(* Every state has the type: Schedule and RunByHand add rows, Run, RunFails     *)
(* and RunAgain change one, and a dive takes the first loop of its list and      *)
(* puts the rest of it, or what it is split into, back.                          *)

LEMMA MoreRows ==
    ASSUME Typed, NEW ws \in Seq(Windows), \A i \in DOMAIN ws : WindowOK(ws[i]),
           rows' = rows \o Queries(ws), UNCHANGED <<world, now, job>>
    PROVE  /\ (rows \in Seq(RowSet))' /\ DOMAIN rows \subseteq DOMAIN rows'
           /\ \A r \in DOMAIN rows : rows'[r] = rows[r]
           /\ \A r \in DOMAIN rows' :
                  \/ r \in DOMAIN rows
                  \/ r - Len(rows) \in DOMAIN Queries(ws) /\ rows'[r] = Queries(ws)[r - Len(rows)]
           /\ \A n \in DOMAIN Queries(ws) :
                  Len(rows) + n \in DOMAIN rows' /\ rows'[Len(rows) + n] = Queries(ws)[n]
           /\ (\A r \in DOMAIN rows : RowOK(rows[r]))'
           /\ DOMAIN rows = 1..Len(rows) /\ DOMAIN rows' = 1..Len(rows') /\ Len(rows) \in Nat
           /\ Len(rows') \in Nat
<1>1. rows \in Seq(RowSet) /\ Queries(ws) \in Seq(RowSet)
    BY RowsOfWindows DEF Typed
<1>2. /\ rows' \in Seq(RowSet) /\ Len(rows) \in Nat
      /\ DOMAIN rows = 1..Len(rows) /\ DOMAIN rows' = 1..Len(rows') /\ Len(rows') \in Nat
    BY <1>1
<1>3. RowSet' = RowSet /\ \A row : RowOK(row)' <=> RowOK(row)
    BY DEF RowSet, RowOK
<1>4. /\ \A i \in DOMAIN rows : i \in DOMAIN rows' /\ rows'[i] = rows[i]
      /\ \A i \in DOMAIN Queries(ws) :
             Len(rows) + i \in DOMAIN rows' /\ rows'[Len(rows) + i] = Queries(ws)[i]
      /\ \A i \in DOMAIN rows' :
             \/ i \in DOMAIN rows
             \/ i - Len(rows) \in DOMAIN Queries(ws) /\ rows'[i] = Queries(ws)[i - Len(rows)]
    BY <1>1, Joined
<1>5. \A r \in DOMAIN rows' : RowOK(rows'[r])
    <2> TAKE r \in DOMAIN rows'
    <2>1. CASE r \in DOMAIN rows
        BY <1>4, <2>1, RowTyped
    <2>2. CASE r - Len(rows) \in DOMAIN Queries(ws) /\ rows'[r] = Queries(ws)[r - Len(rows)]
        BY <2>2, FreshRowsOK
    <2> QED
        BY <1>4, <2>1, <2>2
<1> QED
    BY <1>2, <1>3, <1>4, <1>5

\* One row is changed, in what may be changed of it.
LEMMA ChangedRow ==
    ASSUME Typed, NEW r \in DOMAIN rows, NEW row \in RowSet, rows' = [rows EXCEPT ![r] = row],
           row.ask = rows[r].ask, row.created = rows[r].created,
           row.created <= row.child, row.child <= now,
           job \notin Nested \/ row.status # "SUCCESS" => row.child = row.created,
           UNCHANGED <<world, now, job>>
    PROVE  /\ (rows \in Seq(RowSet))' /\ DOMAIN rows' = DOMAIN rows /\ Len(rows') = Len(rows)
           /\ \A o \in DOMAIN rows : rows'[o] = IF o = r THEN row ELSE rows[o]
           /\ \A o \in DOMAIN rows :
                  rows'[o].ask = rows[o].ask /\ rows'[o].created = rows[o].created
           /\ (\A o \in DOMAIN rows : RowOK(rows[o]))'
<1>1. rows \in Seq(RowSet) /\ RowSet' = RowSet
    BY DEF Typed, RowSet
<1>2. rows' \in Seq(RowSet) /\ DOMAIN rows' = DOMAIN rows /\ Len(rows') = Len(rows)
      /\ \A o \in DOMAIN rows : rows'[o] = IF o = r THEN row ELSE rows[o]
    BY <1>1
<1>3. RowOK(row)
    BY RowTyped DEF RowOK
<1>4. \A x : RowOK(x)' <=> RowOK(x)
    BY DEF RowOK
<1>5. \A o \in DOMAIN rows : RowOK(rows[o])
    BY RowTyped
<1> QED
    BY <1>1, <1>2, <1>3, <1>4, <1>5

Gots == SUBSET world
After(x, status, got, child) == [x EXCEPT !.status = status, !.got = got, !.child = child]

LEMMA RowExcept ==
    ASSUME NEW x \in RowSet, NEW status \in Statuses, NEW got \in Gots, NEW child \in Nat,
           NEW y, y = After(x, status, got, child)
    PROVE  /\ y \in RowSet /\ y.ask = x.ask /\ y.created = x.created
           /\ y.status = status /\ y.got = got /\ y.child = child
<1> DEFINE y1 == [x EXCEPT !.status = status]
           y2 == [y1 EXCEPT !.got = got]
           y3 == [y2 EXCEPT !.child = child]
<1>1. y1 \in RowSet /\ y1.ask = x.ask /\ y1.created = x.created /\ y1.status = status
    BY DEF RowSet
<1> HIDE DEF y1
<1>2. y2 \in RowSet /\ y2.ask = x.ask /\ y2.created = x.created /\ y2.status = status /\ y2.got = got
    BY <1>1 DEF RowSet, Gots
<1> HIDE DEF y2
<1>3. /\ y3 \in RowSet /\ y3.ask = x.ask /\ y3.created = x.created
      /\ y3.status = status /\ y3.got = got /\ y3.child = child
    BY <1>2 DEF RowSet
<1>4. y = y3
    BY DEF After, y1, y2
<1> QED
    BY <1>3, <1>4

LEMMA StatusExcept ==
    ASSUME NEW x \in RowSet, NEW status \in Statuses, NEW y, y = [x EXCEPT !.status = status]
    PROVE  /\ y \in RowSet /\ y.ask = x.ask /\ y.created = x.created
           /\ y.status = status /\ y.got = x.got /\ y.child = x.child
BY DEF RowSet

\* What Run does to its row: the child, if there is a newer one, is of now.
LEMMA RunRow ==
    ASSUME Typed, NEW r \in DOMAIN rows, Run(r)
    PROVE  \E row \in RowSet :
               /\ rows' = [rows EXCEPT ![r] = row] /\ row.status = "SUCCESS"
               /\ row.ask = rows[r].ask /\ row.created = rows[r].created
               /\ row.created <= row.child /\ row.child <= now
               /\ job \notin Nested => row.child = row.created
               /\ \/ row.got = Visible(row.ask) /\ missed \subseteq missed'
                  \/ row.ask \in missed' /\ missed \subseteq missed' /\ row.got \subseteq Visible(row.ask)
<1> DEFINE there == Visible(rows[r].ask)
           cut == job = "GDACS" /\ Cardinality(there) > Limit
<1>0. PICK got \in IF cut THEN {S \in SUBSET there : Cardinality(S) = Limit} ELSE {there} :
          \E child \in IF job \in Nested /\ got # {} THEN {rows[r].child, now} ELSE {rows[r].child} :
             rows' = [rows EXCEPT ![r].status = "SUCCESS", ![r].got = got, ![r].child = child]
    BY DEF Run
<1>1. PICK child \in IF job \in Nested /\ got # {} THEN {rows[r].child, now} ELSE {rows[r].child} :
          rows' = [rows EXCEPT ![r].status = "SUCCESS", ![r].got = got, ![r].child = child]
    BY <1>0
<1>2. missed' = IF cut THEN missed \cup {rows[r].ask} ELSE missed
    BY DEF Run
<1>3. /\ rows[r] \in RowSet /\ rows[r].child \in Nat /\ rows[r].created \in Nat
      /\ RowOK(rows[r])
    BY RowTyped
<1>4. rows[r].status = "PENDING"
    BY DEF Run
<1>5. got \in SUBSET there /\ (~cut => got = there)
    BY <1>0
<1>6. got \in SUBSET world
    BY <1>5 DEF Visible
<1>7. child \in Nat /\ child \in {rows[r].child, now}
    BY <1>1, <1>3, Clock
<1>13. PICK row : row = After(rows[r], "SUCCESS", got, child)
    OBVIOUS
<1>8. /\ row \in RowSet /\ row.ask = rows[r].ask /\ row.created = rows[r].created
      /\ row.status = "SUCCESS" /\ row.got = got /\ row.child = child
    <2>1. "SUCCESS" \in Statuses
        BY DEF Statuses
    <2>2. rows[r] \in RowSet /\ child \in Nat /\ got \in Gots
        BY <1>3, <1>6, <1>7 DEF Gots
    <2> QED
        BY <1>13, <2>1, <2>2, RowExcept
<1>9. rows' = [rows EXCEPT ![r] = row]
    BY <1>1, <1>13 DEF After
<1>10. /\ row.created <= row.child /\ row.child <= now
    BY <1>3, <1>7, <1>8, Clock DEF RowOK
<1>11. job \notin Nested => row.child = row.created
    BY <1>1, <1>3, <1>8 DEF RowOK
<1>12. \/ row.got = Visible(row.ask) /\ missed \subseteq missed'
       \/ row.ask \in missed' /\ missed \subseteq missed' /\ row.got \subseteq Visible(row.ask)
    BY <1>2, <1>5, <1>8
<1> QED
    BY <1>8, <1>9, <1>10, <1>11, <1>12

LEMMA RunOther ==
    ASSUME Typed, NEW r \in DOMAIN rows, RunFails(r) \/ RunAgain(r)
    PROVE  \E row \in RowSet :
               /\ rows' = [rows EXCEPT ![r] = row]
               /\ row.status # "SUCCESS" /\ rows[r].status # "SUCCESS"
               /\ row.ask = rows[r].ask /\ row.created = rows[r].created
               /\ row.child = row.created /\ row.child <= now
<1>1. PICK status \in {"PENDING", "FAILED"} : rows' = [rows EXCEPT ![r].status = status]
    BY DEF RunFails, RunAgain
<1>2. rows[r].status \in {"PENDING", "FAILED"}
    BY DEF RunFails, RunAgain
<1>3. rows[r] \in RowSet /\ RowOK(rows[r])
    BY RowTyped
<1>6. PICK row : row = [rows[r] EXCEPT !.status = status]
    OBVIOUS
<1>4. /\ row \in RowSet /\ row.ask = rows[r].ask /\ row.created = rows[r].created
      /\ row.status = status /\ row.child = rows[r].child
    <2>1. status \in Statuses
        BY DEF Statuses
    <2> QED
        BY <1>3, <1>6, <2>1, StatusExcept
<1>5. rows' = [rows EXCEPT ![r] = row]
    BY <1>1, <1>6
<1> QED
    BY <1>1, <1>2, <1>3, <1>4, <1>5 DEF RowOK

LEMMA TypedInit ==
    ASSUME Init
    PROVE  Typed
<1>1. MaxTime \in Nat
    BY WindowAssumption
<1>2. job \in Jobs /\ world \in Worlds[job] /\ now \in 0..MaxTime /\ last \in 0..Never
    BY <1>1 DEF Init, Never
<1>3. faults \in 0..MaxFaults
    BY DiveAssumption DEF Init
<1>4. rows = <<>> /\ todo = <<>> /\ cache = <<>> /\ byHand = {}
    BY DEF Init
<1> QED
    BY <1>2, <1>3, <1>4 DEF Typed

LEMMA TypedSchedule ==
    ASSUME Typed, Schedule
    PROVE  Typed'
<1>1. UNCHANGED <<world, now, cache, faults, job, byHand>> /\ last' = now
    BY DEF Schedule
<1>2. last' \in 0..Never
    BY <1>1, WindowAssumption DEF Never, Typed
<1>3. CASE job = "GDACS" /\ todo' = <<Dive(StartDay, Today, Size)>> /\ UNCHANGED rows
    <2> DEFINE f == Dive(StartDay, Today, Size)
    <2>1. f \in Loops /\ LoopOK(f)
        BY StartOfWindow, Clock, WindowAssumption
           DEF Dive, Loops, LoopOK, LevelNames, CountryNames
    <2> HIDE DEF f
    <2>2. todo' \in Seq(Loops) /\ \A i \in DOMAIN todo' : LoopOK(todo'[i])
        BY <1>3, <2>1 DEF f
    <2>3. /\ RowSet' = RowSet /\ \A row : RowOK(row)' <=> RowOK(row)
        BY <1>1 DEF RowSet, RowOK
    <2>4. \A g : LoopOK(g)' <=> LoopOK(g)
        BY DEF LoopOK
    <2> QED
        BY <1>1, <1>2, <1>3, <2>2, <2>3 DEF Typed
<1>4. CASE job # "GDACS" /\ rows' = rows \o Queries(<<Window>>) /\ UNCHANGED todo
    <2>1. WindowOK(Window) /\ <<Window>> \in Seq(Windows) /\ \A i \in DOMAIN <<Window>> : i = 1
        <3>1. WindowOK(Window)
            BY <1>4, DailyWindow
        <3>2. Window \in Windows
            BY <3>1 DEF WindowOK
        <3> HIDE DEF Window
        <3> QED
            BY <3>1, <3>2
    <2>2. \A i \in DOMAIN <<Window>> : WindowOK(<<Window>>[i])
        BY <2>1
    <2>3. /\ (rows \in Seq(RowSet))' /\ DOMAIN rows \subseteq DOMAIN rows'
          /\ (\A r \in DOMAIN rows : RowOK(rows[r]))'
        BY <1>1, <1>4, <2>1, <2>2, MoreRows
    <2> QED
        BY <1>1, <1>2, <1>4, <2>3 DEF Typed
<1> QED
    BY <1>3, <1>4 DEF Schedule

LEMMA TypedByHand ==
    ASSUME Typed, NEW a \in 0..Today, NEW b \in 0..Today, RunByHand(a, b)
    PROVE  Typed'
<1>1. /\ UNCHANGED <<world, now, todo, cache, job, last>> /\ job # "GDACS" /\ a < b
      /\ faults < MaxFaults /\ faults' = faults + 1
      /\ rows' = rows \o Queries(WindowsByHand(a, b))
      /\ byHand' = byHand \cup ((Len(rows) + 1)..Len(rows'))
    BY DEF RunByHand
<1>2. faults' \in 0..MaxFaults
    BY <1>1, DiveAssumption DEF Typed
<1>3. /\ WindowsByHand(a, b) \in Seq(Windows)
      /\ \A i \in DOMAIN WindowsByHand(a, b) : WindowOK(WindowsByHand(a, b)[i])
    BY <1>1, HandWindows
<1>4. /\ (rows \in Seq(RowSet))' /\ DOMAIN rows \subseteq DOMAIN rows'
      /\ (\A r \in DOMAIN rows : RowOK(rows[r]))'
      /\ DOMAIN rows = 1..Len(rows) /\ DOMAIN rows' = 1..Len(rows') /\ Len(rows) \in Nat
    BY <1>1, <1>3, MoreRows
<1>5. byHand' \subseteq DOMAIN rows'
    BY <1>1, <1>4 DEF Typed
<1>6. todo = <<>>
    BY <1>1 DEF Typed
<1> QED
    BY <1>1, <1>2, <1>4, <1>5, <1>6 DEF Typed

LEMMA TypedRow ==
    ASSUME Typed, NEW r \in DOMAIN rows, Run(r) \/ RunFails(r) \/ RunAgain(r)
    PROVE  Typed'
<1>1. UNCHANGED <<world, now, todo, cache, job, last, byHand>>
    BY DEF Run, RunFails, RunAgain
<1>2. faults' \in 0..MaxFaults
    <2>1. faults' = faults \/ (faults < MaxFaults /\ faults' = faults + 1)
        BY DEF Run, RunFails, RunAgain
    <2>2. MaxFaults \in Nat /\ faults \in 0..MaxFaults
        BY DiveAssumption DEF Typed
    <2> QED
        BY <2>1, <2>2
<1>3. /\ (rows \in Seq(RowSet))' /\ DOMAIN rows' = DOMAIN rows
      /\ (\A o \in DOMAIN rows : RowOK(rows[o]))'
    <2>1. PICK row \in RowSet :
              /\ rows' = [rows EXCEPT ![r] = row]
              /\ row.ask = rows[r].ask /\ row.created = rows[r].created
              /\ row.created <= row.child /\ row.child <= now
              /\ job \notin Nested \/ row.status # "SUCCESS" => row.child = row.created
        <3>1. CASE Run(r)
            BY <3>1, RunRow
        <3>2. CASE RunFails(r) \/ RunAgain(r)
            <4>1. \A row \in RowSet : row.created \in Nat /\ row.child \in Nat
                BY DEF RowSet
            <4> QED
                BY <3>2, <4>1, RunOther
        <3> QED
            BY <3>1, <3>2
    <2> QED
        BY <1>1, <2>1, ChangedRow
<1> QED
    BY <1>1, <1>2, <1>3 DEF Typed

LEMMA TypedTick ==
    ASSUME Typed, Tick
    PROVE  Typed'
<1>1. UNCHANGED <<world, rows, todo, cache, faults, job, last, byHand>> /\ now' = now + 1 /\ now < MaxTime
    BY DEF Tick
<1>2. now' \in 0..MaxTime /\ now \in Nat
    BY <1>1, WindowAssumption DEF Typed
<1>3. RowSet' = RowSet /\ \A r \in DOMAIN rows : RowOK(rows[r])'
    <2>1. RowSet' = RowSet
        BY <1>1 DEF RowSet
    <2>2. ASSUME NEW r \in DOMAIN rows PROVE RowOK(rows[r])'
        <3>1. rows[r].child <= now /\ rows[r].child \in Nat /\ RowOK(rows[r])
            BY RowTyped DEF RowOK
        <3>2. rows[r].child <= now + 1
            BY <1>2, <3>1
        <3> QED
            BY <1>1, <3>1, <3>2 DEF RowOK
    <2> QED
        BY <2>1, <2>2
<1> QED
    BY <1>1, <1>2, <1>3 DEF Typed

\* What Ask asks, and what it does to the rows and the list of loops.
LEMMA ItemsTyped ==
    ASSUME Typed, NEW q
    PROVE  Items(q) \in Nat
BY FiniteWorld DEF Items, Typed

LEMMA QueryRowTyped ==
    ASSUME Typed, job = "GDACS", NEW q \in Asks, q.from <= q.to
    PROVE  QueryRow(q) \in RowSet /\ RowOK(QueryRow(q))
<1>1. q.from \in Nat /\ q.to \in Nat /\ q.from <= q.to + 1
    BY DEF Asks
<1>2. QueryRow(q) \in RowSet
    BY Clock DEF QueryRow, RowSet, Statuses
<1> QED
    BY <1>1, <1>2, Clock DEF QueryRow, RowOK, Nested

LEMMA LoopsJoined ==
    ASSUME NEW s \in Seq(Loops), NEW t \in Seq(Loops), NEW u \in Seq(Loops),
           \A i \in DOMAIN s : LoopOK(s[i]), \A i \in DOMAIN t : LoopOK(t[i]),
           \A i \in DOMAIN u : LoopOK(u[i])
    PROVE  s \o t \o u \in Seq(Loops) /\ \A i \in DOMAIN (s \o t \o u) : LoopOK((s \o t \o u)[i])
<1>1. /\ s \o t \o u \in Seq(Loops)
      /\ \A i \in DOMAIN (s \o t \o u) :
             \/ i \in DOMAIN s /\ (s \o t \o u)[i] = s[i]
             \/ i - Len(s) \in DOMAIN t /\ (s \o t \o u)[i] = t[i - Len(s)]
             \/ /\ i - (Len(s) + Len(t)) \in DOMAIN u
                /\ (s \o t \o u)[i] = u[i - (Len(s) + Len(t))]
    BY ThreeParts
<1> QED
    BY <1>1, Zenon

LEMMA TypedTodo ==
    ASSUME Typed, todo # <<>>, NEW s \in {<<>>, Split(Head(todo))},
           todo' = s \o RestOf(Head(todo)) \o Tail(todo)
    PROVE  todo' \in Seq(Loops) /\ \A i \in DOMAIN todo' : LoopOK(todo'[i])
<1> DEFINE f == Head(todo)
<1>1. f \in Loops /\ LoopOK(f) /\ Tail(todo) \in Seq(Loops)
    BY HeadOfTodo
<1>2. \A i \in DOMAIN Tail(todo) : LoopOK(Tail(todo)[i])
    BY HeadOfTodo DEF Typed
<1>3. s \in Seq(Loops) /\ \A i \in DOMAIN s : LoopOK(s[i])
    <2>1. CASE s = <<>>
        BY <2>1
    <2>2. CASE s = Split(f)
        BY <1>1, <2>2, SplitTyped
    <2> QED
        BY <2>1, <2>2
<1>4. RestOf(f) \in Seq(Loops) /\ \A i \in DOMAIN RestOf(f) : LoopOK(RestOf(f)[i])
    BY <1>1, RestTyped
<1>5. s \o RestOf(f) \o Tail(todo) \in Seq(Loops)
      /\ \A i \in DOMAIN (s \o RestOf(f) \o Tail(todo)) : LoopOK((s \o RestOf(f) \o Tail(todo))[i])
    <2> HIDE DEF f
    <2> QED
        BY <1>1, <1>2, <1>3, <1>4, LoopsJoined
<1> QED
    BY <1>5, Zenon

\* The rows after a question: one more, or the same.
LEMMA AskRows ==
    ASSUME Typed, Ask
    PROVE  LET q == AskOf(Head(todo)) IN
           /\ q \in Asks /\ q.from <= q.to
           /\ UNCHANGED <<world, now>>
           /\ IF IsQuery(Items(q))
              THEN /\ DOMAIN rows' = DOMAIN rows \cup {Len(rows) + 1}
                   /\ Len(rows) + 1 \notin DOMAIN rows
                   /\ rows'[Len(rows) + 1] = QueryRow(q)
              ELSE DOMAIN rows' = DOMAIN rows
           /\ \A r \in DOMAIN rows : rows'[r] = rows[r]
           /\ (rows \in Seq(RowSet))'
<1> DEFINE q == AskOf(Head(todo))
<1>1. todo # <<>> /\ UNCHANGED <<world, now>>
    BY DEF Ask
<1>2. q \in Asks /\ q.from <= q.to /\ job = "GDACS"
    BY <1>1, HeadOfTodo, AskTyped
<1>3. rows' = IF IsQuery(Items(q)) THEN Append(rows, QueryRow(q)) ELSE rows
    BY DEF Ask
<1>4. QueryRow(q) \in RowSet /\ rows \in Seq(RowSet) /\ RowSet' = RowSet
    BY <1>1, <1>2, QueryRowTyped DEF Typed, RowSet
<1> HIDE DEF q
<1>5. CASE IsQuery(Items(q))
    <2>1. rows' = Append(rows, QueryRow(q))
        BY <1>3, <1>5
    <2>2. /\ rows' \in Seq(RowSet) /\ Len(rows) \in Nat
          /\ DOMAIN rows = 1..Len(rows) /\ DOMAIN rows' = 1..(Len(rows) + 1)
          /\ rows'[Len(rows) + 1] = QueryRow(q) /\ \A r \in DOMAIN rows : rows'[r] = rows[r]
        BY <1>4, <2>1
    <2> QED
        BY <1>1, <1>2, <1>4, <1>5, <2>2 DEF q
<1>6. CASE ~IsQuery(Items(q))
    <2>1. rows' = rows
        BY <1>3, <1>6
    <2> QED
        BY <1>1, <1>2, <1>4, <1>6, <2>1 DEF q
<1> QED
    BY <1>5, <1>6

LEMMA TypedDive ==
    ASSUME Typed, DiveStep
    PROVE  Typed'
<1>1. UNCHANGED <<world, now, job, last, byHand>> /\ todo # <<>>
    BY DEF DiveStep, Ask, AskRefused
<1>2. job = "GDACS"
    BY <1>1, HeadOfTodo
<1> DEFINE q == AskOf(Head(todo))
<1>3. todo' \in Seq(Loops) /\ \A i \in DOMAIN todo' : LoopOK(todo'[i])
    <2>1. CASE Ask
        BY <1>1, <2>1, TypedTodo DEF Ask
    <2>2. CASE AskRefused
        <3>1. todo' = RestOf(Head(todo)) \o Tail(todo)
            BY <2>2 DEF AskRefused
        <3>2. RestOf(Head(todo)) \in Seq(Loops)
            BY <1>1, HeadOfTodo, RestTyped
        <3>3. <<>> \o RestOf(Head(todo)) = RestOf(Head(todo))
            BY <3>2
        <3>4. todo' = <<>> \o RestOf(Head(todo)) \o Tail(todo)
            BY <3>1, <3>3
        <3> QED
            BY <1>1, <3>4, TypedTodo
    <2> QED
        BY <2>1, <2>2 DEF DiveStep
<1>4. (rows \in Seq(RowSet))' /\ DOMAIN rows \subseteq DOMAIN rows'
      /\ \A r \in DOMAIN rows' : RowOK(rows'[r])
    <2>1. CASE Ask
        <3>1. q \in Asks /\ q.from <= q.to
            BY <1>1, HeadOfTodo, AskTyped
        <3>2. RowOK(QueryRow(q))
            BY <1>2, <3>1, QueryRowTyped
        <3>3. \A r \in DOMAIN rows : RowOK(rows[r])
            BY RowTyped
        <3>4. /\ (rows \in Seq(RowSet))' /\ \A r \in DOMAIN rows : rows'[r] = rows[r]
              /\ \/ DOMAIN rows' = DOMAIN rows \cup {Len(rows) + 1}
                    /\ rows'[Len(rows) + 1] = QueryRow(q)
                 \/ DOMAIN rows' = DOMAIN rows
            BY <2>1, AskRows
        <3> HIDE DEF q
        <3> QED
            BY <3>2, <3>3, <3>4
    <2>2. CASE AskRefused
        BY <1>1, <2>2, RowTyped DEF AskRefused, Typed, RowSet
    <2> QED
        BY <2>1, <2>2 DEF DiveStep
<1>5. \A row : RowOK(row)' <=> RowOK(row)
    BY <1>1 DEF RowOK
<1>6. \A x \in DOMAIN cache' : cache'[x] \in Nat
    <2>1. CASE Ask
        BY <2>1, ItemsTyped DEF Ask, Typed
    <2>2. CASE AskRefused
        BY <2>2 DEF AskRefused, Typed
    <2> QED
        BY <2>1, <2>2 DEF DiveStep
<1>7. faults' \in 0..MaxFaults
    <2>1. faults' = faults \/ (faults < MaxFaults /\ faults' = faults + 1)
        BY DEF DiveStep, Ask, AskRefused
    <2>2. MaxFaults \in Nat /\ faults \in 0..MaxFaults
        BY DiveAssumption DEF Typed
    <2> QED
        BY <2>1, <2>2
<1>8. (\A r \in DOMAIN rows : RowOK(rows[r]))'
    BY <1>4, <1>5
<1>9. byHand' \subseteq DOMAIN rows'
    BY <1>1, <1>4 DEF Typed
<1> QED
    BY <1>1, <1>2, <1>3, <1>4, <1>6, <1>7, <1>8, <1>9 DEF Typed

LEMMA TypedNext ==
    ASSUME Typed, [Next]_windowVars
    PROVE  Typed'
<1>1. CASE UNCHANGED windowVars
    <2>1. UNCHANGED <<world, now, rows, todo, cache, missed, faults, job, last, byHand>>
        BY <1>1 DEF windowVars, diveVars
    <2> QED
        BY <2>1 DEF Typed, RowSet, RowOK, LoopOK
<1>2. CASE Next
    <2>1. CASE Tick
        BY <2>1, TypedTick
    <2>2. CASE Schedule
        BY <2>2, TypedSchedule
    <2>3. CASE DiveStep
        BY <2>3, TypedDive
    <2>4. CASE \E a, b \in 0..Today : RunByHand(a, b)
        BY <2>4, TypedByHand
    <2>5. CASE \E r \in DOMAIN rows : Run(r) \/ RunFails(r) \/ RunAgain(r)
        BY <2>5, TypedRow
    <2> QED
        BY <1>2, <2>1, <2>2, <2>3, <2>4, <2>5 DEF Next
<1> QED
    BY <1>1, <1>2

(* Every state of every behaviour is of the type, whatever the windows are       *)
(* taken from: no window starts later than the moment after its end, and no row  *)
(* has a child from before it was made or from the future.                       *)
THEOREM TypeCorrect == Spec => []WindowTypeOK
<1>1. Typed => WindowTypeOK
    <2> SUFFICES ASSUME Typed PROVE WindowTypeOK
        OBVIOUS
    <2>1. \A r \in DOMAIN rows :
              /\ rows[r].status \in {"PENDING", "SUCCESS", "FAILED"}
              /\ rows[r].created <= rows[r].child /\ rows[r].child <= now
              /\ rows[r].ask.from <= rows[r].ask.to + 1
              /\ rows[r].got \subseteq world
        BY RowTyped DEF RowOK, RowSet, Statuses
    <2> QED
        BY <2>1 DEF Typed, WindowTypeOK
<1> QED
    BY <1>1, TypedInit, TypedNext, PTL DEF Spec

-----------------------------------------------------------------------------
(* What a loop of a dive asks for in all, and how a question divides it.        *)

Apart(p, q) == \A e \in world : ~(Within(e, p) /\ Within(e, q))
Whole(f) == Region(FirstOf(f.from), LastOf(f.to), f.level, f.country)

\* In days.
InLoop(e, f, end) ==
    /\ f.from <= Day(e.at) /\ Day(e.at) <= end
    /\ f.level \in {"any", e.level} /\ f.country \in {"any", e.country}

LEMMA RegionDays ==
    ASSUME Typed, NEW e \in world, NEW from \in Nat, NEW to \in Nat, NEW level, NEW country
    PROVE  /\ Day(e.at) \in Nat
           /\ Within(e, Region(FirstOf(from), LastOf(to), level, country)) <=>
                /\ from <= Day(e.at) /\ Day(e.at) <= to
                /\ level \in {"any", e.level} /\ country \in {"any", e.country}
<1>1. e.at \in Nat
    BY FiniteWorld
<1>2. /\ FirstOf(from) \in Nat /\ LastOf(to) \in Nat /\ Day(e.at) \in Nat
      /\ FirstOf(from) <= e.at <=> from <= Day(e.at)
      /\ e.at <= LastOf(to) <=> Day(e.at) <= to
    BY <1>1, DayBounds
<1> QED
    BY <1>1, <1>2 DEF Within, Region

LEMMA WholeDays ==
    ASSUME Typed, NEW e \in world, NEW f \in Loops
    PROVE  Day(e.at) \in Nat /\ (Within(e, Whole(f)) <=> InLoop(e, f, f.to))
<1>1. f.from \in Nat /\ f.to \in Nat
    BY DEF Loops
<1> QED
    BY <1>1, RegionDays DEF Whole, InLoop

LEMMA AskDays ==
    ASSUME Typed, NEW e \in world, NEW f \in Loops, LoopOK(f)
    PROVE  Within(e, AskOf(f)) <=> InLoop(e, f, WindowEnd(f))
<1>1. f.from \in Nat /\ WindowEnd(f) \in Nat
    BY EndOfWindow
<1> QED
    BY <1>1, RegionDays DEF AskOf, InLoop

\* The question, and the rest of the loop, divide the loop.
LEMMA AskAndRest ==
    ASSUME Typed, NEW e \in world, NEW f \in Loops, LoopOK(f)
    PROVE  /\ Within(e, AskOf(f)) => Within(e, Whole(f))
           /\ \A i \in DOMAIN RestOf(f) : Within(e, Whole(RestOf(f)[i])) =>
                  Within(e, Whole(f)) /\ ~Within(e, AskOf(f))
           /\ Within(e, Whole(f)) =>
                  Within(e, AskOf(f)) \/ \E i \in DOMAIN RestOf(f) : Within(e, Whole(RestOf(f)[i]))
<1> DEFINE g == [f EXCEPT !.from = f.from + f.num]
           d == Day(e.at)
<1>1. /\ f.from \in Nat /\ f.to \in Nat /\ f.num \in Nat \ {0} /\ WindowEnd(f) \in Nat
      /\ f.from <= WindowEnd(f) /\ WindowEnd(f) <= f.to
      /\ WindowEnd(f) < f.from + f.num
      /\ f.from + f.num <= f.to => WindowEnd(f) = f.from + f.num - 1
      /\ f.from + f.num > f.to => WindowEnd(f) = f.to
    BY EndOfWindow
<1>2. d \in Nat /\ (Within(e, Whole(f)) <=> InLoop(e, f, f.to))
    BY WholeDays
<1>3. Within(e, AskOf(f)) <=> InLoop(e, f, WindowEnd(f))
    BY AskDays
<1>4. InLoop(e, f, WindowEnd(f)) => InLoop(e, f, f.to)
    BY <1>1, <1>2 DEF InLoop
<1>5. g \in Loops /\ g.from = f.from + f.num /\ g.to = f.to /\ g.level = f.level /\ g.country = f.country
    BY <1>1 DEF Loops
<1>6. ASSUME NEW i \in DOMAIN RestOf(f)
      PROVE  RestOf(f)[i] = g /\ f.from + f.num <= f.to /\ (Within(e, Whole(g)) <=> InLoop(e, g, g.to))
    BY <1>5, RestTyped, WholeDays
<1>7. f.from + f.num <= f.to => (InLoop(e, f, f.to) <=> InLoop(e, f, WindowEnd(f)) \/ InLoop(e, g, g.to))
                               /\ ~(InLoop(e, f, WindowEnd(f)) /\ InLoop(e, g, g.to))
    <2> HIDE DEF g, d
    <2> QED
        BY <1>1, <1>2, <1>5 DEF InLoop, d
<1>8. f.from + f.num > f.to => (InLoop(e, f, f.to) <=> InLoop(e, f, WindowEnd(f)))
    BY <1>1
<1>9. f.from + f.num <= f.to => 1 \in DOMAIN RestOf(f)
    BY <1>1 DEF RestOf
<1>10. f.from + f.num <= f.to \/ f.from + f.num > f.to
    BY <1>1
<1> HIDE DEF g, d
<1> QED
    BY <1>2, <1>3, <1>4, <1>6, <1>7, <1>8, <1>9, <1>10

\* The levels of a day, and the countries of a level, divide it.
LEMMA NameOnce ==
    ASSUME NEW list, IsList(list), NEW name \in NamesIn(list)
    PROVE  /\ \E i \in DOMAIN list : list[i] = name
           /\ \A i, j \in DOMAIN list : list[i] = name /\ list[j] = name => i = j
           /\ name # "any" /\ \A i \in DOMAIN list : list[i] # "any"
BY DEF IsList, NamesIn

LEMMA SplitParts ==
    ASSUME Typed, NEW e \in world, NEW f \in Loops, LoopOK(f)
    PROVE  /\ \A i \in DOMAIN Split(f) : Within(e, Whole(Split(f)[i])) => Within(e, AskOf(f))
           /\ \A i, j \in DOMAIN Split(f) :
                  Within(e, Whole(Split(f)[i])) /\ Within(e, Whole(Split(f)[j])) => i = j
           /\ Within(e, AskOf(f)) /\ f.country = "any" =>
                  \E i \in DOMAIN Split(f) : Within(e, Whole(Split(f)[i]))
<1> DEFINE d == Day(e.at)
           end == WindowEnd(f)
<1>1. f.from \in Nat /\ end \in Nat /\ f.num \in Nat \ {0} /\ f.from <= end
    BY EndOfWindow
<1>2. d \in Nat /\ (Within(e, AskOf(f)) <=> InLoop(e, f, end))
    BY WholeDays, AskDays
<1>3. e.level \in NamesIn(Levels) /\ e.country \in NamesIn(Countries)
    BY FiniteWorld
<1>4. CASE f.from < end
    <2> DEFINE g == Dive(f.from, end, Half(f.num))
    <2>1. Split(f) = <<g>>
        BY <1>1, <1>4 DEF Split
    <2>2. g \in Loops /\ g.from = f.from /\ g.to = end /\ g.level = "any" /\ g.country = "any"
        BY <1>1, HalfOf DEF Dive, Loops, LevelNames, CountryNames
    <2>3. f.level = "any" /\ f.country = "any"
        <3>1. f.from # f.to
            <4>1. end <= f.to /\ f.to \in Nat
                BY EndOfWindow
            <4> QED
                BY <1>1, <1>4, <4>1
        <3> QED
            BY <3>1 DEF LoopOK
    <2>4. Within(e, Whole(g)) <=> InLoop(e, g, g.to)
        BY <2>2, WholeDays
    <2>5. InLoop(e, g, g.to) <=> InLoop(e, f, end)
        <3> HIDE DEF g, end
        <3> QED
            BY <2>2, <2>3 DEF InLoop
    <2> HIDE DEF g
    <2>6. \A i \in DOMAIN Split(f) : i = 1 /\ Split(f)[i] = g
        BY <2>1
    <2>7. 1 \in DOMAIN Split(f)
        BY <2>1
    <2> QED
        BY <1>2, <2>4, <2>5, <2>6, <2>7
<1>5. CASE f.from = end /\ f.level = "any"
    <2> DEFINE S(i) == Single(f, Levels[i], "any")
    <2>1. Split(f) = [i \in DOMAIN Levels |-> S(i)]
        BY <1>1, <1>5 DEF Split
    <2>2. f.country = "any"
        BY <1>5 DEF LoopOK
    <2>3. IsList(Levels)
        BY DiveAssumption
    <2>4. ASSUME NEW i \in DOMAIN Levels
          PROVE  Within(e, Whole(S(i))) <=> f.from = d /\ Levels[i] = e.level
        <3>1. Levels[i] \in LevelNames \ {"any"} /\ "any" \in CountryNames
            BY <2>3 DEF IsList, NamesIn, LevelNames, CountryNames
        <3>2. S(i) \in Loops
            BY <3>1, SingleTyped
        <3>3. S(i).from = f.from /\ S(i).to = f.from /\ S(i).level = Levels[i] /\ S(i).country = "any"
            BY DEF Single, Loops
        <3>4. Within(e, Whole(S(i))) <=> InLoop(e, S(i), S(i).to)
            BY <3>2, WholeDays
        <3> HIDE DEF S
        <3> QED
            BY <1>1, <1>2, <3>1, <3>3, <3>4 DEF InLoop
    <2>5. InLoop(e, f, end) <=> f.from = d
        BY <1>1, <1>2, <1>5, <2>2 DEF InLoop
    <2> HIDE DEF S, d, end
    <2>6. \A i \in DOMAIN Split(f) : i \in DOMAIN Levels /\ Split(f)[i] = S(i)
        BY <2>1
    <2>7. DOMAIN Split(f) = DOMAIN Levels
        BY <2>1
    <2> QED
        BY <1>2, <1>3, <2>3, <2>4, <2>5, <2>6, <2>7, NameOnce
<1>6. CASE f.from = end /\ f.level # "any" /\ f.country = "any"
    <2> DEFINE S(i) == Single(f, f.level, Countries[i])
    <2>1. Split(f) = [i \in DOMAIN Countries |-> S(i)]
        BY <1>1, <1>6 DEF Split
    <2>2. f.level \in LevelNames \ {"any"}
        BY <1>6 DEF Loops
    <2>3. IsList(Countries)
        BY DiveAssumption
    <2>4. ASSUME NEW i \in DOMAIN Countries
          PROVE  Within(e, Whole(S(i))) <=> f.from = d /\ f.level = e.level /\ Countries[i] = e.country
        <3>1. Countries[i] \in CountryNames /\ Countries[i] # "any"
            BY <2>3 DEF IsList, NamesIn, CountryNames
        <3>2. S(i) \in Loops
            BY <2>2, <3>1, SingleTyped
        <3>3. S(i).from = f.from /\ S(i).to = f.from /\ S(i).level = f.level /\ S(i).country = Countries[i]
            BY DEF Single, Loops
        <3>4. Within(e, Whole(S(i))) <=> InLoop(e, S(i), S(i).to)
            BY <3>2, WholeDays
        <3> HIDE DEF S
        <3> QED
            BY <1>1, <1>2, <2>2, <3>1, <3>3, <3>4 DEF InLoop
    <2>5. InLoop(e, f, end) <=> f.from = d /\ f.level = e.level
        BY <1>1, <1>2, <1>6 DEF InLoop
    <2> HIDE DEF S, d, end
    <2>6. \A i \in DOMAIN Split(f) : i \in DOMAIN Countries /\ Split(f)[i] = S(i)
        BY <2>1
    <2>7. DOMAIN Split(f) = DOMAIN Countries
        BY <2>1
    <2> QED
        BY <1>2, <1>3, <2>3, <2>4, <2>5, <2>6, <2>7, NameOnce
<1>7. CASE f.from = end /\ f.level # "any" /\ f.country # "any"
    <2>1. Split(f) = <<>>
        BY <1>1, <1>7 DEF Split
    <2> QED
        BY <1>7, <2>1
<1> QED
    BY <1>1, <1>4, <1>5, <1>6, <1>7

-----------------------------------------------------------------------------
(* When rows are made: the daily job's at its last run or before, and a dive is  *)
(* over before time goes on.                                                    *)

Paced ==
    /\ todo # <<>> => last = now
    /\ last = Never \/ last <= now
    /\ \A r \in DOMAIN rows \ byHand : last # Never /\ rows[r].created <= last
    /\ job = "GDACS" => byHand = {}

LEMMA PacedInit ==
    ASSUME Init
    PROVE  Paced
BY DEF Init, Paced

LEMMA FreshRowMade ==
    ASSUME Typed, NEW ws \in Seq(Windows), NEW n \in DOMAIN Queries(ws)
    PROVE  /\ Queries(ws)[n].created = now /\ Queries(ws)[n].status = "PENDING"
           /\ \E i \in DOMAIN ws : Queries(ws)[n].ask.from = ws[i].from /\ Queries(ws)[n].ask.to = ws[i].to
BY RowsOfWindows DEF MadeFor

\* The rows of Schedule.
LEMMA ScheduledRows ==
    ASSUME Typed, Schedule, job # "GDACS"
    PROVE  /\ Window \in Windows /\ <<Window>> \in Seq(Windows)
           /\ UNCHANGED <<world, now, todo, cache, missed, faults, job, byHand>> /\ last' = now
           /\ DOMAIN rows \subseteq DOMAIN rows' /\ \A r \in DOMAIN rows : rows'[r] = rows[r]
           /\ \A r \in DOMAIN rows' :
                  \/ r \in DOMAIN rows
                  \/ /\ r \notin DOMAIN rows /\ r > Len(rows)
                     /\ rows'[r].created = now /\ rows'[r].status = "PENDING"
                     /\ rows'[r].ask.from = Window.from /\ rows'[r].ask.to = Window.to
           /\ \A j \in DOMAIN Kinds : \E r \in DOMAIN rows' : rows'[r] = QueryFor(Window, Kinds[j])
<1>1. /\ UNCHANGED <<world, now, todo, cache, missed, faults, job, byHand>> /\ last' = now
      /\ rows' = rows \o Queries(<<Window>>)
    BY DEF Schedule
<1>2. WindowOK(Window)
    BY DailyWindow
<1>3. Window \in Windows
    BY <1>2 DEF WindowOK
<1>4. /\ <<Window>> \in Seq(Windows) /\ DOMAIN <<Window>> = {1} /\ <<Window>>[1] = Window
    <2> HIDE DEF Window
    <2> QED
        BY <1>3
<1> DEFINE ws == <<Window>>
<1>5. /\ ws \in Seq(Windows) /\ DOMAIN ws = {1} /\ ws[1] = Window /\ rows' = rows \o Queries(ws)
    BY <1>1, <1>4
<1> HIDE DEF ws
<1>6. \A i \in DOMAIN ws : WindowOK(ws[i])
    BY <1>2, <1>5
<1>7. /\ DOMAIN rows \subseteq DOMAIN rows' /\ \A r \in DOMAIN rows : rows'[r] = rows[r]
      /\ \A r \in DOMAIN rows' :
             \/ r \in DOMAIN rows
             \/ r - Len(rows) \in DOMAIN Queries(ws) /\ rows'[r] = Queries(ws)[r - Len(rows)]
      /\ \A n \in DOMAIN Queries(ws) :
             Len(rows) + n \in DOMAIN rows' /\ rows'[Len(rows) + n] = Queries(ws)[n]
      /\ DOMAIN rows = 1..Len(rows) /\ DOMAIN rows' = 1..Len(rows') /\ Len(rows) \in Nat
      /\ Len(rows') \in Nat
    BY <1>1, <1>5, <1>6, MoreRows
<1>8. \A j \in DOMAIN Kinds : \E r \in DOMAIN rows' : rows'[r] = QueryFor(Window, Kinds[j])
    <2> TAKE j \in DOMAIN Kinds
    <2>1. PICK n \in DOMAIN Queries(ws) : Queries(ws)[n] = QueryFor(ws[1], Kinds[j])
        BY <1>5, RowsOfWindows
    <2>2. Len(rows) + n \in DOMAIN rows' /\ rows'[Len(rows) + n] = Queries(ws)[n]
        BY <1>7, <2>1
    <2> QED
        BY <1>5, <2>1, <2>2, Zenon
<1>9. ASSUME NEW r \in DOMAIN rows', r \notin DOMAIN rows
      PROVE  /\ rows'[r].created = now /\ rows'[r].status = "PENDING" /\ r > Len(rows)
             /\ rows'[r].ask.from = Window.from /\ rows'[r].ask.to = Window.to
    <2>1. r - Len(rows) \in DOMAIN Queries(ws) /\ rows'[r] = Queries(ws)[r - Len(rows)]
        BY <1>7, <1>9
    <2>2. r > Len(rows)
        BY <1>7, <1>9
    <2> QED
        BY <1>5, <2>1, <2>2, FreshRowMade
<1> QED
    BY <1>1, <1>3, <1>4, <1>7, <1>8, <1>9

\* The rows of a historical job.
LEMMA HandRows ==
    ASSUME Typed, NEW a \in 0..Today, NEW b \in 0..Today, RunByHand(a, b)
    PROVE  LET ws == WindowsByHand(a, b) IN
           /\ job # "GDACS" /\ a < b /\ ws \in Seq(Windows) /\ Gapless(ws, a, b)
           /\ UNCHANGED <<world, now, todo, cache, missed, job, last>>
           /\ byHand \subseteq byHand' /\ byHand' \subseteq DOMAIN rows'
           /\ DOMAIN rows \subseteq DOMAIN rows' /\ \A r \in DOMAIN rows : rows'[r] = rows[r]
           /\ DOMAIN rows = 1..Len(rows) /\ Len(rows) \in Nat /\ DOMAIN rows' = 1..Len(rows') /\ Len(rows') \in Nat
           /\ \A r \in DOMAIN rows' :
                  \/ r \in DOMAIN rows
                  \/ /\ r \notin DOMAIN rows /\ r \in byHand'
                     /\ rows'[r].created = now /\ rows'[r].status = "PENDING"
                     /\ \E i \in DOMAIN ws :
                            rows'[r].ask.from = ws[i].from /\ rows'[r].ask.to = ws[i].to
           /\ \A r \in DOMAIN rows : r \in byHand' => r \in byHand
           /\ \A i \in DOMAIN ws, j \in DOMAIN Kinds :
                  \E r \in (Len(rows) + 1)..Len(rows') : rows'[r] = QueryFor(ws[i], Kinds[j])
<1> DEFINE ws == WindowsByHand(a, b)
<1>1. /\ UNCHANGED <<world, now, todo, cache, missed, job, last>> /\ job # "GDACS" /\ a < b
      /\ rows' = rows \o Queries(ws)
      /\ byHand' = byHand \cup ((Len(rows) + 1)..Len(rows'))
    BY DEF RunByHand
<1>2. ws \in Seq(Windows) /\ Gapless(ws, a, b) /\ \A i \in DOMAIN ws : WindowOK(ws[i])
    BY <1>1, HandWindows
<1> HIDE DEF ws
<1>3. /\ DOMAIN rows \subseteq DOMAIN rows' /\ \A r \in DOMAIN rows : rows'[r] = rows[r]
      /\ \A r \in DOMAIN rows' :
             \/ r \in DOMAIN rows
             \/ r - Len(rows) \in DOMAIN Queries(ws) /\ rows'[r] = Queries(ws)[r - Len(rows)]
      /\ \A n \in DOMAIN Queries(ws) :
             Len(rows) + n \in DOMAIN rows' /\ rows'[Len(rows) + n] = Queries(ws)[n]
      /\ DOMAIN rows = 1..Len(rows) /\ DOMAIN rows' = 1..Len(rows') /\ Len(rows) \in Nat
      /\ Len(rows') \in Nat
    BY <1>1, <1>2, MoreRows
<1>4. byHand \subseteq DOMAIN rows
    BY DEF Typed
<1>5. byHand \subseteq byHand' /\ byHand' \subseteq DOMAIN rows'
      /\ \A r \in DOMAIN rows : r \in byHand' => r \in byHand
    BY <1>1, <1>3, <1>4
<1>6. ASSUME NEW r \in DOMAIN rows', r \notin DOMAIN rows
      PROVE  /\ r \in byHand' /\ rows'[r].created = now /\ rows'[r].status = "PENDING"
             /\ \E i \in DOMAIN ws : rows'[r].ask.from = ws[i].from /\ rows'[r].ask.to = ws[i].to
    <2>1. r - Len(rows) \in DOMAIN Queries(ws) /\ rows'[r] = Queries(ws)[r - Len(rows)]
        BY <1>3, <1>6
    <2>2. r \in byHand'
        BY <1>1, <1>3, <1>6
    <2> QED
        BY <1>2, <2>1, <2>2, FreshRowMade
<1>7. ASSUME NEW i \in DOMAIN ws, NEW j \in DOMAIN Kinds
      PROVE  \E r \in (Len(rows) + 1)..Len(rows') : rows'[r] = QueryFor(ws[i], Kinds[j])
    <2>1. PICK n \in DOMAIN Queries(ws) : Queries(ws)[n] = QueryFor(ws[i], Kinds[j])
        BY <1>2, RowsOfWindows
    <2>2. n \in Nat \ {0}
        <3>1. Queries(ws) \in Seq(RowSet)
            BY <1>2, RowsOfWindows
        <3> QED
            BY <3>1
    <2>3. Len(rows) + n \in (Len(rows) + 1)..Len(rows')
        BY <1>3, <2>1, <2>2
    <2> QED
        BY <1>3, <2>1, <2>3
<1> QED
    BY <1>1, <1>2, <1>3, <1>5, <1>6, <1>7 DEF ws

\* A run changes one row, and neither what it asks nor when it was made.
LEMMA RunRows ==
    ASSUME Typed, NEW r \in DOMAIN rows, Run(r) \/ RunFails(r) \/ RunAgain(r)
    PROVE  /\ UNCHANGED <<world, now, todo, cache, job, last, byHand>> /\ todo = <<>>
           /\ DOMAIN rows' = DOMAIN rows /\ Len(rows') = Len(rows)
           /\ \A o \in DOMAIN rows :
                  rows'[o].ask = rows[o].ask /\ rows'[o].created = rows[o].created
           /\ \A o \in DOMAIN rows : o # r => rows'[o] = rows[o]
<1>1. UNCHANGED <<world, now, todo, cache, job, last, byHand>> /\ todo = <<>>
    BY DEF Run, RunFails, RunAgain
<1>2. PICK row \in RowSet :
              /\ rows' = [rows EXCEPT ![r] = row]
              /\ row.ask = rows[r].ask /\ row.created = rows[r].created
    <2>1. CASE Run(r)
        BY <2>1, RunRow
    <2>2. CASE RunFails(r) \/ RunAgain(r)
        BY <2>2, RunOther
    <2> QED
        BY <2>1, <2>2
<1>3. rows \in Seq(RowSet)
    BY DEF Typed
<1>4. /\ DOMAIN rows' = DOMAIN rows /\ Len(rows') = Len(rows)
      /\ \A o \in DOMAIN rows : rows'[o] = IF o = r THEN row ELSE rows[o]
    BY <1>2, <1>3
<1> QED
    BY <1>1, <1>2, <1>4

LEMMA PacedNext ==
    ASSUME Typed, Paced, [Next]_windowVars
    PROVE  Paced'
<1>1. CASE UNCHANGED windowVars
    BY <1>1 DEF windowVars, diveVars, Paced
<1>2. CASE Tick
    BY <1>2, Clock, WindowAssumption DEF Tick, Paced, Typed, Never
<1>3. CASE Schedule
    <2>1. last' = now /\ now # Never /\ UNCHANGED <<now, job, byHand>>
        BY <1>3, Clock, WindowAssumption DEF Schedule, Typed, Never
    <2>2. CASE job = "GDACS"
        <3>1. UNCHANGED rows
            BY <1>3, <2>2 DEF Schedule
        <3>2. \A r \in DOMAIN rows : rows[r].created <= now
            BY RowTyped, Clock DEF RowOK
        <3> QED
            BY <2>1, <3>1, <3>2, Clock DEF Paced, Never
    <2>3. CASE job # "GDACS"
        <3>1. \A r \in DOMAIN rows' : rows'[r].created <= now
            <4> TAKE r \in DOMAIN rows'
            <4>1. CASE r \in DOMAIN rows
                BY <1>3, <2>3, <4>1, ScheduledRows, RowTyped, Clock DEF RowOK
            <4>2. CASE r \notin DOMAIN rows
                BY <1>3, <2>3, <4>2, ScheduledRows, Clock
            <4> QED
                BY <4>1, <4>2
        <3>2. UNCHANGED todo
            BY <1>3, <2>3, ScheduledRows
        <3>3. todo = <<>>
            BY <2>3 DEF Typed
        <3> QED
            BY <2>1, <2>3, <3>1, <3>2, <3>3, Clock DEF Paced, Never
    <2> QED
        BY <2>2, <2>3
<1>4. CASE DiveStep
    <2>1. UNCHANGED <<now, job, last, byHand>> /\ todo # <<>>
        BY <1>4 DEF DiveStep, Ask, AskRefused
    <2>2. last = now /\ last # Never /\ byHand = {} /\ job = "GDACS"
        BY <2>1, HeadOfTodo, Clock, WindowAssumption DEF Paced, Typed, Never
    <2>3. \A r \in DOMAIN rows' : rows'[r].created <= now
        <3>1. \A r \in DOMAIN rows : rows[r].created <= now
            BY <2>2 DEF Paced
        <3>2. \A q : QueryRow(q).created = now
            BY DEF QueryRow
        <3>3. CASE Ask
            <4>1. /\ \A r \in DOMAIN rows : rows'[r] = rows[r]
                  /\ \/ DOMAIN rows' = DOMAIN rows \cup {Len(rows) + 1}
                        /\ rows'[Len(rows) + 1] = QueryRow(AskOf(Head(todo)))
                     \/ DOMAIN rows' = DOMAIN rows
                BY <3>3, AskRows
            <4> QED
                BY <3>1, <3>2, <4>1, Clock
        <3>4. CASE AskRefused
            BY <3>1, <3>4 DEF AskRefused
        <3> QED
            BY <1>4, <3>3, <3>4 DEF DiveStep
    <2> QED
        BY <2>1, <2>2, <2>3, Clock DEF Paced, Never
<1>5. ASSUME NEW a \in 0..Today, NEW b \in 0..Today, RunByHand(a, b)
      PROVE  Paced'
    <2>1. /\ UNCHANGED <<now, todo, job, last>> /\ job # "GDACS"
          /\ \A r \in DOMAIN rows' :
                  \/ r \in DOMAIN rows /\ rows'[r] = rows[r] /\ (r \in byHand => r \in byHand')
                  \/ r \in byHand'
        BY <1>5, HandRows
    <2> QED
        BY <2>1 DEF Paced, Never
<1>6. ASSUME NEW r \in DOMAIN rows, Run(r) \/ RunFails(r) \/ RunAgain(r)
      PROVE  Paced'
    BY <1>6, RunRows DEF Paced, Never
<1> QED
    BY <1>1, <1>2, <1>3, <1>4, <1>5, <1>6 DEF Next

-----------------------------------------------------------------------------
(* The queries of one dive share no event.  Inductively: the loops that are left *)
(* share none with each other, nor with the rows that this dive has made; those  *)
(* of earlier dives were made earlier, since the job runs once a day.           *)

PairwiseApart(list) == \A i, j \in DOMAIN list : i # j => Apart(Whole(list[i]), Whole(list[j]))
RowsApart ==
    \A r, s \in DOMAIN rows :
        r # s /\ rows[r].created = rows[s].created => Apart(rows[r].ask, rows[s].ask)
DiveApart ==
    job = "GDACS" =>
        /\ PairwiseApart(todo)
        /\ \A r \in DOMAIN rows, i \in DOMAIN todo :
               rows[r].created = now => Apart(rows[r].ask, Whole(todo[i]))
        /\ RowsApart

LEMMA OneOfThree ==
    ASSUME NEW s \in Seq(Loops), NEW t \in Seq(Loops), NEW u \in Seq(Loops)
    PROVE  \A i \in DOMAIN (s \o t \o u) :
               \/ \E k \in DOMAIN s : (s \o t \o u)[i] = s[k]
               \/ \E k \in DOMAIN t : (s \o t \o u)[i] = t[k]
               \/ \E k \in DOMAIN u : (s \o t \o u)[i] = u[k]
<1>1. \A i \in DOMAIN (s \o t \o u) :
          \/ i \in DOMAIN s /\ (s \o t \o u)[i] = s[i]
          \/ i - Len(s) \in DOMAIN t /\ (s \o t \o u)[i] = t[i - Len(s)]
          \/ /\ i - (Len(s) + Len(t)) \in DOMAIN u
             /\ (s \o t \o u)[i] = u[i - (Len(s) + Len(t))]
    BY ThreeParts
<1> QED
    BY <1>1, Zenon

LEMMA LoopsApart ==
    ASSUME NEW s \in Seq(Loops), NEW t \in Seq(Loops), NEW u \in Seq(Loops),
           PairwiseApart(s), PairwiseApart(t), PairwiseApart(u),
           \A i \in DOMAIN s, j \in DOMAIN t : Apart(Whole(s[i]), Whole(t[j])),
           \A i \in DOMAIN s, j \in DOMAIN u : Apart(Whole(s[i]), Whole(u[j])),
           \A i \in DOMAIN t, j \in DOMAIN u : Apart(Whole(t[i]), Whole(u[j]))
    PROVE  PairwiseApart(s \o t \o u)
<1> DEFINE all == s \o t \o u
           m == Len(s)
           n == Len(s) + Len(t)
           A(i) == i \in DOMAIN s /\ all[i] = s[i]
           B(i) == i - m \in DOMAIN t /\ all[i] = t[i - m]
           C(i) == i - n \in DOMAIN u /\ all[i] = u[i - n]
<1>1. \A i \in DOMAIN all : A(i) \/ B(i) \/ C(i)
    BY ThreeParts
<1>2. m \in Nat /\ n \in Nat /\ \A i \in DOMAIN all : i \in Nat
    <2>1. all \in Seq(Loops)
        BY ThreeParts
    <2> HIDE DEF all
    <2> QED
        BY <2>1
<1>3. \A p, q : Apart(p, q) => Apart(q, p)
    BY DEF Apart
<1> HIDE DEF all, m, n
<1>4. ASSUME NEW i \in DOMAIN all, NEW j \in DOMAIN all, i # j
      PROVE  Apart(Whole(all[i]), Whole(all[j]))
    <2>1. i - m # j - m /\ i - n # j - n
        BY <1>2, <1>4
    <2>2. CASE A(i)
        BY <1>1, <1>3, <1>4, <2>1, <2>2, Zenon DEF PairwiseApart
    <2>3. CASE B(i)
        BY <1>1, <1>3, <1>4, <2>1, <2>3, Zenon DEF PairwiseApart
    <2>4. CASE C(i)
        BY <1>1, <1>3, <1>4, <2>1, <2>4, Zenon DEF PairwiseApart
    <2> QED
        BY <1>1, <1>4, <2>2, <2>3, <2>4
<1> QED
    BY <1>4 DEF PairwiseApart, all

\* The list after a step of a dive, and the parts it is made of.
LEMMA DiveTodo ==
    ASSUME Typed, DiveStep
    PROVE  \E s \in {<<>>, Split(Head(todo))} :
               /\ todo' = s \o RestOf(Head(todo)) \o Tail(todo)
               /\ s = <<>> \/ (s = Split(Head(todo)) /\ Ask /\ Items(AskOf(Head(todo))) >= Limit)
               /\ (Ask /\ Items(AskOf(Head(todo))) >= Limit) => s = Split(Head(todo))
               /\ s \in Seq(Loops) /\ RestOf(Head(todo)) \in Seq(Loops) /\ Tail(todo) \in Seq(Loops)
<1>1. todo # <<>>
    BY DEF DiveStep, Ask, AskRefused
<1>2. /\ Split(Head(todo)) \in Seq(Loops) /\ RestOf(Head(todo)) \in Seq(Loops)
      /\ Tail(todo) \in Seq(Loops) /\ <<>> \in Seq(Loops)
    BY <1>1, HeadOfTodo, SplitTyped, RestTyped
<1> DEFINE many == Items(AskOf(Head(todo))) >= Limit
           Result(s) == s \o RestOf(Head(todo)) \o Tail(todo)
<1>3. CASE Ask
    <2>1. todo' = Result(IF many THEN Split(Head(todo)) ELSE <<>>)
        BY <1>3 DEF Ask
    <2> HIDE DEF many, Result
    <2>2. CASE many
        <3>1. todo' = Result(Split(Head(todo)))
            BY <2>1, <2>2
        <3> QED
            BY <1>2, <1>3, <2>2, <3>1 DEF many, Result
    <2>3. CASE ~many
        <3>1. todo' = Result(<<>>)
            BY <2>1, <2>3
        <3> QED
            BY <1>2, <1>3, <2>3, <3>1 DEF many, Result
    <2> QED
        BY <2>2, <2>3
<1>4. CASE AskRefused
    <2>1. todo' = RestOf(Head(todo)) \o Tail(todo)
        BY <1>4 DEF AskRefused
    <2>2. <<>> \o RestOf(Head(todo)) = RestOf(Head(todo))
        BY <1>2
    <2>3. todo' = Result(<<>>)
        BY <2>1, <2>2
    <2>4. ~Ask
        <3>1. SUFFICES ASSUME Ask PROVE FALSE
            OBVIOUS
        <3>2. faults' = faults /\ faults' = faults + 1
            BY <1>4, <3>1 DEF Ask, AskRefused
        <3>3. faults \in Nat
            BY DiveAssumption DEF Typed
        <3> QED
            BY <3>2, <3>3
    <2> HIDE DEF many
    <2> QED
        BY <1>2, <2>3, <2>4 DEF Result
<1> QED
    BY <1>3, <1>4 DEF DiveStep

LEMMA DiveApartDive ==
    ASSUME Typed, Paced, DiveApart, DiveStep
    PROVE  DiveApart'
<1>1. UNCHANGED <<world, now, job>> /\ todo # <<>> /\ job = "GDACS"
    <2>1. UNCHANGED <<world, now, job>> /\ todo # <<>>
        BY DEF DiveStep, Ask, AskRefused
    <2> QED
        BY <2>1, HeadOfTodo
<1>2. PICK f, q : f = Head(todo) /\ q = AskOf(f)
    OBVIOUS
<1>3. PICK s \in {<<>>, Split(f)} :
          /\ todo' = s \o RestOf(f) \o Tail(todo)
          /\ s = <<>> \/ (s = Split(f) /\ Ask /\ Items(q) >= Limit)
          /\ s \in Seq(Loops) /\ RestOf(f) \in Seq(Loops) /\ Tail(todo) \in Seq(Loops)
    BY <1>2, DiveTodo
<1>4. PICK t, u : t = RestOf(f) /\ u = Tail(todo)
    OBVIOUS
<1>5. /\ f \in Loops /\ LoopOK(f) /\ 1 \in DOMAIN todo /\ todo[1] = f
      /\ \A i \in DOMAIN u : i + 1 \in DOMAIN todo /\ u[i] = todo[i + 1] /\ i \in Nat \ {0}
    <2>1. \A i \in DOMAIN u : i \in Nat \ {0}
        BY <1>3, <1>4
    <2> QED
        BY <1>1, <1>2, <1>4, <2>1, HeadOfTodo
<1>6. /\ PairwiseApart(todo) /\ RowsApart
      /\ \A r \in DOMAIN rows, i \in DOMAIN todo :
             rows[r].created = now => Apart(rows[r].ask, Whole(todo[i]))
    BY <1>1 DEF DiveApart
<1>7. \A i \in DOMAIN u : Apart(Whole(f), Whole(u[i]))
    BY <1>5, <1>6 DEF PairwiseApart
<1>8. PairwiseApart(u)
    <2> SUFFICES ASSUME NEW i \in DOMAIN u, NEW j \in DOMAIN u, i # j
                 PROVE  Apart(Whole(u[i]), Whole(u[j]))
        BY DEF PairwiseApart
    <2>1. i + 1 # j + 1
        BY <1>5
    <2> QED
        BY <1>5, <1>6, <2>1 DEF PairwiseApart
<1>9. \A e \in world :
          /\ Within(e, q) => Within(e, Whole(f))
          /\ \A i \in DOMAIN t : Within(e, Whole(t[i])) => Within(e, Whole(f)) /\ ~Within(e, q)
    BY <1>2, <1>4, <1>5, AskAndRest
<1>10. PairwiseApart(t)
    <2>1. \A i \in DOMAIN t : i = 1
        BY <1>4 DEF RestOf
    <2> QED
        BY <2>1 DEF PairwiseApart
<1>11. \A e \in world :
           /\ \A i \in DOMAIN s : Within(e, Whole(s[i])) => Within(e, q)
           /\ \A i, j \in DOMAIN s : Within(e, Whole(s[i])) /\ Within(e, Whole(s[j])) => i = j
    <2>1. CASE s = <<>>
        BY <2>1
    <2>2. CASE s = Split(f)
        BY <1>2, <1>5, <2>2, SplitParts
    <2> QED
        BY <2>1, <2>2
<1>12. PairwiseApart(s)
    BY <1>11 DEF PairwiseApart, Apart
<1>13. /\ \A i \in DOMAIN s, j \in DOMAIN t : Apart(Whole(s[i]), Whole(t[j]))
       /\ \A i \in DOMAIN s, j \in DOMAIN u : Apart(Whole(s[i]), Whole(u[j]))
       /\ \A i \in DOMAIN t, j \in DOMAIN u : Apart(Whole(t[i]), Whole(u[j]))
    BY <1>7, <1>9, <1>11, Zenon DEF Apart
<1>14. s \in Seq(Loops) /\ t \in Seq(Loops) /\ u \in Seq(Loops) /\ todo' = s \o t \o u
    BY <1>3, <1>4
<1>15. PairwiseApart(todo')
    <2>1. PairwiseApart(s \o t \o u)
        BY <1>8, <1>10, <1>12, <1>13, <1>14, LoopsApart
    <2> QED
        BY <1>14, <2>1, Zenon
<1>16. \A i \in DOMAIN todo' :
           \/ \E k \in DOMAIN s : todo'[i] = s[k]
           \/ \E k \in DOMAIN t : todo'[i] = t[k]
           \/ \E k \in DOMAIN u : todo'[i] = u[k]
    <2>1. \A i \in DOMAIN (s \o t \o u) :
              \/ \E k \in DOMAIN s : (s \o t \o u)[i] = s[k]
              \/ \E k \in DOMAIN t : (s \o t \o u)[i] = t[k]
              \/ \E k \in DOMAIN u : (s \o t \o u)[i] = u[k]
        BY <1>14, OneOfThree
    <2> QED
        BY <1>14, <2>1, Zenon
<1>17. ASSUME NEW r \in DOMAIN rows, rows[r].created = now
       PROVE  /\ Apart(rows[r].ask, Whole(f)) /\ Apart(rows[r].ask, q)
              /\ \A i \in DOMAIN todo' : Apart(rows[r].ask, Whole(todo'[i]))
    <2>1. Apart(rows[r].ask, Whole(f)) /\ \A k \in DOMAIN u : Apart(rows[r].ask, Whole(u[k]))
        BY <1>5, <1>6, <1>17
    <2>2. Apart(rows[r].ask, q)
        BY <1>9, <2>1 DEF Apart
    <2>3. \A k \in DOMAIN s : Apart(rows[r].ask, Whole(s[k]))
        BY <1>11, <2>2 DEF Apart
    <2>4. \A k \in DOMAIN t : Apart(rows[r].ask, Whole(t[k]))
        BY <1>9, <2>1 DEF Apart
    <2> QED
        BY <1>16, <2>1, <2>2, <2>3, <2>4, Zenon
<1>18. Ask /\ IsQuery(Items(q)) => \A i \in DOMAIN todo' : Apart(q, Whole(todo'[i]))
    <2> SUFFICES ASSUME Ask, IsQuery(Items(q)), NEW i \in DOMAIN todo'
                 PROVE  Apart(q, Whole(todo'[i]))
        OBVIOUS
    <2>1. ~(Items(q) >= Limit)
        BY ItemsTyped, DiveAssumption DEF IsQuery
    <2>2. DOMAIN s = {}
        BY <1>3, <2>1
    <2>3. \A k \in DOMAIN t : Apart(q, Whole(t[k]))
        BY <1>9 DEF Apart
    <2>4. \A k \in DOMAIN u : Apart(q, Whole(u[k]))
        BY <1>7, <1>9 DEF Apart
    <2> QED
        BY <1>16, <2>2, <2>3, <2>4, Zenon
<1>19. \/ rows' = rows
       \/ /\ Ask /\ IsQuery(Items(q)) /\ DOMAIN rows' = DOMAIN rows \cup {Len(rows) + 1}
          /\ rows'[Len(rows) + 1].ask = q /\ rows'[Len(rows) + 1].created = now
          /\ \A r \in DOMAIN rows : rows'[r] = rows[r]
    <2>1. CASE Ask /\ IsQuery(Items(q))
        BY <1>2, <2>1, AskRows DEF QueryRow
    <2>2. CASE Ask /\ ~IsQuery(Items(q))
        BY <1>2, <2>2 DEF Ask
    <2>3. CASE AskRefused
        BY <2>3 DEF AskRefused
    <2> QED
        BY <2>1, <2>2, <2>3 DEF DiveStep
<1>20. \A r \in DOMAIN rows', i \in DOMAIN todo' :
           rows'[r].created = now => Apart(rows'[r].ask, Whole(todo'[i]))
    BY <1>17, <1>18, <1>19
<1>21. \A r, o \in DOMAIN rows' :
           r # o /\ rows'[r].created = rows'[o].created => Apart(rows'[r].ask, rows'[o].ask)
    <2>1. \A x, y : Apart(x, y) => Apart(y, x)
        BY DEF Apart
    <2> QED
        BY <1>6, <1>17, <1>19, <2>1 DEF RowsApart
<1>22. \A x, y : Apart(x, y)' <=> Apart(x, y)
    BY <1>1 DEF Apart
<1> QED
    BY <1>1, <1>15, <1>20, <1>21, <1>22 DEF DiveApart, RowsApart, PairwiseApart, Apart

LEMMA DiveApartInit ==
    ASSUME Init
    PROVE  DiveApart
BY DEF Init, DiveApart, PairwiseApart, RowsApart

LEMMA DiveApartNext ==
    ASSUME Typed, Paced, DiveApart, [Next]_windowVars
    PROVE  DiveApart'
<1>1. CASE UNCHANGED windowVars
    BY <1>1 DEF windowVars, diveVars, DiveApart, PairwiseApart, RowsApart, Apart
<1>2. CASE Tick
    <2>1. todo = <<>> /\ UNCHANGED <<world, rows, todo, job>>
        BY <1>2 DEF Tick
    <2> QED
        BY <2>1 DEF DiveApart, PairwiseApart, RowsApart, Apart
<1>3. CASE Schedule /\ job = "GDACS"
    <2>1. /\ todo' = <<Dive(StartDay, Today, Size)>> /\ UNCHANGED <<world, now, rows, job>>
          /\ last = Never \/ Day(last) < Today
        BY <1>3 DEF Schedule
    <2>2. \A r \in DOMAIN rows : rows[r].created # now
        <3> SUFFICES ASSUME NEW r \in DOMAIN rows, rows[r].created = now PROVE FALSE
            OBVIOUS
        <3>1. last # Never /\ rows[r].created <= last /\ last <= now
            BY <1>3 DEF Paced
        <3>2. last = now
            <4>1. last \in Nat /\ now \in Nat
                BY <3>1, Clock, WindowAssumption DEF Typed, Never
            <4> QED
                BY <3>1, <4>1
        <3>3. Today < Today
            BY <2>1, <3>1, <3>2 DEF Today
        <3> QED
            BY <3>3, Clock
    <2>3. PairwiseApart(todo)'
        <3>1. \A i, j \in DOMAIN todo' : i = j
            <4> DEFINE g == Dive(StartDay, Today, Size)
            <4> HIDE DEF g
            <4>1. todo' = <<g>>
                BY <2>1 DEF g
            <4> QED
                BY <4>1
        <3> QED
            BY <3>1 DEF PairwiseApart
    <2> QED
        BY <1>3, <2>1, <2>2, <2>3 DEF DiveApart, RowsApart, Apart
<1>4. CASE job # "GDACS"
    <2>1. job' = job
        BY DEF Next, Tick, Schedule, DiveStep, RunByHand, Run, RunFails, RunAgain, windowVars
    <2> QED
        BY <1>4, <2>1 DEF DiveApart
<1>5. CASE DiveStep
    BY <1>5, DiveApartDive
<1>6. ASSUME NEW r \in DOMAIN rows, Run(r) \/ RunFails(r) \/ RunAgain(r)
      PROVE  DiveApart'
    <2>1. /\ UNCHANGED <<world, now, todo, job>> /\ todo = <<>> /\ DOMAIN rows' = DOMAIN rows
          /\ \A o \in DOMAIN rows :
                 rows'[o].ask = rows[o].ask /\ rows'[o].created = rows[o].created
        BY <1>6, RunRows
    <2> QED
        BY <2>1 DEF DiveApart, PairwiseApart, RowsApart, Apart
<1>7. CASE \E a, b \in 0..Today : RunByHand(a, b)
    BY <1>4, <1>7 DEF RunByHand
<1> QED
    BY <1>1, <1>2, <1>3, <1>4, <1>5, <1>6, <1>7 DEF Next

(* The queries of one dive share no event, however the days are halved and a day  *)
(* is split by levels and countries, and whatever the cache says: an event is     *)
(* asked for once (segment_gdacs.py).                                            *)
THEOREM DiveAsksOnce == Spec => []DiveDisjoint
<1>1. DiveApart => DiveDisjoint
    BY DEF DiveApart, RowsApart, Apart, DiveDisjoint
<1> QED
    BY <1>1, TypedInit, TypedNext, PacedInit, PacedNext, DiveApartInit, DiveApartNext, PTL DEF Spec

-----------------------------------------------------------------------------
(* No event falls between two windows.  Inductively, an event that the job should *)
(* know of is held by a row made after it, or lies in a loop of the dive that is  *)
(* still to be asked, or is excused by what the property names.                   *)

Held(e) == \E r \in DOMAIN rows : Within(e, rows[r].ask) /\ e.at <= rows[r].created
Missed(e) == \E q \in missed : Within(e, q)

\* What a successful row has not found has been missed.
Answered ==
    \A r \in DOMAIN rows, e \in world :
        (rows[r].status = "SUCCESS" /\ Within(e, rows[r].ask) /\ e.at <= rows[r].created)
            => e \in rows[r].got \/ Missed(e)

\* A window is asked for with every kind at once.
Siblings ==
    job # "GDACS" => \A r \in DOMAIN rows, k \in DOMAIN Kinds : \E s \in DOMAIN rows :
        /\ rows[s].ask = Region(rows[r].ask.from, rows[r].ask.to, Kinds[k], "any")
        /\ rows[s].created = rows[r].created

\* The daily job of EM-DAT asks until the end of the year.
WholeYears ==
    job = "EMDAT" => \A r \in DOMAIN rows \ byHand :
        FirstOfYear(Year(rows[r].created) + 1) - 1 <= rows[r].ask.to

\* The exceptions of the property that are for good.
Excused(e) ==
    \/ Missed(e)
    \/ job \in Nested /\ Drifted
    \/ job \in {"USGS", "GLIDE"} /\ byHand # {}
    \/ job \in {"PDC", "IFRC"} /\ \E r \in byHand : e.at < rows[r].ask.from

InTodo(e) == \E i \in DOMAIN todo : Within(e, Whole(todo[i]))

Covered == job # "EMDAT" => \A e \in world : Due(e) => Held(e) \/ Excused(e) \/ InTodo(e)

Windowed == Typed /\ Paced /\ Answered /\ Siblings /\ WholeYears /\ Covered

\* What a step leaves of the rows.
LEMMA RowsKept ==
    ASSUME Typed, [Next]_windowVars
    PROVE  /\ UNCHANGED <<world, job>> /\ now \in Nat /\ now' \in Nat /\ now <= now'
           /\ missed \subseteq missed'
           /\ byHand \subseteq byHand' /\ DOMAIN rows \subseteq DOMAIN rows'
           /\ \A r \in DOMAIN rows :
                  /\ rows'[r].ask = rows[r].ask /\ rows'[r].created = rows[r].created
                  /\ rows[r].status = "SUCCESS" => rows'[r] = rows[r]
                  /\ r \in byHand' => r \in byHand
           /\ \A r \in DOMAIN rows' : rows'[r].status = "SUCCESS" =>
                  r \in DOMAIN rows /\ (rows'[r] = rows[r] \/ Run(r))
<1>1. CASE UNCHANGED windowVars
    BY <1>1, Clock DEF windowVars, diveVars
<1>2. CASE Tick
    BY <1>2, Clock DEF Tick
<1>3. CASE Schedule /\ job = "GDACS"
    <2>1. UNCHANGED <<world, now, job, rows, byHand, missed>>
        BY <1>3 DEF Schedule
    <2> QED
        BY <2>1, Clock
<1>4. CASE Schedule /\ job # "GDACS"
    BY <1>4, ScheduledRows, Clock
<1>5. CASE DiveStep
    <2>1. UNCHANGED <<world, now, job, byHand>> /\ missed \subseteq missed'
        BY <1>5 DEF DiveStep, Ask, AskRefused
    <2>2. /\ DOMAIN rows \subseteq DOMAIN rows'
          /\ \A r \in DOMAIN rows : rows'[r] = rows[r]
          /\ \A r \in DOMAIN rows' : rows'[r].status = "SUCCESS" => r \in DOMAIN rows
        <3>1. CASE Ask
            <4>1. \A q : QueryRow(q).status = "PENDING"
                BY DEF QueryRow
            <4>2. /\ \A r \in DOMAIN rows : rows'[r] = rows[r]
                  /\ \/ DOMAIN rows' = DOMAIN rows \cup {Len(rows) + 1}
                        /\ rows'[Len(rows) + 1] = QueryRow(AskOf(Head(todo)))
                     \/ DOMAIN rows' = DOMAIN rows
                BY <3>1, AskRows
            <4> QED
                BY <4>1, <4>2
        <3>2. CASE AskRefused
            BY <3>2 DEF AskRefused
        <3> QED
            BY <1>5, <3>1, <3>2 DEF DiveStep
    <2> QED
        BY <2>1, <2>2, Clock
<1>6. ASSUME NEW a \in 0..Today, NEW b \in 0..Today, RunByHand(a, b)
      PROVE  /\ UNCHANGED <<world, job>> /\ now' = now /\ missed' = missed
             /\ byHand \subseteq byHand' /\ DOMAIN rows \subseteq DOMAIN rows'
             /\ \A r \in DOMAIN rows : rows'[r] = rows[r] /\ (r \in byHand' => r \in byHand)
             /\ \A r \in DOMAIN rows' : rows'[r].status = "SUCCESS" => r \in DOMAIN rows
    BY <1>6, HandRows
<1>7. ASSUME NEW r \in DOMAIN rows, Run(r) \/ RunFails(r) \/ RunAgain(r)
      PROVE  /\ UNCHANGED <<world, job, now, byHand>> /\ missed \subseteq missed'
             /\ DOMAIN rows' = DOMAIN rows
             /\ \A o \in DOMAIN rows :
                  /\ rows'[o].ask = rows[o].ask /\ rows'[o].created = rows[o].created
                  /\ rows[o].status = "SUCCESS" => rows'[o] = rows[o]
                  /\ rows'[o].status = "SUCCESS" => rows'[o] = rows[o] \/ Run(o)
    <2>1. /\ UNCHANGED <<world, job, now, byHand>> /\ DOMAIN rows' = DOMAIN rows
          /\ \A o \in DOMAIN rows :
                 rows'[o].ask = rows[o].ask /\ rows'[o].created = rows[o].created
          /\ \A o \in DOMAIN rows : o # r => rows'[o] = rows[o]
        BY <1>7, RunRows
    <2>2. missed \subseteq missed' /\ rows[r].status # "SUCCESS"
        BY <1>7 DEF Run, RunFails, RunAgain
    <2>3. Run(r) \/ rows'[r].status # "SUCCESS"
        <3>1. CASE RunFails(r) \/ RunAgain(r)
            <4>1. PICK row \in RowSet : rows' = [rows EXCEPT ![r] = row] /\ row.status # "SUCCESS"
                BY <3>1, RunOther
            <4> QED
                BY <4>1
        <3> QED
            BY <1>7, <3>1
    <2> QED
        BY <2>1, <2>2, <2>3
<1> QED
    BY <1>1, <1>2, <1>3, <1>4, <1>5, <1>6, <1>7, Clock DEF Next

LEMMA AnsweredNext ==
    ASSUME Typed, Answered, [Next]_windowVars
    PROVE  Answered'
<1>1. /\ UNCHANGED world /\ missed \subseteq missed' /\ DOMAIN rows \subseteq DOMAIN rows'
      /\ \A r \in DOMAIN rows :
             rows'[r].ask = rows[r].ask /\ rows'[r].created = rows[r].created
      /\ \A r \in DOMAIN rows' : rows'[r].status = "SUCCESS" =>
                  r \in DOMAIN rows /\ (rows'[r] = rows[r] \/ Run(r))
    BY RowsKept
<1> SUFFICES ASSUME NEW r \in DOMAIN rows', NEW e \in world, rows'[r].status = "SUCCESS",
                    Within(e, rows'[r].ask), e.at <= rows'[r].created
             PROVE  e \in rows'[r].got \/ \E q \in missed' : Within(e, q)
    BY <1>1 DEF Answered, Missed, Within
<1>2. r \in DOMAIN rows
    BY <1>1
<1>3. CASE rows'[r] = rows[r]
    BY <1>1, <1>2, <1>3 DEF Answered, Missed
<1>4. CASE Run(r)
    <2>1. PICK row \in RowSet :
               /\ rows' = [rows EXCEPT ![r] = row]
               /\ \/ row.got = Visible(row.ask)
                  \/ row.ask \in missed'
        BY <1>2, <1>4, RunRow
    <2>2. rows'[r] = row
        BY <1>2, <2>1
    <2>3. e.at <= now
        <3>1. rows[r].created \in Nat /\ rows[r].created <= now /\ e.at \in Nat
            BY <1>2, RowTyped, FiniteWorld, Clock DEF RowOK
        <3> QED
            BY <1>1, <1>2, <3>1, Clock
    <2> QED
        BY <2>1, <2>2, <2>3 DEF Visible
<1> QED
    BY <1>1, <1>3, <1>4

LEMMA SiblingsNext ==
    ASSUME Typed, Siblings, [Next]_windowVars
    PROVE  Siblings'
<1>1. /\ UNCHANGED job /\ DOMAIN rows \subseteq DOMAIN rows'
      /\ \A r \in DOMAIN rows :
             rows'[r].ask = rows[r].ask /\ rows'[r].created = rows[r].created
    BY RowsKept
<1> SUFFICES ASSUME job # "GDACS", NEW r \in DOMAIN rows', NEW k \in DOMAIN Kinds
             PROVE  \E s \in DOMAIN rows' :
                        /\ rows'[s].ask = Region(rows'[r].ask.from, rows'[r].ask.to, Kinds[k], "any")
                        /\ rows'[s].created = rows'[r].created
    BY <1>1 DEF Siblings, Kinds
<1>2. CASE r \in DOMAIN rows
    BY <1>1, <1>2 DEF Siblings
<1>3. CASE r \notin DOMAIN rows
    <2>1. \A w, kind : QueryFor(w, kind).ask = Region(w.from, w.to, kind, "any")
                       /\ QueryFor(w, kind).created = now
        BY DEF QueryFor, QueryRow
    <2>2. CASE Schedule
        <3>1. rows'[r].created = now /\ rows'[r].ask.from = Window.from /\ rows'[r].ask.to = Window.to
            BY <1>3, <2>2, ScheduledRows
        <3>2. \E s \in DOMAIN rows' : rows'[s] = QueryFor(Window, Kinds[k])
            BY <2>2, ScheduledRows
        <3> QED
            BY <2>1, <3>1, <3>2
    <2>3. ASSUME NEW a \in 0..Today, NEW b \in 0..Today, RunByHand(a, b)
          PROVE  \E s \in DOMAIN rows' :
                        /\ rows'[s].ask = Region(rows'[r].ask.from, rows'[r].ask.to, Kinds[k], "any")
                        /\ rows'[s].created = rows'[r].created
        <3>1. PICK i \in DOMAIN WindowsByHand(a, b) :
                   /\ rows'[r].created = now
                   /\ rows'[r].ask.from = WindowsByHand(a, b)[i].from
                   /\ rows'[r].ask.to = WindowsByHand(a, b)[i].to
            BY <1>3, <2>3, HandRows
        <3>2. \E s \in (Len(rows) + 1)..Len(rows') :
                  rows'[s] = QueryFor(WindowsByHand(a, b)[i], Kinds[k])
            BY <2>3, HandRows
        <3>3. \A s \in (Len(rows) + 1)..Len(rows') : s \in DOMAIN rows'
            <4>1. Len(rows) \in Nat /\ Len(rows') \in Nat /\ DOMAIN rows' = 1..Len(rows')
                BY <2>3, HandRows
            <4> QED
                BY <4>1
        <3> QED
            BY <2>1, <3>1, <3>2, <3>3
    <2>4. CASE Tick \/ UNCHANGED windowVars
        BY <1>3, <2>4 DEF Tick, windowVars, diveVars
    <2>5. CASE DiveStep
        <3>1. todo # <<>>
            BY <2>5 DEF DiveStep, Ask, AskRefused
        <3> QED
            BY <3>1 DEF Typed
    <2>6. ASSUME NEW o \in DOMAIN rows, Run(o) \/ RunFails(o) \/ RunAgain(o)
          PROVE  FALSE
        BY <1>3, <2>6, RunRows
    <2> QED
        BY <2>2, <2>3, <2>4, <2>5, <2>6 DEF Next
<1> QED
    BY <1>2, <1>3

LEMMA WholeYearsNext ==
    ASSUME Typed, WholeYears, [Next]_windowVars
    PROVE  WholeYears'
<1>1. /\ UNCHANGED job /\ byHand \subseteq byHand'
      /\ \A r \in DOMAIN rows :
             rows'[r].ask = rows[r].ask /\ rows'[r].created = rows[r].created
    BY RowsKept
<1> SUFFICES ASSUME job = "EMDAT", NEW r \in DOMAIN rows' \ byHand'
             PROVE  FirstOfYear(Year(rows'[r].created) + 1) - 1 <= rows'[r].ask.to
    BY <1>1 DEF WholeYears, FirstOfYear, FirstOf, Year, Day
<1>2. CASE r \in DOMAIN rows
    BY <1>1, <1>2 DEF WholeYears
<1>3. CASE r \notin DOMAIN rows
    <2>2. CASE Schedule
        <3>1. rows'[r].created = now /\ rows'[r].ask.to = Window.to
            BY <1>3, <2>2, ScheduledRows
        <3>2. Window.to = FirstOfYear(Year(now) + 1) - 1
            BY DEF Window, EmdatWindow
        <3>3. FirstOfYear(Year(now) + 1) \in Nat
            BY Clock, YearOrder
        <3> QED
            BY <3>1, <3>2, <3>3
    <2>3. ASSUME NEW a \in 0..Today, NEW b \in 0..Today, RunByHand(a, b)
          PROVE  FALSE
        BY <1>3, <2>3, HandRows
    <2>4. CASE Tick \/ UNCHANGED windowVars
        BY <1>3, <2>4 DEF Tick, windowVars, diveVars
    <2>5. CASE DiveStep
        <3>1. todo # <<>>
            BY <2>5 DEF DiveStep, Ask, AskRefused
        <3> QED
            BY <3>1 DEF Typed
    <2>6. ASSUME NEW o \in DOMAIN rows, Run(o) \/ RunFails(o) \/ RunAgain(o)
          PROVE  FALSE
        BY <1>3, <2>6, RunRows
    <2> QED
        BY <2>2, <2>3, <2>4, <2>5, <2>6 DEF Next
<1> QED
    BY <1>2, <1>3

\* What is held, missed or excused stays so.
LEMMA KeptFor ==
    ASSUME Typed, [Next]_windowVars, NEW e \in world
    PROVE  Held(e) \/ Excused(e) => Held(e)' \/ Excused(e)'
<1>1. /\ UNCHANGED <<world, job>> /\ missed \subseteq missed'
      /\ byHand \subseteq byHand' /\ DOMAIN rows \subseteq DOMAIN rows'
      /\ \A r \in DOMAIN rows :
             /\ rows'[r].ask = rows[r].ask /\ rows'[r].created = rows[r].created
             /\ rows[r].status = "SUCCESS" => rows'[r] = rows[r]
    BY RowsKept
<1>2. Held(e) => Held(e)'
    BY <1>1 DEF Held, Within
<1>3. Missed(e) => Missed(e)'
    BY <1>1 DEF Missed, Within
<1>4. Drifted => Drifted'
    BY <1>1 DEF Drifted, Done, Day
<1>5. (\E r \in byHand : e.at < rows[r].ask.from) => \E r \in byHand' : e.at < rows'[r].ask.from
    BY <1>1 DEF Typed
<1>6. byHand # {} => byHand' # {}
    BY <1>1
<1> QED
    BY <1>1, <1>2, <1>3, <1>4, <1>5, <1>6 DEF Excused

LEMMA KindOf ==
    ASSUME Typed, NEW e \in world
    PROVE  \E k \in DOMAIN Kinds : Kinds[k] \in {"any", e.level}
<1>1. CASE job \in {"PDC", "GLIDE"}
    <2>1. e.level \in NamesIn(Levels)
        BY FiniteWorld
    <2> QED
        BY <1>1, <2>1 DEF NamesIn, Kinds
<1>2. CASE job \notin {"PDC", "GLIDE"}
    BY <1>2 DEF Kinds
<1> QED
    BY <1>1, <1>2

\* A window that holds the event has been asked for with the event's kind.
LEMMA InWindowOf ==
    ASSUME Typed, Siblings, job # "GDACS", NEW e \in world, NEW r \in DOMAIN rows,
           rows[r].ask.from <= e.at, e.at <= rows[r].ask.to, e.at <= rows[r].created
    PROVE  Held(e)
<1>1. PICK k \in DOMAIN Kinds : Kinds[k] \in {"any", e.level}
    BY KindOf
<1>2. PICK s \in DOMAIN rows :
          /\ rows[s].ask = Region(rows[r].ask.from, rows[r].ask.to, Kinds[k], "any")
          /\ rows[s].created = rows[r].created
    BY DEF Siblings
<1>3. e.at \in Nat /\ rows[r].ask.from \in Nat /\ rows[r].ask.to \in Nat
    BY FiniteWorld, RowTyped
<1>4. Within(e, rows[s].ask)
    BY <1>1, <1>2, <1>3 DEF Within, Region
<1> QED
    BY <1>2, <1>4 DEF Held

\* What lies in the window of the daily job is held once that has run.
LEMMA InNewWindow ==
    ASSUME Typed, Schedule, job # "GDACS", NEW e \in world,
           Window.from <= e.at, e.at <= Window.to, e.at <= now
    PROVE  Held(e)'
<1>1. PICK k \in DOMAIN Kinds : Kinds[k] \in {"any", e.level}
    BY KindOf
<1>2. PICK s \in DOMAIN rows' : rows'[s] = QueryFor(Window, Kinds[k])
    BY ScheduledRows
<1>3. Window.from \in Nat /\ Window.to \in Nat /\ e.at \in Nat
    BY ScheduledRows, FiniteWorld DEF Windows
<1>4. /\ rows'[s].ask.from = Window.from /\ rows'[s].ask.to = Window.to
      /\ rows'[s].ask.level = Kinds[k] /\ rows'[s].ask.country = "any" /\ rows'[s].created = now
    <2>1. \A w, kind : /\ QueryFor(w, kind).ask = Region(w.from, w.to, kind, "any")
                       /\ QueryFor(w, kind).created = now
        BY DEF QueryFor, QueryRow
    <2>2. \A a, b, c : /\ Region(a, b, c, "any").from = a /\ Region(a, b, c, "any").to = b
                       /\ Region(a, b, c, "any").level = c /\ Region(a, b, c, "any").country = "any"
        BY DEF Region
    <2> QED
        BY <1>2, <2>1, <2>2
<1>5. Within(e, rows'[s].ask)
    BY <1>1, <1>3, <1>4 DEF Within
<1> QED
    BY <1>4, <1>5 DEF Held, Within

\* The days before the newest one that a row, or child, was made on.
LEMMA BeforeStart ==
    ASSUME Windowed, todo = <<>>, job \in {"USGS", "GLIDE", "GDACS"},
           NEW e \in world, e.at < FirstOf(StartDay)
    PROVE  Held(e) \/ Excused(e)
<1> SUFFICES ASSUME ~Excused(e) PROVE Held(e)
    OBVIOUS
<1>1. Typed /\ Paced /\ Covered
    BY DEF Windowed
<1>2. byHand = {}
    BY <1>1 DEF Excused, Paced
<1>3. e.at \in Nat
    BY <1>1, FiniteWorld
<1>4. Done # {}
    <2>1. SUFFICES ASSUME Done = {} PROVE FALSE
        OBVIOUS
    <2>2. StartDay = 0
        BY <1>1, <2>1, StartOfWindow
    <2>3. FirstOf(0) = 0
        BY DiveAssumption DEF FirstOf
    <2> QED
        BY <1>3, <2>2, <2>3
<1>5. PICK r \in Done : StartDay = Day(rows[r].child)
    BY <1>1, <1>4, StartOfWindow
<1>6. /\ r \in DOMAIN rows /\ rows[r].child \in Nat /\ rows[r].created \in Nat /\ RowOK(rows[r])
    BY <1>1, <1>5, RowTyped DEF Done
<1>7. Day(rows[r].child) \in Nat /\ Day(rows[r].created) \in Nat
    BY <1>6, DayBounds
<1>8. Day(rows[r].child) <= Day(rows[r].created)
    <2>1. CASE job \in Nested
        BY <1>5, <1>7, <2>1 DEF Excused, Drifted
    <2>2. CASE job \notin Nested
        BY <1>6, <1>7, <2>2 DEF RowOK
    <2> QED
        BY <2>1, <2>2
<1>9. last # Never /\ last \in Nat /\ last <= now /\ rows[r].created <= last
    BY <1>1, <1>2, <1>6, WindowAssumption DEF Paced, Typed, Never
<1>10. Day(last) \in Nat /\ Day(rows[r].created) <= Day(last) /\ FirstOf(Day(last)) \in Nat
       /\ FirstOf(Day(last)) <= last
    <2>1. Day(last) \in Nat
        BY <1>9, DayBounds
    <2>2. Day(rows[r].created) <= Day(last)
        BY <1>6, <1>7, <1>9, DayOrder
    <2> QED
        BY <1>9, <2>1, <2>2, DayBounds
<1>11. FirstOf(StartDay) \in Nat /\ FirstOf(StartDay) <= FirstOf(Day(last))
    <2>1. StartDay \in Nat /\ StartDay <= Day(last)
        BY <1>5, <1>7, <1>8, <1>10
    <2> QED
        BY <1>10, <2>1, DayBounds, DayOrder
<1>12. Due(e)
    <2>1. e.at <= FirstOf(Day(last)) /\ e.at <= last
        BY <1>3, <1>9, <1>10, <1>11
    <2> QED
        BY <1>9, <2>1 DEF Due
<1>13. ~InTodo(e)
    BY DEF InTodo
<1> QED
    BY <1>1, <1>12, <1>13 DEF Covered

\* What the newest successful row of PDC or IFRC has asked for.
LEMMA BeforeNewest ==
    ASSUME Windowed, todo = <<>>, job \in {"PDC", "IFRC"}, Done # {},
           NEW e \in world, e.at <= rows[NewestOf(Done)].ask.to
    PROVE  Held(e) \/ Excused(e)
<1> SUFFICES ASSUME ~Excused(e) PROVE Held(e)
    OBVIOUS
<1>1. Typed /\ Paced /\ Covered /\ Siblings
    BY DEF Windowed
<1>2. PICK n : n = NewestOf(Done)
    OBVIOUS
<1>3. n \in DOMAIN rows
    BY <1>1, <1>2, NewestRow DEF Done
<1>4. /\ rows[n].ask.from \in Nat /\ rows[n].ask.to \in Nat
      /\ rows[n].created \in Nat /\ rows[n].child \in Nat /\ RowOK(rows[n])
    BY <1>1, <1>3, RowTyped
<1>5. Day(rows[n].created) \in Nat /\ FirstOf(Day(rows[n].created)) \in Nat
      /\ FirstOf(Day(rows[n].created)) <= rows[n].created
    <2>1. Day(rows[n].created) \in Nat
        BY <1>4, DayBounds
    <2> QED
        BY <1>4, <2>1, DayBounds
<1>6. e.at \in Nat /\ e.at <= rows[n].ask.to
    BY <1>1, <1>2, FiniteWorld
<1>7. e.at <= rows[n].created /\ (job = "IFRC" => e.at <= FirstOf(Day(rows[n].created)))
    BY <1>4, <1>5, <1>6 DEF RowOK
<1>8. CASE n \in byHand
    <2>1. rows[n].ask.from <= e.at
        BY <1>4, <1>6, <1>8 DEF Excused
    <2> QED
        BY <1>1, <1>3, <1>6, <1>7, <2>1, InWindowOf
<1>9. CASE n \notin byHand
    <2>1. last # Never /\ last \in Nat /\ rows[n].created <= last
        BY <1>1, <1>3, <1>9, WindowAssumption DEF Paced, Typed, Never
    <2>2. Day(last) \in Nat /\ Day(rows[n].created) <= Day(last)
        BY <1>4, <2>1, DayBounds, DayOrder
    <2>3. FirstOf(Day(last)) \in Nat /\ FirstOf(Day(rows[n].created)) <= FirstOf(Day(last))
        BY <1>5, <2>2, DayBounds, DayOrder
    <2>4. Due(e)
        <3>1. e.at <= last
            BY <1>4, <1>6, <1>7, <2>1
        <3>2. job = "IFRC" => e.at <= FirstOf(Day(last))
            BY <1>5, <1>6, <1>7, <2>3
        <3> QED
            BY <2>1, <3>1, <3>2 DEF Due
    <2>5. ~InTodo(e)
        BY DEF InTodo
    <2> QED
        BY <1>1, <2>4, <2>5 DEF Covered
<1> QED
    BY <1>8, <1>9

\* What is due once the job has run, and where the windows take it from.
LEMMA CoveredSchedule ==
    ASSUME Windowed, Schedule
    PROVE  Covered'
<1>1. Typed /\ UNCHANGED <<world, now, job>> /\ last' = now /\ todo = <<>> /\ now \in Nat
    BY Clock DEF Windowed, Schedule
<1>2. [Next]_windowVars
    BY DEF Next
<1> SUFFICES ASSUME job # "EMDAT", NEW e \in world, Due(e)'
             PROVE  Held(e)' \/ Excused(e)' \/ InTodo(e)'
    BY <1>1 DEF Covered
<1>3. e.at \in Nat /\ Today \in Nat /\ FirstOf(Today) \in Nat /\ FirstOf(Today) <= now
      /\ now <= LastOf(Today) /\ LastOf(Today) \in Nat
    BY <1>1, FiniteWorld, Clock
<1>4. e.at <= now /\ (job \in {"USGS", "IFRC"} => e.at <= FirstOf(Today))
    BY <1>1, <1>3 DEF Due, Day, FirstOf, Today
<1>5. Held(e) \/ Excused(e) => Held(e)' \/ Excused(e)'
    BY <1>1, <1>2, KeptFor
<1>6. CASE job \in {"USGS", "GLIDE", "GDACS"}
    <2>1. StartDay \in Nat /\ FirstOf(StartDay) \in Nat
        BY <1>1, StartOfWindow, DayBounds
    <2>2. CASE e.at < FirstOf(StartDay)
        BY <1>1, <1>5, <1>6, <2>2, BeforeStart
    <2>3. CASE FirstOf(StartDay) <= e.at /\ job = "USGS"
        <3>1. Window.from = FirstOf(StartDay) /\ Window.to = FirstOf(Today)
            BY <2>3 DEF Window, UsgsWindow
        <3> QED
            BY <1>1, <1>4, <2>3, <3>1, InNewWindow
    <2>4. CASE FirstOf(StartDay) <= e.at /\ job = "GLIDE"
        <3>1. Window.from = FirstOf(StartDay) /\ Window.to = LastOf(Today)
            BY <2>4 DEF Window, GlideWindow
        <3>2. e.at <= LastOf(Today)
            BY <1>1, <1>3, <1>4
        <3> QED
            BY <1>1, <1>4, <2>4, <3>1, <3>2, InNewWindow
    <2>5. CASE FirstOf(StartDay) <= e.at /\ job = "GDACS"
        <3> DEFINE f == Dive(StartDay, Today, Size)
        <3>1. todo' = <<f>>
            BY <2>5 DEF Schedule
        <3>2. e.at <= LastOf(Today)
            BY <1>1, <1>3, <1>4
        <3>3. Within(e, Whole(f))
            BY <1>3, <2>1, <2>5, <3>2 DEF Dive, Whole, Region, Within
        <3> HIDE DEF f
        <3>4. 1 \in DOMAIN todo' /\ todo'[1] = f
            BY <3>1
        <3> QED
            BY <3>3, <3>4 DEF InTodo, Whole, Within, FirstOf, LastOf, Region
    <2> QED
        BY <1>3, <1>6, <2>1, <2>2, <2>3, <2>4, <2>5
<1>7. CASE job = "PDC"
    <2>1. Window.to = now
        BY <1>7 DEF Window, PdcWindow
    <2>2. CASE Done = {}
        <3>1. Window.from = 0
            BY <1>7, <2>2 DEF Window, PdcWindow
        <3> QED
            BY <1>1, <1>3, <1>4, <1>7, <2>1, <3>1, InNewWindow
    <2>3. CASE Done # {} /\ e.at <= rows[NewestOf(Done)].ask.to
        BY <1>1, <1>5, <1>7, <2>3, BeforeNewest
    <2>4. CASE Done # {} /\ ~(e.at <= rows[NewestOf(Done)].ask.to)
        <3>1. Window.from = rows[NewestOf(Done)].ask.to + 1
            BY <1>7, <2>4 DEF Window, PdcWindow
        <3>2. rows[NewestOf(Done)].ask.to \in Nat
            BY <1>1, <2>4, NewestRow, RowTyped DEF Done
        <3>3. Window.from <= e.at
            BY <1>3, <2>4, <3>1, <3>2
        <3> QED
            BY <1>1, <1>4, <1>7, <2>1, <3>3, InNewWindow
    <2> QED
        BY <2>2, <2>3, <2>4
<1>8. CASE job = "IFRC"
    <2>1. Window.to = FirstOf(Today)
        BY <1>8 DEF Window, IfrcWindow
    <2>2. CASE Done = {}
        <3>1. Window.from = 0
            BY <1>8, <2>2 DEF Window, IfrcWindow
        <3> QED
            BY <1>1, <1>3, <1>4, <1>8, <2>1, <3>1, InNewWindow
    <2>3. CASE Done # {} /\ e.at <= rows[NewestOf(Done)].ask.to
        BY <1>1, <1>5, <1>8, <2>3, BeforeNewest
    <2>4. CASE Done # {} /\ ~(e.at <= rows[NewestOf(Done)].ask.to)
        <3>1. Window.from = rows[NewestOf(Done)].ask.to
            BY <1>8, <2>4 DEF Window, IfrcWindow
        <3>2. rows[NewestOf(Done)].ask.to \in Nat
            BY <1>1, <2>4, NewestRow, RowTyped DEF Done
        <3>3. Window.from <= e.at
            BY <1>3, <2>4, <3>1, <3>2
        <3> QED
            BY <1>1, <1>4, <1>8, <2>1, <3>3, InNewWindow
    <2> QED
        BY <2>2, <2>3, <2>4
<1> QED
    BY <1>1, <1>6, <1>7, <1>8, WindowAssumption DEF Typed, JobNames

\* Every loop of the three parts is in the list.
HasAll(all, part) == \A k \in DOMAIN part : \E i \in DOMAIN all : all[i] = part[k]

LEMMA PartsKept ==
    ASSUME NEW s \in Seq(Loops), NEW t \in Seq(Loops), NEW u \in Seq(Loops)
    PROVE  HasAll(s \o t \o u, s) /\ HasAll(s \o t \o u, t) /\ HasAll(s \o t \o u, u)
<1> DEFINE st == s \o t
<1>1. /\ st \in Seq(Loops) /\ \A k \in DOMAIN s : k \in DOMAIN st /\ st[k] = s[k]
      /\ \A k \in DOMAIN t : Len(s) + k \in DOMAIN st /\ st[Len(s) + k] = t[k]
    BY Joined
<1> HIDE DEF st
<1>2. st \in Seq(Loops)
    BY <1>1
<1>3. /\ \A k \in DOMAIN st : k \in DOMAIN (st \o u) /\ (st \o u)[k] = st[k]
      /\ \A k \in DOMAIN u : Len(st) + k \in DOMAIN (st \o u) /\ (st \o u)[Len(st) + k] = u[k]
    BY <1>2
<1>4. /\ \A k \in DOMAIN s : \E i \in DOMAIN (st \o u) : (st \o u)[i] = s[k]
      /\ \A k \in DOMAIN t : \E i \in DOMAIN (st \o u) : (st \o u)[i] = t[k]
      /\ \A k \in DOMAIN u : \E i \in DOMAIN (st \o u) : (st \o u)[i] = u[k]
    BY <1>1, <1>3, Zenon
<1> QED
    BY <1>4 DEF st, HasAll

\* A question that is asked loses no event: there are few answers and a row for them, or
\* too many and smaller questions, or it is missed.
LEMMA AskedWell ==
    ASSUME Typed, Ask, NEW e \in world, e.at <= now, Within(e, AskOf(Head(todo)))
    PROVE  \/ Held(e)' \/ Missed(e)'
           \/ /\ Items(AskOf(Head(todo))) >= Limit
              /\ \E i \in DOMAIN Split(Head(todo)) : Within(e, Whole(Split(Head(todo))[i]))
<1>1. PICK f, q : f = Head(todo) /\ q = AskOf(f)
    OBVIOUS
<1>2. Within(e, q) /\ f \in Loops /\ LoopOK(f) /\ todo # <<>> /\ UNCHANGED <<world, now>>
    BY <1>1, HeadOfTodo DEF Ask
<1>3. missed' = IF Items(q) # Cardinality(Visible(q)) \/ (Items(q) >= Limit /\ f.country # "any")
                THEN missed \cup {q} ELSE missed
    BY <1>1 DEF Ask
<1>4. Items(q) \in Nat /\ Limit \in Nat \ {0}
    BY ItemsTyped, DiveAssumption
<1>5. CASE q \in missed'
    BY <1>2, <1>5 DEF Missed, Within
<1>6. CASE q \notin missed' /\ Items(q) >= Limit
    <2>1. f.country = "any"
        BY <1>3, <1>6
    <2>2. \E i \in DOMAIN Split(f) : Within(e, Whole(Split(f)[i]))
        BY <1>1, <1>2, <2>1, SplitParts
    <2> QED
        BY <1>1, <1>6, <2>2
<1>7. CASE q \notin missed' /\ ~(Items(q) >= Limit)
    <2>1. Items(q) = Cardinality(Visible(q))
        BY <1>3, <1>7
    <2>2. e \in Visible(q)
        BY <1>2 DEF Visible
    <2>3. Items(q) # 0
        BY <2>1, <2>2, FiniteWorld, FS_EmptySet
    <2>4. IsQuery(Items(q))
        BY <1>4, <1>7, <2>3 DEF IsQuery
    <2>5. Len(rows) + 1 \in DOMAIN rows' /\ rows'[Len(rows) + 1] = QueryRow(q)
        BY <1>1, <2>4, AskRows
    <2>6. QueryRow(q).ask = q /\ QueryRow(q).created = now
        BY DEF QueryRow
    <2> QED
        BY <1>2, <2>5, <2>6 DEF Held, Within
<1> QED
    BY <1>5, <1>6, <1>7

LEMMA CoveredDive ==
    ASSUME Windowed, DiveStep
    PROVE  Covered'
<1>1. Typed /\ Paced /\ Covered /\ UNCHANGED <<world, now, job, last>> /\ todo # <<>> /\ [Next]_windowVars
    BY DEF Windowed, DiveStep, Ask, AskRefused, Next
<1>2. PICK f, q : f = Head(todo) /\ q = AskOf(f)
    OBVIOUS
<1>3. PICK s \in {<<>>, Split(f)} :
          /\ todo' = s \o RestOf(f) \o Tail(todo)
          /\ (Ask /\ Items(q) >= Limit) => s = Split(f)
          /\ s \in Seq(Loops) /\ RestOf(f) \in Seq(Loops) /\ Tail(todo) \in Seq(Loops)
    BY <1>1, <1>2, DiveTodo
<1>4. PICK t, u : t = RestOf(f) /\ u = Tail(todo)
    OBVIOUS
<1>5. s \in Seq(Loops) /\ t \in Seq(Loops) /\ u \in Seq(Loops) /\ todo' = s \o t \o u
    BY <1>3, <1>4
<1>6. f \in Loops /\ LoopOK(f) /\ todo[1] = f /\ job = "GDACS"
    BY <1>1, <1>2, HeadOfTodo
<1>7. /\ \A k \in DOMAIN s : \E i \in DOMAIN todo' : todo'[i] = s[k]
      /\ \A k \in DOMAIN t : \E i \in DOMAIN todo' : todo'[i] = t[k]
      /\ \A k \in DOMAIN u : \E i \in DOMAIN todo' : todo'[i] = u[k]
    <2>0. s \in Seq(Loops) /\ t \in Seq(Loops) /\ u \in Seq(Loops)
        BY <1>5
    <2>1. HasAll(s \o t \o u, s) /\ HasAll(s \o t \o u, t) /\ HasAll(s \o t \o u, u)
        BY <2>0, PartsKept
    <2> QED
        BY <1>5, <2>1, Zenon DEF HasAll
<1>8. \A i \in DOMAIN todo : i # 1 => \E k \in DOMAIN u : todo[i] = u[k]
    <2> SUFFICES ASSUME NEW i \in DOMAIN todo, i # 1
                 PROVE  i - 1 \in DOMAIN u /\ u[i - 1] = todo[i]
        OBVIOUS
    <2>1. todo \in Seq(Loops)
        BY <1>1 DEF Typed
    <2> QED
        BY <1>4, <2>1
<1> SUFFICES ASSUME NEW e \in world, Due(e)'
             PROVE  Held(e)' \/ Excused(e)' \/ InTodo(e)'
    BY <1>1 DEF Covered
<1>9. Due(e) /\ e.at <= now
    <2>1. Due(e)
        BY <1>1 DEF Due, Day, FirstOf
    <2> QED
        BY <1>1, <1>6, <2>1 DEF Due, Paced
<1>10. Held(e) \/ Excused(e) => Held(e)' \/ Excused(e)'
    BY <1>1, KeptFor
<1>11. \A k \in DOMAIN todo' : Within(e, Whole(todo'[k])) => InTodo(e)'
    BY <1>1 DEF InTodo, Whole, Within, FirstOf, LastOf, Region
<1>12. CASE Held(e) \/ Excused(e)
    BY <1>10, <1>12
<1>13. ASSUME NEW i \in DOMAIN todo, Within(e, Whole(todo[i]))
       PROVE  Held(e)' \/ Excused(e)' \/ InTodo(e)'
    <2>1. CASE i # 1
        BY <1>7, <1>8, <1>11, <1>13, <2>1
    <2>2. CASE i = 1 /\ ~Within(e, q)
        <3>1. \E k \in DOMAIN t : Within(e, Whole(t[k]))
            BY <1>1, <1>2, <1>4, <1>6, <1>13, <2>2, AskAndRest
        <3> QED
            BY <1>7, <1>11, <3>1
    <2>3. CASE i = 1 /\ Within(e, q) /\ Ask
        <3>1. \/ Held(e)' \/ Missed(e)'
              \/ Items(q) >= Limit /\ \E k \in DOMAIN Split(f) : Within(e, Whole(Split(f)[k]))
            BY <1>1, <1>2, <1>9, <2>3, AskedWell
        <3>2. Missed(e)' => Excused(e)'
            BY DEF Excused
        <3>3. (Items(q) >= Limit /\ \E k \in DOMAIN Split(f) : Within(e, Whole(Split(f)[k])))
                => InTodo(e)'
            BY <1>3, <1>7, <1>11, <2>3
        <3> QED
            BY <3>1, <3>2, <3>3
    <2>4. CASE i = 1 /\ Within(e, q) /\ AskRefused
        <3>1. q \in missed'
            BY <1>2, <2>4 DEF AskRefused
        <3> QED
            BY <2>4, <3>1 DEF Excused, Missed, Within
    <2> QED
        BY <2>1, <2>2, <2>3, <2>4 DEF DiveStep
<1> QED
    BY <1>1, <1>6, <1>9, <1>12, <1>13 DEF Covered, InTodo

LEMMA CoveredNext ==
    ASSUME Windowed, [Next]_windowVars
    PROVE  Covered'
<1>1. CASE Schedule
    BY <1>1, CoveredSchedule
<1>2. CASE DiveStep
    BY <1>2, CoveredDive
<1>3. CASE UNCHANGED <<world, job, last, todo>>
    <2>1. Typed /\ Covered
        BY DEF Windowed
    <2> SUFFICES ASSUME job # "EMDAT", NEW e \in world, Due(e)'
                 PROVE  Held(e)' \/ Excused(e)' \/ InTodo(e)'
        BY <1>3 DEF Covered
    <2>2. Due(e)
        BY <1>3 DEF Due, Day, FirstOf, Never
    <2>3. InTodo(e) => InTodo(e)'
        BY <1>3 DEF InTodo, Whole, Within, FirstOf, LastOf, Region
    <2>4. Held(e) \/ Excused(e) => Held(e)' \/ Excused(e)'
        BY <2>1, KeptFor
    <2> QED
        BY <2>1, <2>2, <2>3, <2>4 DEF Covered
<1>4. Next \/ UNCHANGED windowVars
    OBVIOUS
<1>5. Tick \/ UNCHANGED windowVars => UNCHANGED <<world, job, last, todo>>
    BY DEF Tick, windowVars, diveVars
<1>6. \A a, b \in 0..Today : RunByHand(a, b) => UNCHANGED <<world, job, last, todo>>
    BY DEF RunByHand
<1>7. \A r \in DOMAIN rows : Run(r) \/ RunFails(r) \/ RunAgain(r) => UNCHANGED <<world, job, last, todo>>
    BY DEF Run, RunFails, RunAgain
<1> QED
    BY <1>1, <1>2, <1>3, <1>4, <1>5, <1>6, <1>7 DEF Next

LEMMA WindowedInit ==
    ASSUME Init
    PROVE  Windowed
<1>1. rows = <<>> /\ last = Never /\ todo = <<>>
    BY DEF Init
<1>2. Answered /\ Siblings /\ WholeYears
    BY <1>1 DEF Answered, Siblings, WholeYears
<1>3. Covered
    BY <1>1 DEF Covered, Due
<1> QED
    BY <1>2, <1>3, TypedInit, PacedInit DEF Windowed

LEMMA WindowedNext ==
    ASSUME Windowed, [Next]_windowVars
    PROVE  Windowed'
<1>1. Typed /\ Paced /\ Answered /\ Siblings /\ WholeYears
    BY DEF Windowed
<1>2. Typed' /\ Paced'
    BY <1>1, TypedNext, PacedNext
<1>3. Answered' /\ Siblings' /\ WholeYears'
    BY <1>1, AnsweredNext, SiblingsNext, WholeYearsNext
<1>4. Covered'
    BY CoveredNext
<1> QED
    BY <1>2, <1>3, <1>4 DEF Windowed

\* The daily job of EM-DAT, run in the event's year and after it, has asked for it.
LEMMA AskedInItsYear ==
    ASSUME Windowed, job = "EMDAT", NEW e \in world, NEW r \in DOMAIN rows \ byHand,
           Year(rows[r].created) = Year(e.at), e.at <= rows[r].created
    PROVE  Held(e)
<1>1. Typed /\ Siblings /\ WholeYears
    BY DEF Windowed
<1>2. /\ rows[r].ask.from \in Nat /\ rows[r].ask.to \in Nat /\ rows[r].created \in Nat
      /\ RowOK(rows[r])
    BY <1>1, RowTyped
<1>3. e.at \in Nat
    BY <1>1, FiniteWorld
<1> DEFINE y == Year(e.at)
<1>4. /\ y \in Nat /\ FirstOfYear(y) \in Nat /\ FirstOfYear(y + 1) \in Nat
      /\ FirstOfYear(y) <= e.at /\ ~(FirstOfYear(y + 1) <= e.at)
    <2>1. y \in Nat
        BY <1>3, YearBounds
    <2>2. y + 1 \in Nat /\ ~(y + 1 <= y)
        BY <2>1
    <2> QED
        BY <1>3, <2>1, <2>2, YearBounds
<1>5. rows[r].ask.from <= FirstOfYear(y)
    BY <1>2 DEF RowOK
<1>6. FirstOfYear(y + 1) - 1 <= rows[r].ask.to
    BY <1>1 DEF WholeYears
<1> HIDE DEF y
<1>7. rows[r].ask.from <= e.at /\ e.at <= rows[r].ask.to
    BY <1>2, <1>3, <1>4, <1>5, <1>6
<1> QED
    BY <1>1, <1>7, InWindowOf

(* No event falls between two windows, of any source: whatever lengths days,      *)
(* windows, requests and years have, whichever rows fail, are retriggered, or     *)
(* come from historical jobs, an event that the job should know of has been       *)
(* found, or will be when the rows that are there are run - with the exceptions    *)
(* that the property names, and no other.                                         *)
THEOREM WindowsMeet == Spec => []NoEventBetweenWindows
<1>1. Windowed => NoEventBetweenWindows
    <2> SUFFICES ASSUME Windowed, todo = <<>>, NEW e \in world, Due(e)
                 PROVE  \/ \E r \in DOMAIN rows : e \in rows[r].got
                                \/ (rows[r].status # "SUCCESS" /\ Within(e, rows[r].ask))
                        \/ \E q \in missed : Within(e, q)
                        \/ job \in Nested /\ Drifted
                        \/ job \in {"USGS", "GLIDE"} /\ byHand # {}
                        \/ job \in {"PDC", "IFRC"} /\ \E r \in byHand : e.at < rows[r].ask.from
                        \/ job = "EMDAT" /\ ~\E r \in DOMAIN rows \ byHand :
                                Year(rows[r].created) = Year(e.at) /\ e.at <= rows[r].created
        BY DEF NoEventBetweenWindows
    <2>1. CASE Held(e)
        BY <2>1 DEF Held, Windowed, Answered, Missed
    <2>2. CASE ~Held(e) /\ job # "EMDAT"
        <3>1. ~InTodo(e)
            BY DEF InTodo
        <3> QED
            BY <2>2, <3>1 DEF Windowed, Covered, Excused, Missed
    <2>3. CASE ~Held(e) /\ job = "EMDAT"
        BY <2>3, AskedInItsYear
    <2> QED
        BY <2>1, <2>2, <2>3
<1> QED
    BY <1>1, WindowedInit, WindowedNext, PTL DEF Spec

(* The requests of a historical job leave no gap, whatever the last step of its    *)
(* loop is cut down to (usgs.py:59-76, glide.py:48-70).                            *)
THEOREM HistoricalJobsGapless == Spec => ByHandLeavesNoGap
<1>1. ASSUME Typed, [Next]_windowVars
      PROVE  [\A a, b \in 0..Today : RunByHand(a, b) =>
                  \A at \in FirstOf(a)..(FirstOf(b) - 1) : \E r \in (Len(rows) + 1)..Len(rows') :
                      at \in rows'[r].ask.from..rows'[r].ask.to]_windowVars
    <2> SUFFICES ASSUME NEW a \in 0..Today, NEW b \in 0..Today, RunByHand(a, b),
                        NEW at \in FirstOf(a)..(FirstOf(b) - 1)
                 PROVE  \E r \in (Len(rows) + 1)..Len(rows') :
                            at \in rows'[r].ask.from..rows'[r].ask.to
        OBVIOUS
    <2>1. PICK ws : ws = WindowsByHand(a, b)
        OBVIOUS
    <2>2. PICK i \in DOMAIN ws : at \in ws[i].from..ws[i].to
        BY <1>1, <2>1, HandRows DEF Gapless
    <2>3. 1 \in DOMAIN Kinds
        BY <1>1, KindsList
    <2>4. PICK r \in (Len(rows) + 1)..Len(rows') : rows'[r] = QueryFor(ws[i], Kinds[1])
        BY <1>1, <2>1, <2>3, HandRows
    <2>5. QueryFor(ws[i], Kinds[1]).ask.from = ws[i].from /\ QueryFor(ws[i], Kinds[1]).ask.to = ws[i].to
        BY DEF QueryFor, QueryRow, Region
    <2> QED
        BY <2>2, <2>4, <2>5
<1> QED
    BY <1>1, TypedInit, TypedNext, PTL DEF Spec, ByHandLeavesNoGap
=============================================================================
