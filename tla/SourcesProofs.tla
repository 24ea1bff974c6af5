----------------------------- MODULE SourcesProofs -----------------------------
(***************************************************************************)
(* Proofs about the sources that fan out and those that walk through pages,  *)
(* for any trees of rows, limits and bounds: the rows, messages and chords    *)
(* keep their types, and no row is left in a status that nothing picks up.    *)
(***************************************************************************)
EXTENDS Sources, FiniteSetTheorems, WellFoundedInduction, TLAPS

-----------------------------------------------------------------------------
(* Numbers: a bounded set has a least and a greatest element, and is listed   *)
(* in order.                                                                  *)

LEMMA LeastOf ==
    ASSUME NEW n \in Nat, NEW T, T \subseteq 0..n, T # {}
    PROVE  \E x \in T : \A y \in T : x <= y
<1> DEFINE Under(x) == {y \in 0..n : y < x}
           F == {Under(x) : x \in T}
<1>1. IsWellFoundedOn(StrictSubsetOrdering(0..n), SUBSET (0..n))
    <2>1. IsFiniteSet(0..n)
        BY FS_Interval
    <2>2. FiniteSubsetsOf(0..n) = SUBSET (0..n)
        BY <2>1, FS_FiniteSubsetsOfFinite
    <2> QED
        BY <2>2, FS_StrictSubsetOrderingWellFounded
<1>2. F \subseteq SUBSET (0..n) /\ F # {}
    OBVIOUS
<1>3. PICK u \in F : \A v \in F : <<v, u>> \notin StrictSubsetOrdering(0..n)
    <2> HIDE DEF F
    <2> QED
        BY <1>1, <1>2, WFMin
<1>4. PICK x \in T : u = Under(x)
    BY DEF F
<1>5. ASSUME NEW y \in T, y < x PROVE FALSE
    <2>1. Under(y) \subseteq Under(x) /\ y \in Under(x) /\ y \notin Under(y)
        BY <1>5
    <2>2. Under(y) \in SUBSET (0..n) /\ Under(x) \in SUBSET (0..n) /\ Under(y) # Under(x)
        BY <2>1
    <2>3. <<Under(y), Under(x)>> \in StrictSubsetOrdering(0..n)
        BY <2>1, <2>2 DEF StrictSubsetOrdering
    <2> QED
        BY <2>3, <1>3, <1>4
<1> QED
    BY <1>5

LEMMA GreatestOf ==
    ASSUME NEW n \in Nat, NEW T, T \subseteq 0..n, T # {}
    PROVE  \E x \in T : \A y \in T : y <= x
<1> DEFINE U == {n - t : t \in T}
<1>1. \A t \in T : t \in Nat /\ t <= n
    OBVIOUS
<1>2. U \subseteq 0..n /\ U # {}
    <2>1. \A t \in T : n - t \in 0..n
        BY <1>1
    <2> QED
        BY <2>1
<1>3. PICK u \in U : \A v \in U : u <= v
    BY <1>2, LeastOf
<1>4. PICK t \in T : u = n - t
    OBVIOUS
<1>5. \A y \in T : n - y \in U /\ u <= n - y
    BY <1>3
<1> QED
    BY <1>1, <1>4, <1>5

LEMMA NewestOfSet ==
    ASSUME NEW n \in Nat, NEW S, S \subseteq 1..n, S # {}
    PROVE  Newest(S) \in S /\ \A x \in S : x <= Newest(S)
<1>1. \E x \in S : \A y \in S : y <= x
    <2>1. S \subseteq 0..n
        OBVIOUS
    <2> QED
        BY <2>1, GreatestOf
<1> QED
    BY <1>1 DEF Newest

\* The number x is behind k others of the set.
Rank(S, x, k) == Cardinality({y \in S : y < x}) = k

LEMMA EveryRankIsTaken ==
    ASSUME NEW n \in Nat, NEW S, S \subseteq 1..n
    PROVE  /\ IsFiniteSet(S) /\ Cardinality(S) \in 0..n
           /\ \A i \in 1..Cardinality(S) : \E x \in S : Rank(S, x, i - 1)
<1>1. IsFiniteSet(S) /\ Cardinality(S) \in 0..n
    <2>1. IsFiniteSet(1..n) /\ Cardinality(1..n) = n
        BY FS_Interval
    <2>2. S \in SUBSET (1..n)
        OBVIOUS
    <2>3. IsFiniteSet(S) /\ Cardinality(S) <= n
        BY <2>1, <2>2, FS_Subset
    <2>4. Cardinality(S) \in Nat
        BY <2>3, FS_CardinalityType
    <2> QED
        BY <2>3, <2>4
<1> DEFINE c == Cardinality(S)
           Free == {i \in 1..c : ~\E x \in S : Rank(S, x, i - 1)}
           Under(x) == {y \in S : y < x}
<1>2. ASSUME NEW x PROVE IsFiniteSet(Under(x)) /\ Cardinality(Under(x)) \in Nat
    <2>1. Under(x) \in SUBSET S
        OBVIOUS
    <2> HIDE DEF Under
    <2> QED
        BY <1>1, <2>1, FS_Subset, FS_CardinalityType
<1>n. \A x \in S : x \in Nat /\ x <= n
    OBVIOUS
<1>3. SUFFICES ASSUME Free # {} PROVE FALSE
    BY <1>1
<1>4. PICK i \in Free : \A j \in Free : i <= j
    <2>1. c \in Nat /\ Free \subseteq 0..c
        BY <1>1
    <2> HIDE DEF Free, c
    <2> QED
        BY <1>3, <2>1, LeastOf
<1>5. i \in 1..c /\ c \in Nat /\ ~\E x \in S : Rank(S, x, i - 1)
    BY <1>1, <1>4
<1>6. CASE i = 1
    <2>1. S # {}
        BY <1>1, <1>5, FS_EmptySet
    <2>2. S \subseteq 0..n
        OBVIOUS
    <2>3. PICK x \in S : \A y \in S : x <= y
        BY <2>1, <2>2, LeastOf
    <2>4. Under(x) = {}
        <3>1. \A y \in S : ~(y < x)
            BY <1>n, <2>3
        <3> QED
            BY <3>1
    <2> QED
        BY <1>5, <1>6, <2>4, FS_EmptySet DEF Rank
<1>7. CASE i # 1
    <2>1. i - 1 \in 1..c /\ i - 1 < i /\ i \in Nat
        BY <1>5, <1>7
    <2>2. i - 1 \notin Free
        BY <1>4, <2>1
    <2>3. PICK x \in S : Rank(S, x, i - 1 - 1)
        BY <2>1, <2>2
    <2> DEFINE Above == {y \in S : x < y}
    <2>4. /\ IsFiniteSet(Under(x) \cup {x})
          /\ Cardinality(Under(x) \cup {x}) = i - 1
        <3>1. x \notin Under(x) /\ Cardinality(Under(x)) = i - 1 - 1
            BY <2>3 DEF Rank
        <3> HIDE DEF Under
        <3> QED
            BY <1>2, <2>1, <3>1, FS_AddElement
    <2>5. Above # {}
        <3>1. SUFFICES ASSUME Above = {} PROVE FALSE
            OBVIOUS
        <3>2. S = Under(x) \cup {x}
            <4>1. \A y \in S : ~(x < y)
                BY <3>1
            <4>2. \A y \in S : y < x \/ y = x
                BY <4>1, <1>n
            <4> QED
                BY <4>2
        <3> QED
            BY <2>4, <3>2, <1>5
    <2>6. Above \subseteq 0..n
        <3>1. \A y \in S : y \in 0..n
            BY <1>n
        <3> QED
            BY <3>1
    <2>7. PICK z \in Above : \A y \in Above : z <= y
        <3> HIDE DEF Above
        <3> QED
            BY <2>5, <2>6, LeastOf
    <2>8. Under(z) = Under(x) \cup {x} /\ z \in S
        <3>1. z \in S /\ x < z
            BY <2>7
        <3>2. \A y \in S : y < z <=> y < x \/ y = x
            BY <2>7, <3>1
        <3> QED
            BY <3>1, <3>2
    <2>9. Rank(S, z, i - 1)
        BY <2>4, <2>8 DEF Rank
    <2> QED
        BY <1>5, <2>8, <2>9
<1> QED
    BY <1>6, <1>7

\* InOrder lists a set, and nothing else.
LEMMA InOrderLists ==
    ASSUME NEW n \in Nat, NEW S, S \subseteq 1..n
    PROVE  /\ InOrder(S) \in Seq(S) /\ Len(InOrder(S)) = Cardinality(S)
           /\ Cardinality(S) \in Nat
           /\ DOMAIN InOrder(S) = 1..Cardinality(S)
           /\ \A x \in S : \E i \in 1..Cardinality(S) : InOrder(S)[i] = x
<1>1. /\ IsFiniteSet(S) /\ Cardinality(S) \in 0..n
      /\ \A i \in 1..Cardinality(S) : \E x \in S : Rank(S, x, i - 1)
    BY EveryRankIsTaken
<1> DEFINE Under(x) == {y \in S : y < x}
<1>2. \A i \in 1..Cardinality(S) :
        /\ InOrder(S)[i] = CHOOSE x \in S : Rank(S, x, i - 1)
        /\ InOrder(S)[i] \in S /\ Rank(S, InOrder(S)[i], i - 1)
    <2>1. \A i \in 1..Cardinality(S) : InOrder(S)[i] = CHOOSE x \in S : Rank(S, x, i - 1)
        BY DEF InOrder, Rank
    <2> QED
        BY <1>1, <2>1
<1>3. InOrder(S) \in [1..Cardinality(S) -> S]
    BY <1>2 DEF InOrder
<1>4. ASSUME NEW x \in S PROVE \E i \in 1..Cardinality(S) : InOrder(S)[i] = x
    <2>1. /\ IsFiniteSet(Under(x)) /\ Cardinality(Under(x)) \in Nat
          /\ Cardinality(Under(x)) < Cardinality(S)
        <3>1. Under(x) \in SUBSET S /\ Under(x) # S
            OBVIOUS
        <3> HIDE DEF Under
        <3> QED
            BY <1>1, <3>1, FS_Subset, FS_CardinalityType
    <2>2. PICK i \in 1..Cardinality(S) : i - 1 = Cardinality(Under(x))
        <3>1. Cardinality(Under(x)) + 1 \in 1..Cardinality(S)
            BY <1>1, <2>1
        <3> HIDE DEF Under
        <3> QED
            BY <2>1, <3>1
    <2> DEFINE z == InOrder(S)[i]
    <2>3. z \in S /\ Cardinality(Under(z)) = Cardinality(Under(x))
        BY <1>2, <2>2 DEF Rank
    <2>4. ASSUME NEW u \in S, NEW v \in S, u < v, Cardinality(Under(u)) = Cardinality(Under(v))
          PROVE  FALSE
        <3>1. IsFiniteSet(Under(v)) /\ Under(u) \in SUBSET Under(v)
            <4>1. Under(v) \in SUBSET S
                OBVIOUS
            <4>2. IsFiniteSet(Under(v))
                <5> HIDE DEF Under
                <5> QED
                    BY <1>1, <4>1, FS_Subset
            <4>3. \A y \in S : y < u => y < v
                BY <2>4
            <4> QED
                BY <4>2, <4>3
        <3>2. u \in Under(v) /\ u \notin Under(u)
            BY <2>4
        <3> HIDE DEF Under
        <3> QED
            BY <3>1, <3>2, <2>4, FS_Subset
    <2>5. z = x
        <3> HIDE DEF Under, z
        <3>1. z < x \/ x < z \/ z = x
            BY <2>3
        <3> QED
            BY <2>3, <2>4, <3>1
    <2> QED
        BY <2>5
<1>5. InOrder(S) \in Seq(S) /\ Len(InOrder(S)) = Cardinality(S) /\ DOMAIN InOrder(S) = 1..Cardinality(S)
    BY <1>1, <1>3
<1> QED
    BY <1>1, <1>4, <1>5

\* InOrder lists each element once.
LEMMA InOrderOnce ==
    ASSUME NEW n \in Nat, NEW S, S \subseteq 1..n, NEW i \in 1..Cardinality(S), NEW j \in 1..Cardinality(S),
           InOrder(S)[i] = InOrder(S)[j]
    PROVE  i = j
<1>1. Cardinality(S) \in Nat /\ \A k \in 1..Cardinality(S) : \E x \in S : Rank(S, x, k - 1)
    <2>1. Cardinality(S) \in 0..n /\ \A k \in 1..Cardinality(S) : \E x \in S : Rank(S, x, k - 1)
        BY EveryRankIsTaken
    <2> QED
        BY <2>1
<1>2. \A k \in 1..Cardinality(S) : InOrder(S)[k] = CHOOSE x \in S : Rank(S, x, k - 1)
    BY DEF InOrder, Rank
<1>3. Rank(S, InOrder(S)[i], i - 1) /\ Rank(S, InOrder(S)[j], j - 1)
    BY <1>1, <1>2
<1>4. i - 1 = j - 1
    BY <1>3 DEF Rank
<1> QED
    BY <1>1, <1>4

\* Only lists the elements at some places, and nothing else.
LEMMA OnlyLists ==
    ASSUME NEW S, NEW s \in Seq(S), NEW places, places \subseteq DOMAIN s
    PROVE  /\ Only(s, places) \in Seq(S) /\ Len(Only(s, places)) = Cardinality(places)
           /\ Cardinality(places) \in Nat
           /\ \A i \in DOMAIN Only(s, places) : \E p \in places : Only(s, places)[i] = s[p]
           /\ \A p \in places : \E i \in DOMAIN Only(s, places) : Only(s, places)[i] = s[p]
<1> DEFINE c == Cardinality(places)
<1>1. /\ InOrder(places) \in Seq(places) /\ c \in Nat
      /\ DOMAIN InOrder(places) = 1..c
      /\ \A x \in places : \E i \in 1..c : InOrder(places)[i] = x
    <2>1. Len(s) \in Nat /\ places \subseteq 1..Len(s)
        OBVIOUS
    <2> QED
        BY <2>1, InOrderLists
<1>2. \A i \in 1..c : InOrder(places)[i] \in places
    BY <1>1
<1>3. Only(s, places) \in [1..c -> S]
    <2>1. \A i \in 1..c : s[InOrder(places)[i]] \in S
        <3>1. \A p \in DOMAIN s : s[p] \in S
            OBVIOUS
        <3> QED
            BY <1>2, <3>1
    <2> QED
        BY <2>1 DEF Only
<1>4. DOMAIN Only(s, places) = 1..c /\ \A i \in 1..c : Only(s, places)[i] = s[InOrder(places)[i]]
    BY DEF Only
<1> HIDE DEF c
<1>5. Only(s, places) \in Seq(S) /\ Len(Only(s, places)) = c
    BY <1>1, <1>3
<1>6. /\ \A i \in 1..c : \E p \in places : Only(s, places)[i] = s[p]
      /\ \A p \in places : \E i \in 1..c : Only(s, places)[i] = s[p]
    BY <1>1, <1>2, <1>4
<1> QED
    BY <1>1, <1>4, <1>5, <1>6 DEF c

\* Elements that are all different are listed once.
LEMMA OnlyOnce ==
    ASSUME NEW S, NEW s \in Seq(S), NEW places, places \subseteq DOMAIN s,
           \A p, q \in places : s[p] = s[q] => p = q,
           NEW i \in DOMAIN Only(s, places), NEW j \in DOMAIN Only(s, places),
           Only(s, places)[i] = Only(s, places)[j]
    PROVE  i = j
<1>1. Len(s) \in Nat /\ places \subseteq 1..Len(s)
    OBVIOUS
<1>2. PICK order : order = InOrder(places)
    OBVIOUS
<1>3. \A k \in 1..Cardinality(places) : order[k] \in places
    <2>1. PICK c : c = Cardinality(places)
        OBVIOUS
    <2>2. order \in Seq(places) /\ DOMAIN order = 1..c /\ c \in Nat
        BY <1>1, <1>2, <2>1, InOrderLists
    <2>3. \A k \in 1..c : order[k] \in places
        BY <2>2
    <2> QED
        BY <2>1, <2>3
<1>4. /\ DOMAIN Only(s, places) = 1..Cardinality(places)
      /\ \A k \in 1..Cardinality(places) : Only(s, places)[k] = s[order[k]]
    BY <1>2 DEF Only
<1>5. i \in 1..Cardinality(places) /\ j \in 1..Cardinality(places) /\ s[order[i]] = s[order[j]]
    BY <1>4
<1>6. order[i] \in places /\ order[j] \in places
    BY <1>3, <1>5
<1>7. InOrder(places)[i] = InOrder(places)[j]
    BY <1>2, <1>5, <1>6
<1> QED
    BY <1>1, <1>5, <1>7, InOrderOnce

-----------------------------------------------------------------------------
(* The inductive invariant: the table of rows.                               *)

Content == 0..(MaxFaults + 1)

RowTypes ==
    ChildTypes \cup PdcChildTypes \cup PagedTypes \cup
        {"CATALOG", "ACTIVATION", "GDACS_QUERY", "GDACS_DETAIL", "EPISODE", "GEOMETRY", "IMPACT",
         "USGS_QUERY", "USGS_DETAIL", "LOSSE", "ALERTS", "HAZARD", "CEMS_DETAIL"}

RowRecord ==
    [type : RowTypes, item : Items, parent : Nat, status : Status,
     valid : {"NONE", "NO_CHANGE", "NO_DATA"}, tag : Content, content : Content,
     attempts : Nat, runs : Nat]

\* The rows of every source.
TypesOf(s) ==
    CASE s = "DISASTERCHARTER" -> {"CATALOG", "ACTIVATION"} \cup ChildTypes
      [] s = "GDACS" -> {"GDACS_QUERY", "GDACS_DETAIL", "EPISODE", "GEOMETRY", "IMPACT"}
      [] s = "USGS" -> {"USGS_QUERY", "USGS_DETAIL", "LOSSE", "ALERTS"}
      [] s = "PDC" -> {"HAZARD"} \cup PdcChildTypes
      [] s = "CEMS" -> {"CEMS", "CEMS_DETAIL"}
      [] OTHER -> {s}

\* What the rows of a type are about.
ItemFits(row) ==
    /\ row.type = "ACTIVATION" => row.item \in Listing(Wanted)
    /\ row.type = "GDACS_DETAIL" => row.item \in Listing(Listed)
    /\ row.type = "EPISODE" => \E v \in Listing(Listed) : row.item \in Listing(Episodes[v])
    /\ row.type = "USGS_DETAIL" => row.item \in Listing(Quakes)
    /\ row.type = "HAZARD" => row.item \in Listing(Pages)
    /\ row.type \in {"POLYGON", "EXPOSURE_LIST"} =>
            \E p \in Listing(Pages) : row.item \in Listing(Hazards[p])
    /\ row.type \in PagedTypes => row.item \in Listing(Walks[row.type])

\* The type of the parent, where a handler goes up to it.
ParentType ==
    [LOSSE |-> "USGS_DETAIL", ALERTS |-> "USGS_DETAIL",
     EPISODE |-> "GDACS_DETAIL", GEOMETRY |-> "EPISODE", IMPACT |-> "EPISODE",
     POLYGON |-> "HAZARD", EXPOSURE_LIST |-> "HAZARD", EXPOSURE_DETAIL |-> "EXPOSURE_LIST"]

ParentFits(table, r) ==
    /\ table[r].parent \in 0..(r - 1)
    /\ table[r].type \in DOMAIN ParentType =>
            /\ table[r].parent # 0
            /\ table[table[r].parent].type = ParentType[table[r].type]
    /\ table[r].type = "EXPOSURE_LIST" =>
            Existing(table, table[r].parent, "POLYGON", table[r].item) # {}

IsTable(table) ==
    /\ table \in Seq(RowRecord)
    /\ \A r \in DOMAIN table : ItemFits(table[r]) /\ ParentFits(table, r)

\* A later table has the same rows, with their types, items, parents and attempts.
Grows(table, later) ==
    /\ Len(table) <= Len(later)
    /\ \A r \in DOMAIN table :
        /\ later[r].type = table[r].type /\ later[r].item = table[r].item
        /\ later[r].parent = table[r].parent
        /\ later[r].attempts >= table[r].attempts

-----------------------------------------------------------------------------
(* The inductive invariant: messages and chords.                             *)

SpecRecord == [type : RowTypes, item : Items, parent : Nat]
Kinds == {"extract", "transform", "batch", "trigger"}
Places == {"queued", "stored", "made", "sent"}

\* Messages that are still to be published; only those of a batch have something to do.
MessageWith(todo) ==
    [kind : Kinds, row : Nat, failed : Nat, retries : Nat, pc : Places,
     chord : Nat, next : BOOLEAN, value : Nat, todo : todo]
Plain == MessageWith(Seq(Nat))
Groups == Seq(Seq(Plain))
Message == MessageWith(Groups \cup Seq(Nat) \cup Seq(SpecRecord))
Chord == [left : Nat, broken : BOOLEAN, body : Groups]

\* The types that a transform of PDC is not about.
NotRead == {"HAZARD", "POLYGON", "EXPOSURE_LIST"}
Details(table) == {d \in DOMAIN table : table[d].type = "EXPOSURE_DETAIL"}

\* A message refers to rows that are there.
Refers(m, table) ==
    /\ {m.row, m.failed, m.value} \subseteq 0..Len(table)
    /\ m.kind \in {"transform", "batch"} => m.row # 0
    /\ m.kind = "transform" => table[m.row].type \notin NotRead
    /\ m.kind = "batch" => m.todo \in Seq(Details(table))

Fresh(m, table) ==
    Refers(m, table) /\ m.pc = "queued" /\ m.retries = 0 /\ m.chord = 0

GroupsFit(groups, table) ==
    \A i \in DOMAIN groups : \A j \in DOMAIN groups[i] : Fresh(groups[i][j], table)

\* Between the fetch of a page of PDC and its new rows.
SpecsFit(specs, r, table) ==
    LET hazards == Listing(Hazards[table[r].item]) IN
    /\ specs \in Seq(SpecRecord)
    /\ \A i \in DOMAIN specs :
        /\ specs[i].parent = r /\ specs[i].type \in {"POLYGON", "EXPOSURE_LIST"}
        /\ specs[i].item \in hazards
    /\ \A h \in hazards, type \in {"POLYGON", "EXPOSURE_LIST"} :
        \/ Existing(table, r, type, h) # {}
        \/ \E i \in DOMAIN specs : specs[i] = Spec2(type, h, r)

MessageFits(m, table) ==
    /\ Refers(m, table)
    /\ m.retries <= CeleryRetries
    /\ m.row # 0 => m.retries <= table[m.row].attempts
    /\ m.pc # "queued" => m.kind = "extract" /\ m.row # 0
    /\ m.pc = "made" => m.todo \in Groups /\ GroupsFit(m.todo, table)
    /\ m.pc = "stored" /\ table[m.row].type = "HAZARD" => SpecsFit(m.todo, m.row, table)

\* The messages that a chord waits for.
PartsOf(queue, c) == {t \in DOMAIN queue : queue[t].chord = c}

IsQueue(queue, known, table) ==
    /\ queue \in Seq(Message) /\ known \in Seq(Chord)
    /\ \A t \in DOMAIN queue : MessageFits(queue[t], table) /\ queue[t].chord <= Len(known)
    /\ \A c \in DOMAIN known :
        /\ GroupsFit(known[c].body, table)
        /\ Cardinality(PartsOf(queue, c)) <= known[c].left

-----------------------------------------------------------------------------
(* The inductive invariant: the rest.                                        *)

Used == spent.errors + spent.unknown + spent.empty + spent.timeouts + spent.losses + spent.changes

IsWorld ==
    /\ spent \in [Faults \cup {"retriggers", "sweeps"} -> Nat] /\ Used <= MaxFaults
    /\ world \in [Items -> [tag : 1..(spent.changes + 1), content : 1..(spent.changes + 1)]]

HasRead ==
    /\ ended \subseteq Rows /\ \A r \in ended : rows[r].type \notin NotRead
    /\ fed \subseteq Rows \X (1..(MaxFaults + 1))

Typed ==
    /\ source \in Chosen
    /\ IsTable(rows) /\ rows # <<>> /\ \A r \in Rows : rows[r].type \in TypesOf(source)
    /\ IsQueue(msgs, chords, rows) /\ IsWorld /\ HasRead

-----------------------------------------------------------------------------
(* The inductive invariant: no row is stuck.                                 *)

\* A delivery that is at work, or a retry, answers for the row.
InCharge(t, r) ==
    /\ msgs[t].kind = "extract" /\ msgs[t].row = r
    /\ msgs[t].pc = "queued" <=> rows[r].status = "ON_RETRY"

Attended(r) ==
    \/ rows[r].status \in {"SUCCESS", "PENDING", "FAILED"}
    \/ rows[r].status = "IN_PROGRESS" /\ spent.losses > 0
    \/ rows[r].status = "ON_RETRY" /\ (rows[r].attempts > CeleryRetries \/ rows[r].type = "IMPACT")
    \/ \E t \in Messages : InCharge(t, r)

AllAttended == \A r \in Rows : Attended(r)
-----------------------------------------------------------------------------
(* Messages.                                                                 *)

LEMMA MessageTypes ==
    /\ Plain \subseteq Message /\ Seq(Plain) \subseteq Seq(Message)
    /\ <<>> \in Seq(Nat) /\ <<>> \in Groups /\ <<>> \in Seq(SpecRecord)
<1>1. \A m \in Plain : m \in Message
    BY DEF Plain, Message, MessageWith
<1>2. \A g \in Seq(Plain) : g \in Seq(Message)
    BY <1>1
<1> QED
    BY <1>1, <1>2 DEF Groups

LEMMA ExtractFresh ==
    ASSUME NEW table, Len(table) \in Nat, NEW r \in 0..Len(table), NEW f \in 0..Len(table)
    PROVE  /\ Extract(r, f) \in Plain /\ Fresh(Extract(r, f), table)
           /\ Extract(r, f).row = r /\ Extract(r, f).kind = "extract"
           /\ Extract(r, f).retries = 0 /\ Extract(r, f).pc = "queued"
           /\ Extract(r, f).failed = f /\ Extract(r, f).next = FALSE
           /\ DOMAIN Extract(r, f) = {"kind", "row", "failed", "retries", "pc", "chord", "next", "value", "todo"}
<1>1. r \in Nat /\ f \in Nat /\ 0 \in 0..Len(table)
    OBVIOUS
<1>2. Extract(r, f) \in Plain
    BY <1>1, MessageTypes DEF Extract, Plain, MessageWith, Kinds, Places
<1>3. Fresh(Extract(r, f), table)
    BY <1>1 DEF Extract, Fresh, Refers
<1> QED
    BY <1>2, <1>3 DEF Extract

LEMMA TransformFresh ==
    ASSUME NEW table, Len(table) \in Nat, NEW r \in 1..Len(table), table[r].type \notin NotRead
    PROVE  Transform(r) \in Plain /\ Fresh(Transform(r), table)
<1>1. r \in 0..Len(table) /\ r # 0 /\ 0 \in 0..Len(table)
    OBVIOUS
<1>2. Extract(r, 0) \in Plain /\ Fresh(Extract(r, 0), table)
    BY <1>1, ExtractFresh
<1>3. Transform(r) \in Plain
    BY <1>2 DEF Transform, Plain, MessageWith, Kinds
<1>4. Fresh(Transform(r), table)
    BY <1>1, <1>2 DEF Transform, Extract, Fresh, Refers
<1> QED
    BY <1>3, <1>4

\* A chord that is not concerned waits for as many messages as before.
LEMMA FreshFits ==
    ASSUME NEW table, NEW m \in Message, Fresh(m, table), CeleryRetries \in Nat,
           m.row # 0 => table[m.row].attempts \in Nat
    PROVE  MessageFits(m, table) /\ m.chord = 0
    BY DEF Fresh, MessageFits

-----------------------------------------------------------------------------
(* How many messages a chord waits for.                                      *)

LEMMA PartsFinite ==
    ASSUME NEW queue \in Seq(Message), NEW c
    PROVE  IsFiniteSet(PartsOf(queue, c)) /\ Cardinality(PartsOf(queue, c)) \in Nat
<1>1. Len(queue) \in Nat /\ PartsOf(queue, c) \in SUBSET (1..Len(queue))
    BY DEF PartsOf
<1>2. IsFiniteSet(1..Len(queue))
    BY <1>1, FS_Interval
<1> QED
    BY <1>1, <1>2, FS_Subset, FS_CardinalityType

LEMMA PartsOfAcked ==
    ASSUME msgs \in Seq(Message), NEW t \in Messages, NEW c
    PROVE  Cardinality(PartsOf(Acked(t), c)) =
               IF msgs[t].chord = c THEN Cardinality(PartsOf(msgs, c)) - 1
               ELSE Cardinality(PartsOf(msgs, c))
<1> DEFINE A == PartsOf(Acked(t), c)
           B == PartsOf(msgs, c) \ {t}
           f == [i \in A |-> IF i < t THEN i ELSE i + 1]
<1>1. Len(msgs) \in Nat /\ Messages = 1..Len(msgs) /\ t \in 1..Len(msgs)
    BY DEF Messages
<1>2. /\ DOMAIN Acked(t) = 1..(Len(msgs) - 1)
      /\ \A i \in 1..(Len(msgs) - 1) : Acked(t)[i] = msgs[IF i < t THEN i ELSE i + 1]
    BY DEF Acked
<1>3. \A i : i \in A <=> i \in 1..(Len(msgs) - 1) /\ msgs[IF i < t THEN i ELSE i + 1].chord = c
    BY <1>2 DEF PartsOf
<1>4. \A i : i \in B <=> i \in 1..Len(msgs) /\ i # t /\ msgs[i].chord = c
    BY <1>1 DEF PartsOf, Messages
<1> HIDE DEF A, B
<1>5. \A i \in A : f[i] \in B
    BY <1>1, <1>3, <1>4
<1>6. \A j \in B : \E i \in A : f[i] = j
    <2> SUFFICES ASSUME NEW j \in B PROVE \E i \in A : f[i] = j
        OBVIOUS
    <2>1. CASE j < t
        <3>1. j \in A
            BY <1>1, <1>3, <1>4, <2>1
        <3> QED
            BY <2>1, <3>1
    <2>2. CASE ~(j < t)
        <3>1. j - 1 \in A /\ ~(j - 1 < t) /\ (j - 1) + 1 = j
            BY <1>1, <1>3, <1>4, <2>2
        <3> QED
            BY <3>1
    <2> QED
        BY <2>1, <2>2
<1>7. \A i, j \in A : f[i] = f[j] => i = j
    <2>1. \A i \in A : i \in Int
        BY <1>1, <1>3
    <2> QED
        BY <1>1, <2>1
<1>8. f \in Bijection(A, B)
    <2> HIDE DEF f
    <2>1. f \in [A -> B]
        BY <1>5 DEF f
    <2>2. f \in Injection(A, B)
        BY <1>7, <2>1 DEF Injection, IsInjective
    <2>3. f \in Surjection(A, B)
        BY <1>6, <2>1 DEF Surjection
    <2> QED
        BY <2>2, <2>3 DEF Bijection
<1>9. IsFiniteSet(PartsOf(msgs, c)) /\ Cardinality(PartsOf(msgs, c)) \in Nat
    BY PartsFinite
<1>10. IsFiniteSet(A) /\ Cardinality(B) = Cardinality(A)
    <2>1. IsFiniteSet(B)
        BY <1>9, FS_RemoveElement DEF B
    <2>2. IsFiniteSet(A)
        <3>1. \A i \in A : i \in 1..Len(msgs)
            BY <1>1, <1>3
        <3>2. A \in SUBSET (1..Len(msgs)) /\ IsFiniteSet(1..Len(msgs))
            BY <1>1, <3>1, FS_Interval
        <3> QED
            BY <3>2, FS_Subset
    <2>3. ExistsBijection(A, B)
        BY <1>8 DEF ExistsBijection
    <2> QED
        BY <2>2, <2>3, FS_Bijection
<1>11. Cardinality(B) = IF t \in PartsOf(msgs, c) THEN Cardinality(PartsOf(msgs, c)) - 1
                       ELSE Cardinality(PartsOf(msgs, c))
    BY <1>9, FS_RemoveElement DEF B
<1>12. t \in PartsOf(msgs, c) <=> msgs[t].chord = c
    BY <1>1 DEF PartsOf
<1> QED
    BY <1>10, <1>11, <1>12 DEF A

LEMMA PartsOfMore ==
    ASSUME NEW queue \in Seq(Message), NEW more \in Seq(Message), NEW c,
           \A i \in DOMAIN more : more[i].chord # c
    PROVE  PartsOf(queue \o more, c) = PartsOf(queue, c)
<1>1. /\ Len(queue) \in Nat /\ Len(more) \in Nat
      /\ DOMAIN queue = 1..Len(queue) /\ DOMAIN more = 1..Len(more)
      /\ DOMAIN (queue \o more) = 1..(Len(queue) + Len(more))
      /\ \A i \in 1..Len(queue) : (queue \o more)[i] = queue[i]
      /\ \A i \in (Len(queue) + 1)..(Len(queue) + Len(more)) : (queue \o more)[i] = more[i - Len(queue)]
    OBVIOUS
<1> DEFINE all == queue \o more
<1> HIDE DEF all
<1>2. \A i \in 1..Len(queue) : i \in PartsOf(all, c) <=> i \in PartsOf(queue, c)
    BY <1>1 DEF PartsOf, all
<1>3. \A i \in (Len(queue) + 1)..(Len(queue) + Len(more)) : i \notin PartsOf(all, c)
    <2>1. \A i \in (Len(queue) + 1)..(Len(queue) + Len(more)) : i - Len(queue) \in 1..Len(more)
        BY <1>1
    <2> QED
        BY <1>1, <2>1 DEF PartsOf, all
<1>4. \A i \in PartsOf(all, c) : i \in 1..Len(queue) \/ i \in (Len(queue) + 1)..(Len(queue) + Len(more))
    BY <1>1 DEF PartsOf, all
<1>5. \A i \in PartsOf(queue, c) : i \in 1..Len(queue)
    BY <1>1 DEF PartsOf
<1>6. \A i : i \in PartsOf(all, c) <=> i \in PartsOf(queue, c)
    BY <1>2, <1>3, <1>4, <1>5
<1> QED
    BY <1>6 DEF all

-----------------------------------------------------------------------------
(* What is done to a queue.                                                  *)

\* Messages are changed, but stay with their chord.
LEMMA QueueMoved ==
    ASSUME NEW queue, NEW known, NEW table, IsQueue(queue, known, table),
           NEW later \in Seq(Message), DOMAIN later = DOMAIN queue,
           \A t \in DOMAIN queue : MessageFits(later[t], table) /\ later[t].chord = queue[t].chord
    PROVE  IsQueue(later, known, table)
<1>1. \A c : PartsOf(later, c) = PartsOf(queue, c)
    BY DEF PartsOf
<1> QED
    BY <1>1 DEF IsQueue

\* Messages that no chord waits for are added.
LEMMA QueueMore ==
    ASSUME NEW queue, NEW known, NEW table, IsQueue(queue, known, table),
           NEW more \in Seq(Message),
           \A i \in DOMAIN more : MessageFits(more[i], table) /\ more[i].chord = 0
    PROVE  IsQueue(queue \o more, known, table)
<1>1. queue \in Seq(Message) /\ known \in Seq(Chord)
    BY DEF IsQueue
<1>2. /\ Len(queue) \in Nat /\ Len(more) \in Nat /\ Len(known) \in Nat
      /\ DOMAIN queue = 1..Len(queue) /\ DOMAIN more = 1..Len(more)
      /\ DOMAIN (queue \o more) = 1..(Len(queue) + Len(more))
      /\ queue \o more \in Seq(Message)
      /\ \A i \in 1..Len(queue) : (queue \o more)[i] = queue[i]
      /\ \A i \in (Len(queue) + 1)..(Len(queue) + Len(more)) : (queue \o more)[i] = more[i - Len(queue)]
    BY <1>1
<1>3. \A i \in (Len(queue) + 1)..(Len(queue) + Len(more)) : i - Len(queue) \in DOMAIN more
    BY <1>2
<1>4. \A t \in DOMAIN queue : MessageFits(queue[t], table) /\ queue[t].chord <= Len(known)
    BY DEF IsQueue
<1>5. ASSUME NEW t \in DOMAIN (queue \o more)
      PROVE  MessageFits((queue \o more)[t], table) /\ (queue \o more)[t].chord <= Len(known)
    <2>1. t \in 1..Len(queue) \/ t \in (Len(queue) + 1)..(Len(queue) + Len(more))
        BY <1>2
    <2> QED
        BY <1>2, <1>3, <1>4, <2>1
<1>6. ASSUME NEW c \in DOMAIN known
      PROVE  Cardinality(PartsOf(queue \o more, c)) <= known[c].left
    <2>1. \A i \in DOMAIN more : more[i].chord # c
        BY <1>1
    <2>2. PartsOf(queue \o more, c) = PartsOf(queue, c)
        BY <1>1, <2>1, PartsOfMore
    <2> QED
        BY <2>2 DEF IsQueue
<1> QED
    BY <1>1, <1>2, <1>5, <1>6 DEF IsQueue

LEMMA AckedMessages ==
    ASSUME msgs \in Seq(Message), NEW t \in Messages
    PROVE  /\ Acked(t) \in Seq(Message) /\ Len(Acked(t)) = Len(msgs) - 1
           /\ \A i \in DOMAIN Acked(t) : \E o \in Messages \ {t} : Acked(t)[i] = msgs[o]
           /\ \A o \in Messages \ {t} : \E i \in DOMAIN Acked(t) : Acked(t)[i] = msgs[o]
<1>1. Len(msgs) \in Nat /\ Messages = 1..Len(msgs) /\ t \in 1..Len(msgs)
    BY DEF Messages
<1>2. /\ DOMAIN Acked(t) = 1..(Len(msgs) - 1)
      /\ \A i \in 1..(Len(msgs) - 1) : Acked(t)[i] = msgs[IF i < t THEN i ELSE i + 1]
    BY DEF Acked
<1>3. ASSUME NEW i \in DOMAIN Acked(t)
      PROVE  \E o \in Messages \ {t} : Acked(t)[i] = msgs[o]
    <2>1. (IF i < t THEN i ELSE i + 1) \in Messages \ {t}
        BY <1>1, <1>2
    <2> QED
        BY <1>2, <2>1
<1>4. ASSUME NEW o \in Messages \ {t}
      PROVE  \E i \in DOMAIN Acked(t) : Acked(t)[i] = msgs[o]
    <2>1. CASE o < t
        <3>1. o \in DOMAIN Acked(t)
            BY <1>1, <1>2, <2>1
        <3> QED
            BY <1>2, <2>1, <3>1
    <2>2. CASE ~(o < t)
        <3>1. o - 1 \in DOMAIN Acked(t) /\ ~(o - 1 < t) /\ (o - 1) + 1 = o
            BY <1>1, <1>2, <2>2
        <3> QED
            BY <1>2, <3>1
    <2> QED
        BY <2>1, <2>2
<1>5. Acked(t) \in [1..(Len(msgs) - 1) -> Message]
    <2>1. \A o \in Messages : msgs[o] \in Message
        BY DEF Messages
    <2>2. \A i \in 1..(Len(msgs) - 1) : Acked(t)[i] \in Message
        BY <1>2, <1>3, <2>1
    <2> QED
        BY <2>2 DEF Acked
<1>6. Acked(t) \in Seq(Message) /\ Len(Acked(t)) = Len(msgs) - 1
    <2> DEFINE n == Len(msgs) - 1
    <2>1. n \in Nat
        BY <1>1
    <2> HIDE DEF n
    <2>2. Acked(t) \in [1..n -> Message]
        BY <1>5 DEF n
    <2> QED
        BY <2>1, <2>2 DEF n
<1> QED
    BY <1>3, <1>4, <1>6

\* A message leaves the queue, and is counted by its chord or not.
LEMMA QueueAcked ==
    ASSUME NEW known, NEW table, IsQueue(msgs, known, table), NEW t \in Messages,
           NEW later \in Seq(Chord), DOMAIN later = DOMAIN known,
           \A c \in DOMAIN known :
                /\ GroupsFit(later[c].body, table)
                /\ later[c].left = known[c].left \/ (c = msgs[t].chord /\ later[c].left = known[c].left - 1)
    PROVE  IsQueue(Acked(t), later, table)
<1>1. msgs \in Seq(Message) /\ known \in Seq(Chord)
    BY DEF IsQueue
<1>2. \A i \in DOMAIN Acked(t) : \E o \in Messages \ {t} : Acked(t)[i] = msgs[o]
    BY <1>1, AckedMessages
<1>3. Len(later) = Len(known)
    BY <1>1
<1>4. \A o \in Messages : MessageFits(msgs[o], table) /\ msgs[o].chord <= Len(later)
    BY <1>3 DEF IsQueue, Messages
<1>5. \A i \in DOMAIN Acked(t) : MessageFits(Acked(t)[i], table) /\ Acked(t)[i].chord <= Len(later)
    BY <1>2, <1>4
<1>6. ASSUME NEW c \in DOMAIN later
      PROVE  Cardinality(PartsOf(Acked(t), c)) <= later[c].left
    <2>1. Cardinality(PartsOf(msgs, c)) \in Nat /\ Cardinality(PartsOf(msgs, c)) <= known[c].left
        BY <1>1, PartsFinite DEF IsQueue
    <2>2. Cardinality(PartsOf(Acked(t), c)) =
             IF msgs[t].chord = c THEN Cardinality(PartsOf(msgs, c)) - 1
             ELSE Cardinality(PartsOf(msgs, c))
        BY <1>1, PartsOfAcked
    <2>3. known[c].left \in Nat /\ later[c].left \in Nat
        <3>1. known[c] \in Chord /\ later[c] \in Chord
            BY <1>1
        <3> QED
            BY <3>1 DEF Chord
    <2> QED
        BY <2>1, <2>2, <2>3
<1>7. Acked(t) \in Seq(Message)
    BY <1>1, AckedMessages
<1> QED
    BY <1>5, <1>6, <1>7 DEF IsQueue

\* Fresh messages stay fresh, and messages fit, when rows are added or changed.
LEMMA RefersLater ==
    ASSUME NEW table \in Seq(RowRecord), NEW later \in Seq(RowRecord), Grows(table, later),
           NEW m \in Message, Refers(m, table)
    PROVE  Refers(m, later)
<1>1. /\ Len(table) \in Nat /\ Len(later) \in Nat /\ Len(table) <= Len(later)
      /\ DOMAIN table = 1..Len(table) /\ DOMAIN later = 1..Len(later)
      /\ \A r \in DOMAIN table : later[r].type = table[r].type
    BY DEF Grows
<1>2. m.row \in 0..Len(later) /\ m.failed \in 0..Len(later) /\ m.value \in 0..Len(later)
    BY <1>1 DEF Refers
<1>3. m.kind = "transform" => later[m.row].type \notin NotRead
    BY <1>1 DEF Refers
<1>4. Details(table) \subseteq Details(later)
    BY <1>1 DEF Details
<1>5. m.kind = "batch" => m.todo \in Seq(Details(later))
    <2>1. \A s \in Seq(Details(table)) : s \in Seq(Details(later))
        BY <1>4
    <2> QED
        BY <2>1 DEF Refers
<1> QED
    BY <1>2, <1>3, <1>5 DEF Refers

LEMMA FreshLater ==
    ASSUME NEW table \in Seq(RowRecord), NEW later \in Seq(RowRecord), Grows(table, later),
           NEW m \in Message, Fresh(m, table)
    PROVE  Fresh(m, later)
    BY RefersLater DEF Fresh

LEMMA GroupsLater ==
    ASSUME NEW table \in Seq(RowRecord), NEW later \in Seq(RowRecord), Grows(table, later),
           NEW groups \in Groups, GroupsFit(groups, table)
    PROVE  GroupsFit(groups, later)
<1>1. \A i \in DOMAIN groups : \A j \in DOMAIN groups[i] : groups[i][j] \in Message
    BY MessageTypes DEF Groups
<1> QED
    BY <1>1, FreshLater DEF GroupsFit

LEMMA ExistingLater ==
    ASSUME NEW table \in Seq(RowRecord), NEW later \in Seq(RowRecord), Grows(table, later),
           NEW r, NEW type, NEW item
    PROVE  Existing(table, r, type, item) \subseteq Existing(later, r, type, item)
<1>1. DOMAIN table \subseteq DOMAIN later
    BY DEF Grows
<1> QED
    BY <1>1 DEF Grows, Existing

LEMMA SpecsLater ==
    ASSUME NEW table \in Seq(RowRecord), NEW later \in Seq(RowRecord), Grows(table, later),
           NEW r \in DOMAIN table, NEW specs, SpecsFit(specs, r, table)
    PROVE  SpecsFit(specs, r, later)
<1>1. later[r].item = table[r].item
    BY DEF Grows
<1>2. \A type, h : Existing(table, r, type, h) # {} => Existing(later, r, type, h) # {}
    BY ExistingLater
<1> QED
    BY <1>1, <1>2 DEF SpecsFit

LEMMA MessageLater ==
    ASSUME NEW table \in Seq(RowRecord), NEW later \in Seq(RowRecord), Grows(table, later),
           NEW m \in Message, MessageFits(m, table)
    PROVE  MessageFits(m, later)
<1>1. Refers(m, later)
    BY RefersLater DEF MessageFits
<1>2. m.row # 0 => m.row \in DOMAIN table /\ m.row \in DOMAIN later
    BY <1>1 DEF MessageFits, Refers
<1>3. m.row # 0 => m.retries <= later[m.row].attempts
    <2>1. m.row # 0 => /\ table[m.row].attempts \in Nat /\ later[m.row].attempts \in Nat
                       /\ table[m.row].attempts <= later[m.row].attempts
        <3>1. m.row # 0 => table[m.row] \in RowRecord /\ later[m.row] \in RowRecord
            BY <1>2
        <3> QED
            BY <1>2, <3>1 DEF Grows, RowRecord
    <2>2. m.retries \in Nat
        BY DEF Message, MessageWith
    <2> QED
        BY <2>1, <2>2 DEF MessageFits
<1>4. m.pc = "made" => m.todo \in Groups /\ GroupsFit(m.todo, later)
    BY GroupsLater DEF MessageFits
<1>5. m.pc = "stored" /\ later[m.row].type = "HAZARD" => SpecsFit(m.todo, m.row, later)
    <2>1. m.pc = "stored" => m.row \in DOMAIN table /\ table[m.row].type = later[m.row].type
        BY <1>2 DEF MessageFits, Grows
    <2> QED
        BY <2>1, SpecsLater DEF MessageFits
<1> QED
    BY <1>1, <1>3, <1>4, <1>5 DEF MessageFits

LEMMA QueueLater ==
    ASSUME NEW table \in Seq(RowRecord), NEW later \in Seq(RowRecord), Grows(table, later),
           NEW queue, NEW known, IsQueue(queue, known, table)
    PROVE  IsQueue(queue, known, later)
<1>1. \A t \in DOMAIN queue : queue[t] \in Message
    BY DEF IsQueue
<1>2. \A c \in DOMAIN known : known[c].body \in Groups
    <2>1. \A c \in DOMAIN known : known[c] \in Chord
        BY DEF IsQueue
    <2> QED
        BY <2>1 DEF Chord
<1>3. \A t \in DOMAIN queue : MessageFits(queue[t], later)
    BY <1>1, MessageLater DEF IsQueue
<1>4. \A c \in DOMAIN known : GroupsFit(known[c].body, later)
    BY <1>2, GroupsLater DEF IsQueue
<1> QED
    BY <1>3, <1>4 DEF IsQueue

-----------------------------------------------------------------------------
(* Publishing.                                                               *)

\* The header of a new chord.
Header(group, c) == [i \in DOMAIN group |-> [group[i] EXCEPT !.chord = c]]

LEMMA HeaderFits ==
    ASSUME NEW table \in Seq(RowRecord), NEW group \in Seq(Plain), NEW c \in Nat, CeleryRetries \in Nat,
           \A j \in DOMAIN group : Fresh(group[j], table)
    PROVE  /\ Header(group, c) \in Seq(Message) /\ Len(Header(group, c)) = Len(group)
           /\ \A j \in DOMAIN Header(group, c) :
                MessageFits(Header(group, c)[j], table) /\ Header(group, c)[j].chord = c
<1>1. DOMAIN Header(group, c) = DOMAIN group
    BY DEF Header
<1>2. ASSUME NEW j \in DOMAIN group
      PROVE  /\ Header(group, c)[j] \in Message
             /\ MessageFits(Header(group, c)[j], table) /\ Header(group, c)[j].chord = c
    <2>1. PICK m \in Plain : m = group[j]
        OBVIOUS
    <2>2. PICK h : h = [m EXCEPT !.chord = c]
        OBVIOUS
    <2>3. h = Header(group, c)[j]
        BY <2>1, <2>2 DEF Header
    <2>4. h \in Plain
        BY <2>2 DEF Plain, MessageWith
    <2>5. /\ h.chord = c /\ h.row = m.row /\ h.failed = m.failed /\ h.value = m.value /\ h.kind = m.kind
          /\ h.todo = m.todo /\ h.pc = m.pc /\ h.retries = m.retries
        BY <2>2 DEF Plain, MessageWith
    <2>6. Fresh(m, table)
        BY <2>1
    <2>7. Refers(h, table) /\ h.pc = "queued" /\ h.retries = 0
        BY <2>5, <2>6 DEF Fresh, Refers
    <2>8. h.row # 0 => table[h.row].attempts \in Nat
        <3>1. h.row # 0 => table[h.row] \in RowRecord
            BY <2>7 DEF Refers
        <3> QED
            BY <3>1 DEF RowRecord
    <2>9. MessageFits(h, table)
        BY <2>7, <2>8 DEF MessageFits
    <2> QED
        BY <2>3, <2>4, <2>5, <2>9, MessageTypes
<1>3. Header(group, c) \in [1..Len(group) -> Message] /\ Len(group) \in Nat
    BY <1>2 DEF Header
<1> QED
    BY <1>1, <1>2, <1>3

\* A chord is added, with its header.
LEMMA QueueChord ==
    ASSUME NEW table \in Seq(RowRecord), NEW queue, NEW known, IsQueue(queue, known, table), CeleryRetries \in Nat,
           NEW group \in Seq(Plain), \A j \in DOMAIN group : Fresh(group[j], table),
           NEW body \in Groups, GroupsFit(body, table)
    PROVE  IsQueue(queue \o Header(group, Len(known) + 1),
                   Append(known, [left |-> Len(group), broken |-> FALSE, body |-> body]), table)
<1> DEFINE c == Len(known) + 1
           head == Header(group, c)
           chord == [left |-> Len(group), broken |-> FALSE, body |-> body]
           all == Append(known, chord)
<1>1. queue \in Seq(Message) /\ known \in Seq(Chord) /\ c \in Nat
    BY DEF IsQueue
<1>2. /\ head \in Seq(Message) /\ Len(head) = Len(group)
      /\ \A j \in DOMAIN head : MessageFits(head[j], table) /\ head[j].chord = c
    BY <1>1, HeaderFits
<1>3. chord \in Chord
    BY DEF Chord
<1>4. /\ all \in Seq(Chord) /\ Len(all) = c /\ DOMAIN all = DOMAIN known \cup {c} /\ c \notin DOMAIN known
      /\ all[c] = chord /\ \A d \in DOMAIN known : all[d] = known[d]
    <2> HIDE DEF chord
    <2> QED
        BY <1>1, <1>3
<1> HIDE DEF head, all
<1>5. /\ Len(queue) \in Nat /\ Len(head) \in Nat /\ Len(known) \in Nat
      /\ DOMAIN queue = 1..Len(queue) /\ DOMAIN head = 1..Len(head)
      /\ DOMAIN (queue \o head) = 1..(Len(queue) + Len(head))
      /\ queue \o head \in Seq(Message)
      /\ \A i \in 1..Len(queue) : (queue \o head)[i] = queue[i]
      /\ \A i \in (Len(queue) + 1)..(Len(queue) + Len(head)) : (queue \o head)[i] = head[i - Len(queue)]
    <2>1. head \in Seq(Message) /\ queue \in Seq(Message) /\ known \in Seq(Chord)
        BY <1>1, <1>2
    <2> QED
        BY <2>1
<1>6. \A i \in (Len(queue) + 1)..(Len(queue) + Len(head)) : i - Len(queue) \in DOMAIN head
    BY <1>5
<1>7. \A t \in DOMAIN queue : MessageFits(queue[t], table) /\ queue[t].chord <= Len(known) /\ queue[t].chord \in Nat
    <2>1. \A t \in DOMAIN queue : queue[t] \in Message
        BY <1>1
    <2>2. \A m \in Message : m.chord \in Nat
        BY DEF Message, MessageWith
    <2> QED
        BY <2>1, <2>2 DEF IsQueue
<1>8. ASSUME NEW t \in DOMAIN (queue \o head)
      PROVE  MessageFits((queue \o head)[t], table) /\ (queue \o head)[t].chord <= Len(all)
    <2>1. t \in 1..Len(queue) \/ t \in (Len(queue) + 1)..(Len(queue) + Len(head))
        BY <1>5
    <2>2. CASE t \in 1..Len(queue)
        BY <1>4, <1>5, <1>7, <2>2
    <2>3. CASE t \in (Len(queue) + 1)..(Len(queue) + Len(head))
        BY <1>2, <1>4, <1>5, <1>6, <2>3
    <2> QED
        BY <2>1, <2>2, <2>3
<1>9. ASSUME NEW d \in DOMAIN known
      PROVE  Cardinality(PartsOf(queue \o head, d)) <= all[d].left /\ GroupsFit(all[d].body, table)
    <2>1. \A i \in DOMAIN head : head[i].chord # d
        BY <1>2, <1>4
    <2>2. PartsOf(queue \o head, d) = PartsOf(queue, d)
        BY <1>1, <1>2, <2>1, PartsOfMore
    <2> QED
        BY <1>4, <2>2 DEF IsQueue
<1>10. Cardinality(PartsOf(queue \o head, c)) <= all[c].left /\ GroupsFit(all[c].body, table)
    <2> DEFINE new == (Len(queue) + 1)..(Len(queue) + Len(head))
    <2>1. \A i \in PartsOf(queue \o head, c) : i \in new
        <3> SUFFICES ASSUME NEW i \in PartsOf(queue \o head, c), i \in 1..Len(queue) PROVE FALSE
            BY <1>5 DEF PartsOf
        <3>1. queue[i].chord = c
            BY <1>5 DEF PartsOf
        <3> QED
            BY <1>5, <1>7, <3>1
    <2>2. IsFiniteSet(new) /\ Cardinality(new) = Len(head)
        <3>1. Len(queue) + 1 \in Int /\ Len(queue) + Len(head) \in Int
            BY <1>5
        <3>2. /\ IsFiniteSet(new)
              /\ Cardinality(new) = IF Len(queue) + 1 > Len(queue) + Len(head) THEN 0
                                    ELSE (Len(queue) + Len(head)) - (Len(queue) + 1) + 1
            BY <3>1, FS_Interval
        <3> HIDE DEF new
        <3> QED
            BY <1>5, <3>2
    <2>3. PartsOf(queue \o head, c) \in SUBSET new
        BY <2>1
    <2> HIDE DEF new
    <2>4. Cardinality(PartsOf(queue \o head, c)) <= Len(head)
        BY <2>2, <2>3, FS_Subset
    <2> QED
        BY <1>2, <1>4, <2>4
<1>11. \A d \in DOMAIN all : GroupsFit(all[d].body, table) /\ Cardinality(PartsOf(queue \o head, d)) <= all[d].left
    BY <1>4, <1>9, <1>10
<1>12. IsQueue(queue \o head, all, table)
    BY <1>4, <1>5, <1>8, <1>11 DEF IsQueue
<1> QED
    BY <1>12 DEF head, all

\* A queue goes on: what was in it is still there, at its place.
Continues(queue, later) == \A i \in DOMAIN queue : i \in DOMAIN later /\ later[i] = queue[i]

LEMMA MoreContinues ==
    ASSUME NEW queue \in Seq(Message), NEW more \in Seq(Message)
    PROVE  Continues(queue, queue \o more)
    BY DEF Continues

LEMMA PublishedQueue ==
    ASSUME NEW table \in Seq(RowRecord), NEW queue, NEW known, IsQueue(queue, known, table), CeleryRetries \in Nat,
           NEW groups \in Groups, GroupsFit(groups, table)
    PROVE  /\ IsQueue(Published(queue, known, groups).msgs, Published(queue, known, groups).chords, table)
           /\ Continues(queue, Published(queue, known, groups).msgs)
<1> DEFINE places == {i \in DOMAIN groups : groups[i] # <<>>}
           todo == Only(groups, places)
           P == Published(queue, known, groups)
<1>1. /\ todo \in Seq(Seq(Plain)) /\ Len(todo) \in Nat
      /\ \A i \in DOMAIN todo : \E p \in DOMAIN groups : todo[i] = groups[p]
    <2>1. groups \in Seq(Seq(Plain)) /\ places \subseteq DOMAIN groups
        BY DEF Groups
    <2> HIDE DEF places
    <2> QED
        BY <2>1, OnlyLists
<1>2. \A i \in DOMAIN todo : \A j \in DOMAIN todo[i] : Fresh(todo[i][j], table)
    BY <1>1 DEF GroupsFit
<1>3. queue \in Seq(Message) /\ known \in Seq(Chord)
    BY DEF IsQueue
<1>4. P = IF Len(todo) = 0 THEN [msgs |-> queue, chords |-> known]
          ELSE IF Len(todo) = 1 THEN [msgs |-> queue \o todo[1], chords |-> known]
          ELSE [msgs |-> queue \o Header(todo[1], Len(known) + 1),
                chords |-> Append(known, [left |-> Len(todo[1]), broken |-> FALSE, body |-> Tail(todo)])]
    BY DEF Published, Header
<1> HIDE DEF todo, P
<1>5. CASE Len(todo) = 0
    <2>1. P.msgs = queue /\ P.chords = known
        BY <1>4, <1>5
    <2> QED
        BY <2>1 DEF P, Continues
<1>6. ASSUME Len(todo) # 0
      PROVE  /\ todo[1] \in Seq(Plain) /\ todo[1] \in Seq(Message)
             /\ \A j \in DOMAIN todo[1] : Fresh(todo[1][j], table)
    <2>1. 1 \in DOMAIN todo
        BY <1>1, <1>6
    <2> QED
        BY <1>1, <1>2, <2>1, MessageTypes
<1>7. CASE Len(todo) = 1
    <2>1. P.msgs = queue \o todo[1] /\ P.chords = known
        BY <1>4, <1>7
    <2>2. \A j \in DOMAIN todo[1] : MessageFits(todo[1][j], table) /\ todo[1][j].chord = 0
        <3> SUFFICES ASSUME NEW j \in DOMAIN todo[1]
                     PROVE  MessageFits(todo[1][j], table) /\ todo[1][j].chord = 0
            OBVIOUS
        <3>1. todo[1][j] \in Message /\ Fresh(todo[1][j], table)
            BY <1>6, <1>7
        <3>2. todo[1][j].row # 0 => table[todo[1][j].row] \in RowRecord
            BY <3>1 DEF Fresh, Refers
        <3>3. todo[1][j].row # 0 => table[todo[1][j].row].attempts \in Nat
            BY <3>2 DEF RowRecord
        <3> QED
            BY <3>1, <3>3, FreshFits
    <2>3. IsQueue(queue \o todo[1], known, table)
        BY <1>6, <1>7, <2>2, QueueMore
    <2>4. Continues(queue, queue \o todo[1])
        BY <1>3, <1>6, <1>7, MoreContinues
    <2> QED
        BY <2>1, <2>3, <2>4 DEF P
<1>8. CASE Len(todo) # 0 /\ Len(todo) # 1
    <2>1. /\ P.msgs = queue \o Header(todo[1], Len(known) + 1)
          /\ P.chords = Append(known, [left |-> Len(todo[1]), broken |-> FALSE, body |-> Tail(todo)])
        BY <1>4, <1>8
    <2>2. Tail(todo) \in Groups /\ GroupsFit(Tail(todo), table)
        <3>1. todo # <<>>
            BY <1>1, <1>8
        <3>2. /\ Tail(todo) \in Seq(Seq(Plain)) /\ Len(Tail(todo)) = Len(todo) - 1
              /\ \A i \in 1..(Len(todo) - 1) : Tail(todo)[i] = todo[i + 1]
            BY <1>1, <3>1
        <3>3. \A i \in DOMAIN Tail(todo) : i + 1 \in DOMAIN todo /\ Tail(todo)[i] = todo[i + 1]
            BY <1>1, <3>2
        <3> QED
            BY <1>2, <3>2, <3>3 DEF GroupsFit, Groups
    <2>3. IsQueue(P.msgs, P.chords, table)
        BY <1>6, <1>8, <2>1, <2>2, QueueChord
    <2>4. Header(todo[1], Len(known) + 1) \in Seq(Message)
        <3>1. Len(known) + 1 \in Nat
            BY <1>3
        <3> QED
            BY <1>6, <1>8, <3>1, HeaderFits
    <2>5. Continues(queue, P.msgs)
        BY <1>3, <2>1, <2>4, MoreContinues
    <2> QED
        BY <2>3, <2>5 DEF P
<1> QED
    BY <1>5, <1>7, <1>8

\* The other messages stay.
Keeps(t) == \A o \in Messages \ {t} : \E i \in DOMAIN msgs' : msgs'[i] = msgs[o]

LEMMA AckedKeeps ==
    ASSUME msgs \in Seq(Message), NEW t \in Messages, Continues(Acked(t), msgs')
    PROVE  Keeps(t)
<1>1. \A o \in Messages \ {t} : \E i \in DOMAIN Acked(t) : Acked(t)[i] = msgs[o]
    BY AckedMessages
<1> QED
    BY <1>1 DEF Keeps, Continues

LEMMA MovedKeeps ==
    ASSUME NEW t \in Messages, NEW moved, DOMAIN moved = Messages,
           \A o \in Messages \ {t} : moved[o] = msgs[o], Continues(moved, msgs')
    PROVE  Keeps(t)
    BY DEF Keeps, Continues

LEMMA RaiseQueue ==
    ASSUME NEW table \in Seq(RowRecord), IsQueue(msgs, chords, table), NEW t \in Messages, Raise(t)
    PROVE  IsQueue(msgs', chords', table) /\ Keeps(t)
<1>1. msgs \in Seq(Message) /\ chords \in Seq(Chord)
    BY DEF IsQueue
<1>2. msgs' = Acked(t)
    BY DEF Raise
<1>3. ASSUME NEW c \in DOMAIN chords
      PROVE  chords'[c] \in Chord /\ chords'[c].left = chords[c].left /\ chords'[c].body = chords[c].body
    <2>1. chords[c] \in Chord
        BY <1>1
    <2>2. chords'[c] = chords[c] \/ chords'[c] = [chords[c] EXCEPT !.broken = TRUE]
        BY DEF Raise
    <2> QED
        BY <2>1, <2>2 DEF Chord
<1>4. chords' \in Seq(Chord) /\ DOMAIN chords' = DOMAIN chords
    <2>1. DOMAIN chords = 1..Len(chords) /\ Len(chords) \in Nat
        BY <1>1
    <2>2. chords' \in [1..Len(chords) -> Chord]
        BY <1>3, <2>1 DEF Raise
    <2> QED
        BY <2>1, <2>2
<1>5. \A c \in DOMAIN chords : GroupsFit(chords'[c].body, table)
    BY <1>3 DEF IsQueue
<1>6. IsQueue(msgs', chords', table)
    BY <1>2, <1>3, <1>4, <1>5, QueueAcked
<1>7. Continues(Acked(t), msgs')
    BY <1>2 DEF Continues
<1> QED
    BY <1>1, <1>6, <1>7, AckedKeeps

\* The chord of a message has at least that one to wait for.
LEMMA ChordWaits ==
    ASSUME NEW table, IsQueue(msgs, chords, table), NEW t \in Messages, msgs[t].chord # 0
    PROVE  /\ msgs[t].chord \in DOMAIN chords /\ chords[msgs[t].chord] \in Chord
           /\ chords[msgs[t].chord].left - 1 \in Nat
<1> DEFINE c == msgs[t].chord
<1>1. msgs \in Seq(Message) /\ chords \in Seq(Chord) /\ t \in DOMAIN msgs
    BY DEF IsQueue, Messages
<1>2. c \in Nat /\ c # 0 /\ c <= Len(chords)
    <2>1. msgs[t] \in Message
        BY <1>1
    <2> QED
        BY <1>1, <2>1 DEF IsQueue, Message, MessageWith
<1>3. c \in DOMAIN chords
    BY <1>1, <1>2
<1>4. t \in PartsOf(msgs, c)
    BY <1>1 DEF PartsOf
<1> HIDE DEF c
<1>5. chords[c] \in Chord /\ chords[c].left \in Nat
    <2>1. chords[c] \in Chord
        BY <1>1, <1>3
    <2> QED
        BY <2>1 DEF Chord
<1>6. Cardinality(PartsOf(msgs, c)) <= chords[c].left
    BY <1>3 DEF IsQueue
<1>7. Cardinality(PartsOf(msgs, c)) \in Nat /\ Cardinality(PartsOf(msgs, c)) # 0
    BY <1>1, <1>4, PartsFinite, FS_EmptySet
<1> QED
    BY <1>3, <1>5, <1>6, <1>7 DEF c

\* The result of the first task of a chain takes the place of that task in its chord.
LEMMA NextQueue ==
    ASSUME NEW table \in Seq(RowRecord), IsQueue(msgs, chords, table), NEW t \in Messages, CeleryRetries \in Nat,
           NEW value \in 0..Len(table)
    PROVE  LET next == [Extract(value, 0) EXCEPT !.chord = msgs[t].chord]
           IN IsQueue(Append(Acked(t), next), chords, table) /\ Continues(Acked(t), Append(Acked(t), next))
<1> DEFINE next == [Extract(value, 0) EXCEPT !.chord = msgs[t].chord]
           later == Append(Acked(t), next)
<1>1. msgs \in Seq(Message) /\ chords \in Seq(Chord) /\ t \in DOMAIN msgs /\ msgs[t] \in Message
    BY DEF IsQueue, Messages
<1>2. msgs[t].chord \in Nat /\ msgs[t].chord <= Len(chords) /\ Len(chords) \in Nat
    BY <1>1 DEF IsQueue, Message, MessageWith
<1>3. next \in Message /\ MessageFits(next, table) /\ next.chord = msgs[t].chord
    <2>1. Len(table) \in Nat /\ 0 \in 0..Len(table)
        OBVIOUS
    <2>2. Extract(value, 0) \in Plain /\ Fresh(Extract(value, 0), table)
        BY <2>1, ExtractFresh
    <2>3. next \in Plain
        BY <1>2, <2>2 DEF Plain, MessageWith
    <2>4. /\ next.chord = msgs[t].chord /\ next.row = value /\ next.failed = 0 /\ next.value = 0
          /\ next.kind = "extract" /\ next.pc = "queued" /\ next.retries = 0
        BY DEF Extract
    <2>5. value # 0 => table[value].attempts \in Nat
        <3>1. value # 0 => table[value] \in RowRecord
            BY <2>1
        <3> QED
            BY <3>1 DEF RowRecord
    <2> HIDE DEF next
    <2>6. Refers(next, table)
        BY <2>1, <2>4 DEF Refers
    <2> QED
        BY <2>3, <2>4, <2>5, <2>6, MessageTypes DEF MessageFits
<1>4. Acked(t) \in Seq(Message) /\ IsQueue(Acked(t), chords, table)
    <2>1. \A c \in DOMAIN chords : GroupsFit(chords[c].body, table)
        BY DEF IsQueue
    <2> QED
        BY <1>1, <2>1, AckedMessages, QueueAcked
<1> DEFINE n == Len(Acked(t))
<1> HIDE DEF next
<1>5. /\ n \in Nat /\ later \in Seq(Message) /\ DOMAIN Acked(t) = 1..n /\ DOMAIN later = 1..(n + 1)
      /\ \A i \in 1..n : later[i] = Acked(t)[i]
      /\ later[n + 1] = next
    BY <1>3, <1>4
<1> HIDE DEF n, later
<1>6. ASSUME NEW i \in DOMAIN later
      PROVE  MessageFits(later[i], table) /\ later[i].chord <= Len(chords)
    <2>1. i \in 1..n \/ i = n + 1
        BY <1>5
    <2> QED
        BY <1>2, <1>3, <1>4, <1>5, <2>1 DEF IsQueue
<1>7. ASSUME NEW c \in DOMAIN chords
      PROVE  Cardinality(PartsOf(later, c)) <= chords[c].left
    <2>1. \A i : i \in PartsOf(later, c) <=>
            i \in PartsOf(Acked(t), c) \/ (i = n + 1 /\ msgs[t].chord = c)
        <3>1. \A i : i \in 1..(n + 1) <=> i \in 1..n \/ i = n + 1
            BY <1>5
        <3>2. n + 1 \notin 1..n
            BY <1>5
        <3> QED
            BY <1>3, <1>5, <3>1, <3>2 DEF PartsOf
    <2>2. IsFiniteSet(PartsOf(Acked(t), c)) /\ Cardinality(PartsOf(Acked(t), c)) \in Nat
        BY <1>4, PartsFinite
    <2>3. /\ Cardinality(PartsOf(Acked(t), c)) =
               (IF msgs[t].chord = c THEN Cardinality(PartsOf(msgs, c)) - 1
                ELSE Cardinality(PartsOf(msgs, c)))
          /\ Cardinality(PartsOf(msgs, c)) \in Nat /\ Cardinality(PartsOf(msgs, c)) <= chords[c].left
        BY <1>1, PartsOfAcked, PartsFinite DEF IsQueue
    <2>4. CASE msgs[t].chord = c
        <3>1. PartsOf(later, c) = PartsOf(Acked(t), c) \cup {n + 1}
            BY <2>1, <2>4
        <3>2. n + 1 \notin PartsOf(Acked(t), c)
            BY <1>5 DEF PartsOf
        <3>3. Cardinality(PartsOf(later, c)) = Cardinality(PartsOf(Acked(t), c)) + 1
            BY <2>2, <3>1, <3>2, FS_AddElement
        <3> QED
            BY <2>3, <2>4, <3>3
    <2>5. CASE msgs[t].chord # c
        <3>1. PartsOf(later, c) = PartsOf(Acked(t), c)
            BY <2>1, <2>5
        <3> QED
            BY <2>3, <2>5, <3>1
    <2> QED
        BY <2>4, <2>5
<1>8. IsQueue(later, chords, table)
    BY <1>1, <1>4, <1>5, <1>6, <1>7 DEF IsQueue
<1>9. Continues(Acked(t), later)
    BY <1>5 DEF Continues
<1> QED
    BY <1>8, <1>9 DEF later, next

LEMMA ReturnQueue ==
    ASSUME NEW table \in Seq(RowRecord), IsQueue(msgs, chords, table), NEW t \in Messages, CeleryRetries \in Nat,
           NEW value \in 0..Len(table), Return(t, value)
    PROVE  IsQueue(msgs', chords', table) /\ Keeps(t)
<1> DEFINE c == msgs[t].chord
           counted == [chords EXCEPT ![c].left = @ - 1]
           emptied == [counted EXCEPT ![c].body = <<>>]
<1>1. msgs \in Seq(Message) /\ chords \in Seq(Chord)
    BY DEF IsQueue
<1>2. \A d \in DOMAIN chords : GroupsFit(chords[d].body, table)
    BY DEF IsQueue
<1>3. IsQueue(Acked(t), chords, table)
    BY <1>1, <1>2, QueueAcked
<1>4. SUFFICES IsQueue(msgs', chords', table) /\ Continues(Acked(t), msgs')
    BY <1>1, AckedKeeps
<1>5. CASE /\ msgs[t].next
           /\ msgs' = Append(Acked(t), [Extract(value, 0) EXCEPT !.chord = msgs[t].chord])
           /\ UNCHANGED chords
    BY <1>5, NextQueue
<1>6. CASE ~msgs[t].next /\ c = 0 /\ msgs' = Acked(t) /\ UNCHANGED chords
    BY <1>3, <1>6 DEF Continues
<1>7. ASSUME c # 0
      PROVE  /\ c \in DOMAIN chords /\ counted \in Seq(Chord) /\ DOMAIN counted = DOMAIN chords
             /\ counted[c].left = chords[c].left - 1 /\ counted[c].body = chords[c].body
             /\ \A d \in DOMAIN chords : d # c => counted[d] = chords[d]
    <2>1. c \in DOMAIN chords /\ chords[c] \in Chord /\ chords[c].left - 1 \in Nat
        BY <1>7, ChordWaits
    <2>2. PICK one : one = [chords[c] EXCEPT !.left = @ - 1]
        OBVIOUS
    <2>3. one \in Chord /\ one.left = chords[c].left - 1 /\ one.body = chords[c].body
        BY <2>1, <2>2 DEF Chord
    <2>4. counted = [chords EXCEPT ![c] = one]
        BY <2>2
    <2> HIDE DEF counted, c
    <2> QED
        BY <1>1, <2>1, <2>3, <2>4
<1>8. ASSUME c # 0
      PROVE  /\ emptied \in Seq(Chord) /\ DOMAIN emptied = DOMAIN chords
             /\ emptied[c].left = chords[c].left - 1 /\ emptied[c].body = <<>>
             /\ \A d \in DOMAIN chords : d # c => emptied[d] = chords[d]
    <2>1. counted[c] \in Chord
        BY <1>7, <1>8
    <2>2. PICK one : one = [counted[c] EXCEPT !.body = <<>>]
        OBVIOUS
    <2>3. one \in Chord /\ one.left = counted[c].left /\ one.body = <<>>
        BY <2>1, <2>2, MessageTypes DEF Chord
    <2>4. emptied = [counted EXCEPT ![c] = one]
        BY <2>2
    <2> HIDE DEF emptied, counted, c
    <2> QED
        BY <1>7, <1>8, <2>3, <2>4
<1> HIDE DEF counted, emptied
<1>9. CASE /\ ~msgs[t].next /\ c # 0
           /\ ~(counted[c].left = 0 /\ ~counted[c].broken)
           /\ msgs' = Acked(t) /\ chords' = counted
    <2>1. \A d \in DOMAIN chords :
            /\ GroupsFit(counted[d].body, table)
            /\ counted[d].left = chords[d].left \/ (d = msgs[t].chord /\ counted[d].left = chords[d].left - 1)
        BY <1>2, <1>7, <1>9
    <2>2. IsQueue(Acked(t), counted, table)
        BY <1>7, <1>9, <2>1, QueueAcked
    <2> QED
        BY <1>9, <2>2 DEF Continues
<1>10. CASE /\ ~msgs[t].next /\ c # 0
            /\ counted[c].left = 0 /\ ~counted[c].broken
            /\ Publish(Acked(t), emptied, counted[c].body)
    <2>1. GroupsFit(<<>>, table)
        BY DEF GroupsFit
    <2>2. \A d \in DOMAIN chords :
            /\ GroupsFit(emptied[d].body, table)
            /\ emptied[d].left = chords[d].left \/ (d = msgs[t].chord /\ emptied[d].left = chords[d].left - 1)
        BY <1>2, <1>8, <1>10, <2>1
    <2>3. IsQueue(Acked(t), emptied, table)
        BY <1>8, <1>10, <2>2, QueueAcked
    <2>4. counted[c].body \in Groups /\ GroupsFit(counted[c].body, table)
        <3>1. counted[c].body = chords[c].body /\ chords[c] \in Chord
            BY <1>1, <1>7, <1>10
        <3> QED
            BY <1>2, <1>7, <1>10, <3>1 DEF Chord
    <2> QED
        BY <1>10, <2>3, <2>4, PublishedQueue DEF Publish
<1> QED
    BY <1>5, <1>6, <1>9, <1>10 DEF Return, counted, emptied

-----------------------------------------------------------------------------
(* What is done to the table of rows.                                        *)

LEMMA TableLater ==
    ASSUME NEW table, IsTable(table), NEW later \in Seq(RowRecord), Grows(table, later),
           \A r \in DOMAIN later \ DOMAIN table : ItemFits(later[r]) /\ ParentFits(later, r)
    PROVE  IsTable(later)
<1>1. table \in Seq(RowRecord)
    BY DEF IsTable
<1>2. /\ Len(table) \in Nat /\ Len(later) \in Nat
      /\ DOMAIN table = 1..Len(table) /\ DOMAIN later = 1..Len(later)
    BY <1>1
<1>3. ASSUME NEW r \in DOMAIN table
      PROVE  ItemFits(later[r]) /\ ParentFits(later, r)
    <2>1. /\ later[r].type = table[r].type /\ later[r].item = table[r].item
          /\ later[r].parent = table[r].parent
        BY DEF Grows
    <2>2. ItemFits(table[r]) /\ ParentFits(table, r)
        BY DEF IsTable
    <2>3. ItemFits(later[r])
        BY <2>1, <2>2 DEF ItemFits
    <2>4. table[r].parent # 0 => later[table[r].parent].type = table[table[r].parent].type
        <3>1. table[r].parent \in 0..(r - 1)
            BY <2>2 DEF ParentFits
        <3>2. table[r].parent # 0 => table[r].parent \in DOMAIN table
            BY <1>2, <3>1
        <3> QED
            BY <3>2 DEF Grows
    <2>5. Existing(table, table[r].parent, "POLYGON", table[r].item)
            \subseteq Existing(later, table[r].parent, "POLYGON", table[r].item)
        BY <1>1, ExistingLater
    <2>6. ParentFits(later, r)
        BY <2>1, <2>2, <2>4, <2>5 DEF ParentFits
    <2> QED
        BY <2>3, <2>6
<1> QED
    BY <1>3 DEF IsTable

LEMMA GrowsOn ==
    ASSUME NEW table \in Seq(RowRecord), NEW later \in Seq(RowRecord), NEW last \in Seq(RowRecord),
           Grows(table, later), Grows(later, last)
    PROVE  Grows(table, last)
<1>1. /\ Len(table) \in Nat /\ Len(later) \in Nat /\ Len(last) \in Nat
      /\ DOMAIN table = 1..Len(table) /\ DOMAIN later = 1..Len(later) /\ DOMAIN last = 1..Len(last)
      /\ Len(table) <= Len(later) /\ Len(later) <= Len(last)
    BY DEF Grows
<1>2. ASSUME NEW r \in DOMAIN table
      PROVE  /\ last[r].type = table[r].type /\ last[r].item = table[r].item
             /\ last[r].parent = table[r].parent
             /\ last[r].attempts >= table[r].attempts
    <2>1. r \in DOMAIN later /\ r \in DOMAIN last
        BY <1>1
    <2>2. table[r] \in RowRecord /\ later[r] \in RowRecord /\ last[r] \in RowRecord
        BY <2>1
    <2>3. table[r].attempts \in Nat /\ later[r].attempts \in Nat /\ last[r].attempts \in Nat
        BY <2>2 DEF RowRecord
    <2> QED
        BY <2>1, <2>3 DEF Grows
<1> QED
    BY <1>1, <1>2 DEF Grows

LEMMA GrowsItself ==
    ASSUME NEW table \in Seq(RowRecord)
    PROVE  Grows(table, table)
<1>1. \A r \in DOMAIN table : table[r] \in RowRecord
    OBVIOUS
<1>2. \A r \in DOMAIN table : table[r].attempts >= table[r].attempts
    BY <1>1 DEF RowRecord
<1> QED
    BY <1>2 DEF Grows

\* One row changes, but for what it is about.
LEMMA RowChanged ==
    ASSUME NEW table, IsTable(table), NEW r \in DOMAIN table, NEW row \in RowRecord,
           row.type = table[r].type, row.item = table[r].item, row.parent = table[r].parent,
           row.attempts >= table[r].attempts
    PROVE  LET later == [table EXCEPT ![r] = row]
           IN /\ IsTable(later) /\ Grows(table, later) /\ DOMAIN later = DOMAIN table
              /\ later[r] = row /\ \A o \in DOMAIN table \ {r} : later[o] = table[o]
<1> DEFINE later == [table EXCEPT ![r] = row]
<1>1. table \in Seq(RowRecord)
    BY DEF IsTable
<1>2. /\ later \in Seq(RowRecord) /\ DOMAIN later = DOMAIN table /\ Len(later) = Len(table)
      /\ later[r] = row /\ \A o \in DOMAIN table \ {r} : later[o] = table[o]
    BY <1>1
<1>3. \A o \in DOMAIN table : table[o] \in RowRecord
    BY <1>1
<1>4. \A o \in DOMAIN table : table[o].attempts >= table[o].attempts
    BY <1>3 DEF RowRecord
<1> HIDE DEF later
<1>5. Grows(table, later)
    <2>1. Len(table) <= Len(later)
        BY <1>1, <1>2
    <2>2. ASSUME NEW o \in DOMAIN table
          PROVE  /\ later[o].type = table[o].type /\ later[o].item = table[o].item
                 /\ later[o].parent = table[o].parent
                 /\ later[o].attempts >= table[o].attempts
        <3>1. CASE o = r
            BY <1>2, <3>1
        <3>2. CASE o # r
            BY <1>2, <1>4, <3>2
        <3> QED
            BY <3>1, <3>2
    <2> QED
        BY <2>1, <2>2 DEF Grows
<1>6. IsTable(later)
    BY <1>2, <1>5, TableLater
<1> QED
    BY <1>2, <1>5, <1>6 DEF later

\* A row that can be added.
RowFits(row, table) ==
    /\ row \in RowRecord /\ ItemFits(row) /\ row.parent \in 0..Len(table)
    /\ row.type \in DOMAIN ParentType =>
            row.parent # 0 /\ table[row.parent].type = ParentType[row.type]

LEMMA TableMore ==
    ASSUME NEW table, IsTable(table), NEW new \in Seq(RowRecord),
           \A i \in DOMAIN new :
                /\ RowFits(new[i], table)
                /\ new[i].type = "EXPOSURE_LIST" =>
                        Existing(table \o new, new[i].parent, "POLYGON", new[i].item) # {}
    PROVE  /\ IsTable(table \o new) /\ Grows(table, table \o new)
           /\ Len(table \o new) = Len(table) + Len(new)
           /\ \A r \in DOMAIN table : (table \o new)[r] = table[r]
           /\ \A r \in DOMAIN (table \o new) \ DOMAIN table : \E i \in DOMAIN new : (table \o new)[r] = new[i]
           /\ \A i \in DOMAIN new : (table \o new)[Len(table) + i] = new[i]
<1> DEFINE later == table \o new
<1>1. table \in Seq(RowRecord)
    BY DEF IsTable
<1>2. /\ Len(table) \in Nat /\ Len(new) \in Nat /\ Len(later) = Len(table) + Len(new)
      /\ DOMAIN table = 1..Len(table) /\ DOMAIN new = 1..Len(new) /\ DOMAIN later = 1..Len(later)
      /\ later \in Seq(RowRecord)
      /\ \A r \in 1..Len(table) : later[r] = table[r]
      /\ \A i \in 1..Len(new) : later[Len(table) + i] = new[i]
    BY <1>1
<1> HIDE DEF later
<1>3. \A r \in DOMAIN later \ DOMAIN table : \E i \in DOMAIN new : r = Len(table) + i
    <2>1. ASSUME NEW r \in 1..Len(later), r \notin 1..Len(table)
          PROVE  r - Len(table) \in 1..Len(new) /\ r = Len(table) + (r - Len(table))
        BY <1>2, <2>1
    <2> QED
        BY <1>2, <2>1
<1>4. Grows(table, later)
    <2>1. \A o \in DOMAIN table : table[o] \in RowRecord
        BY <1>1
    <2>2. \A o \in DOMAIN table : table[o].attempts >= table[o].attempts
        BY <2>1 DEF RowRecord
    <2> QED
        BY <1>2, <2>2 DEF Grows
<1>5. ASSUME NEW r \in DOMAIN later \ DOMAIN table
      PROVE  ItemFits(later[r]) /\ ParentFits(later, r)
    <2>1. PICK i \in DOMAIN new : r = Len(table) + i
        BY <1>3
    <2>2. later[r] = new[i] /\ RowFits(new[i], table)
        BY <1>2, <2>1
    <2>3. later[r].parent \in 0..(r - 1)
        BY <1>2, <2>1, <2>2 DEF RowFits
    <2>4. later[r].parent # 0 => later[later[r].parent] = table[later[r].parent]
        <3>1. later[r].parent \in 0..Len(table)
            BY <2>2 DEF RowFits
        <3> QED
            BY <1>2, <3>1
    <2>5. later[r].type = "EXPOSURE_LIST" =>
                Existing(later, later[r].parent, "POLYGON", later[r].item) # {}
        BY <2>2 DEF later
    <2> QED
        BY <2>2, <2>3, <2>4, <2>5 DEF RowFits, ParentFits
<1>6. IsTable(later)
    BY <1>2, <1>4, <1>5, TableLater
<1> QED
    BY <1>2, <1>3, <1>4, <1>6 DEF later

\* A row is marked.
LEMMA MarkedRow ==
    ASSUME NEW table, IsTable(table), NEW t, msgs[t].row \in DOMAIN table, NEW status \in Status
    PROVE  LET r == msgs[t].row
               later == Mark(table, t, status)
           IN /\ IsTable(later) /\ Grows(table, later) /\ DOMAIN later = DOMAIN table
              /\ later[r] \in RowRecord /\ later[r].status = status
              /\ \A o \in DOMAIN table \ {r} : later[o] = table[o]
<1> DEFINE r == msgs[t].row
           later == Mark(table, t, status)
<1>1. table \in Seq(RowRecord) /\ table[r] \in RowRecord
    BY DEF IsTable
<1>2. PICK one : one = [table[r] EXCEPT !.status = status]
    OBVIOUS
<1>3. PICK two : two = [one EXCEPT !.runs = IF Received(t) /\ @ < 2 THEN @ + 1 ELSE @]
    OBVIOUS
<1>4. one \in RowRecord /\ one.status = status
    BY <1>1, <1>2 DEF RowRecord
<1>5. two \in RowRecord /\ two.status = status
    BY <1>4, <1>3 DEF RowRecord
<1>6. /\ two.type = table[r].type /\ two.item = table[r].item /\ two.parent = table[r].parent
      /\ two.attempts = table[r].attempts /\ table[r].attempts \in Nat
    BY <1>1, <1>2, <1>3 DEF RowRecord
<1>7. later = [table EXCEPT ![r] = two]
    BY <1>1, <1>2, <1>3 DEF Mark
<1>8. two.attempts >= table[r].attempts
    BY <1>6
<1> HIDE DEF r, later
<1>r. r \in DOMAIN table
    BY DEF r
<1>9. /\ IsTable(later) /\ Grows(table, later) /\ DOMAIN later = DOMAIN table
      /\ later[r] = two /\ \A o \in DOMAIN table \ {r} : later[o] = table[o]
    BY <1>r, <1>5, <1>6, <1>7, <1>8, RowChanged
<1> QED
    BY <1>5, <1>9 DEF r, later

-----------------------------------------------------------------------------
(* What is done to the remote side, and to what has been read.                *)

LEMMA WorldOf ==
    ASSUME IsWorld, MaxFaults \in Nat, NEW i \in Items
    PROVE  world[i].content \in 1..(MaxFaults + 1) /\ world[i].tag \in 1..(MaxFaults + 1)
<1>1. /\ spent.errors \in Nat /\ spent.unknown \in Nat /\ spent.empty \in Nat
      /\ spent.timeouts \in Nat /\ spent.losses \in Nat /\ spent.changes \in Nat
    BY DEF IsWorld, Faults
<1>2. spent.changes <= MaxFaults
    BY <1>1 DEF IsWorld, Used
<1>3. world[i] \in [tag : 1..(spent.changes + 1), content : 1..(spent.changes + 1)]
    BY DEF IsWorld
<1>4. world[i].content \in 1..(spent.changes + 1) /\ world[i].tag \in 1..(spent.changes + 1)
    BY <1>3
<1> QED
    BY <1>1, <1>2, <1>4

\* The remote side does not get older, and lost workers are not forgotten.
WorldGoesOn == IsWorld' /\ spent'.losses >= spent.losses

LEMMA WorldStays ==
    ASSUME IsWorld, UNCHANGED <<world, spent>>
    PROVE  WorldGoesOn
<1>1. spent.losses \in Nat
    BY DEF IsWorld, Faults
<1> QED
    BY <1>1 DEF WorldGoesOn, IsWorld, Used

LEMMA Spending ==
    ASSUME IsWorld, MaxFaults \in Nat, NEW what \in Faults, Left,
           spent' = [spent EXCEPT ![what] = @ + 1],
           \/ UNCHANGED world
           \/ /\ what = "changes"
              /\ \E i \in Items, edited \in {0, 1} :
                    world' = [world EXCEPT ![i] = [tag |-> @.tag + 1, content |-> @.content + edited]]
    PROVE  WorldGoesOn /\ (what = "losses" => spent'.losses > 0)
<1>1. /\ spent.errors \in Nat /\ spent.unknown \in Nat /\ spent.empty \in Nat
      /\ spent.timeouts \in Nat /\ spent.losses \in Nat /\ spent.changes \in Nat
      /\ spent[what] \in Nat
    BY DEF IsWorld, Faults
<1>2. /\ spent' \in [Faults \cup {"retriggers", "sweeps"} -> Nat]
      /\ spent'[what] = spent[what] + 1
      /\ \A f \in Faults \ {what} : spent'[f] = spent[f]
    BY <1>1 DEF IsWorld
<1>3. /\ spent'.losses >= spent.losses /\ (what = "losses" => spent'.losses > 0)
      /\ spent'.changes >= spent.changes /\ (what = "changes" => spent'.changes = spent.changes + 1)
      /\ spent'.changes \in Nat
    BY <1>1, <1>2 DEF Faults
<1>4. Used' = Used + 1
    BY <1>1, <1>2 DEF Faults, Used
<1>5. Used' <= MaxFaults
    <2>1. Used < MaxFaults /\ Used \in Nat
        BY <1>1 DEF Left, Used
    <2> QED
        BY <1>4, <2>1
<1>6. world' \in [Items -> [tag : 1..(spent'.changes + 1), content : 1..(spent'.changes + 1)]]
    <2> DEFINE Before == [tag : 1..(spent.changes + 1), content : 1..(spent.changes + 1)]
               After == [tag : 1..(spent'.changes + 1), content : 1..(spent'.changes + 1)]
    <2>1. world \in [Items -> Before]
        BY DEF IsWorld
    <2>2. Before \subseteq After
        BY <1>1, <1>3
    <2>3. CASE UNCHANGED world
        <3>1. \A j \in Items : world[j] \in After
            BY <2>1, <2>2
        <3>2. world \in [Items -> After]
            BY <2>1, <3>1
        <3> QED
            BY <2>3, <3>2
    <2>4. ASSUME what = "changes", NEW i \in Items, NEW edited \in {0, 1},
                 world' = [world EXCEPT ![i] = [tag |-> @.tag + 1, content |-> @.content + edited]]
          PROVE  world' \in [Items -> After]
        <3>1. world[i] \in Before
            BY <2>1
        <3>2. world[i].tag \in 1..(spent.changes + 1) /\ world[i].content \in 1..(spent.changes + 1)
            BY <3>1
        <3>3. [tag |-> world[i].tag + 1, content |-> world[i].content + edited] \in After
            BY <1>1, <1>3, <2>4, <3>2
        <3> HIDE DEF Before, After
        <3> QED
            BY <2>1, <2>2, <2>4, <3>3
    <2> QED
        BY <2>3, <2>4
<1> QED
    BY <1>2, <1>3, <1>5, <1>6 DEF WorldGoesOn, IsWorld

LEMMA ReadStays ==
    ASSUME rows \in Seq(RowRecord), rows' \in Seq(RowRecord), Grows(rows, rows'), HasRead,
           UNCHANGED <<ended, fed>>
    PROVE  HasRead'
<1>1. Rows = 1..Len(rows) /\ Rows' = 1..Len(rows') /\ Len(rows) <= Len(rows')
      /\ Len(rows) \in Nat /\ Len(rows') \in Nat
    BY DEF Rows, Grows
<1>2. Rows \subseteq Rows'
    BY <1>1
<1>3. \A r \in Rows : rows'[r].type = rows[r].type
    BY DEF Grows, Rows
<1> QED
    BY <1>2, <1>3 DEF HasRead

-----------------------------------------------------------------------------
(* What a step about a message has to do, and has to leave alone, for the      *)
(* invariant to hold after it.                                               *)

TableGoesOn ==
    /\ IsTable(rows') /\ Grows(rows, rows')
    /\ \A r \in DOMAIN rows' : rows'[r].type \in TypesOf(source)

QueueGoesOn(t) == IsQueue(msgs', chords', rows') /\ Keeps(t)

\* A row whose status is still the same and which the message is not in charge of has been
\* attended by something else, which is still there.
Answered(t) ==
    \A o \in DOMAIN rows' :
        \/ Attended(o)'
        \/ o \in Rows /\ rows'[o].status = rows[o].status /\ ~InCharge(t, o)

Proper(t) == TableGoesOn /\ QueueGoesOn(t) /\ WorldGoesOn /\ HasRead' /\ Answered(t)

LEMMA StillAttended ==
    ASSUME rows \in Seq(RowRecord), rows' \in Seq(RowRecord), spent.losses \in Nat, spent'.losses \in Nat,
           CeleryRetries \in Nat, Grows(rows, rows'), spent'.losses >= spent.losses,
           NEW t \in Messages, Keeps(t),
           NEW o \in Rows, Attended(o), rows'[o].status = rows[o].status, ~InCharge(t, o)
    PROVE  Attended(o)'
<1>1. rows[o] \in RowRecord /\ rows'[o] \in RowRecord
    BY DEF Rows, Grows
<1>2. rows'[o].attempts >= rows[o].attempts /\ rows'[o].attempts \in Nat /\ rows[o].attempts \in Nat
    BY <1>1 DEF Grows, RowRecord, Rows
<1>3. rows'[o].type = rows[o].type
    BY DEF Grows, Rows
<1>4. CASE rows[o].status \in {"SUCCESS", "PENDING", "FAILED"}
    BY <1>4 DEF Attended
<1>5. CASE rows[o].status = "IN_PROGRESS" /\ spent.losses > 0
    <2>1. spent'.losses > 0
        BY <1>5
    <2> QED
        BY <1>5, <2>1 DEF Attended
<1>6. CASE rows[o].status = "ON_RETRY" /\ (rows[o].attempts > CeleryRetries \/ rows[o].type = "IMPACT")
    <2>1. rows'[o].attempts > CeleryRetries \/ rows'[o].type = "IMPACT"
        BY <1>2, <1>3, <1>6
    <2> QED
        BY <1>6, <2>1 DEF Attended
<1>7. CASE \E i \in Messages : InCharge(i, o)
    <2>1. PICK i \in Messages : InCharge(i, o)
        BY <1>7
    <2>2. i \in Messages \ {t}
        BY <2>1
    <2>3. PICK j \in DOMAIN msgs' : msgs'[j] = msgs[i]
        BY <2>2 DEF Keeps
    <2>4. InCharge(j, o)'
        BY <2>1, <2>3 DEF InCharge
    <2> QED
        BY <2>3, <2>4 DEF Attended, Messages
<1> QED
    BY <1>4, <1>5, <1>6, <1>7 DEF Attended

LEMMA ProperKeeps ==
    ASSUME Typed, AllAttended, NEW t \in Messages, Proper(t), UNCHANGED source, CeleryRetries \in Nat
    PROVE  Typed' /\ AllAttended'
<1>1. /\ IsTable(rows') /\ Grows(rows, rows') /\ rows \in Seq(RowRecord) /\ rows' \in Seq(RowRecord)
      /\ IsQueue(msgs', chords', rows') /\ Keeps(t) /\ WorldGoesOn /\ HasRead' /\ Answered(t)
      /\ \A r \in DOMAIN rows' : rows'[r].type \in TypesOf(source)
    BY DEF Proper, TableGoesOn, QueueGoesOn, Typed, IsTable
<1>2. rows' # <<>>
    <2>1. rows # <<>> /\ Len(rows) <= Len(rows')
        BY <1>1 DEF Typed, Grows
    <2> QED
        BY <1>1, <2>1
<1>3. Typed'
    <2>1. source' \in Chosen /\ (\A r \in DOMAIN rows' : rows'[r].type \in TypesOf(source'))
        BY <1>1 DEF Typed
    <2>2. IsWorld'
        BY <1>1 DEF WorldGoesOn
    <2> QED
        BY <1>1, <1>2, <2>1, <2>2 DEF Typed, Rows
<1>4. ASSUME NEW o \in DOMAIN rows'
      PROVE  Attended(o)'
    <2>1. CASE Attended(o)'
        BY <2>1
    <2>2. CASE o \in Rows /\ rows'[o].status = rows[o].status /\ ~InCharge(t, o)
        <3>1. Attended(o)
            BY <2>2 DEF AllAttended
        <3>2. spent.losses \in Nat /\ spent'.losses \in Nat /\ spent'.losses >= spent.losses
            BY <1>1 DEF WorldGoesOn, IsWorld, Typed, Faults
        <3> QED
            BY <1>1, <2>2, <3>1, <3>2, StillAttended
    <2> QED
        BY <1>1, <2>1, <2>2 DEF Answered
<1>5. AllAttended'
    BY <1>4 DEF AllAttended, Rows
<1> QED
    BY <1>3, <1>5

LEMMA RowsStay ==
    ASSUME Typed, UNCHANGED rows
    PROVE  TableGoesOn /\ rows \in Seq(RowRecord) /\ rows' \in Seq(RowRecord) /\ Grows(rows, rows')
<1>1. rows \in Seq(RowRecord)
    BY DEF Typed, IsTable
<1>2. Grows(rows, rows)
    BY <1>1, GrowsItself
<1> QED
    BY <1>1, <1>2 DEF Typed, TableGoesOn, Rows

\* A message that is not an extraction is in charge of nothing.
LEMMA NothingInCharge ==
    ASSUME Typed, UNCHANGED rows, NEW t \in Messages, msgs[t].kind # "extract" \/ msgs[t].row = 0
    PROVE  Answered(t)
<1>1. 0 \notin Rows
    BY DEF Typed, IsTable, Rows
<1> QED
    BY <1>1 DEF Answered, InCharge, Rows

\* A step about one row, which is attended after it.
Handled(row) ==
    row.status \in {"SUCCESS", "PENDING", "FAILED"} \/ (row.status = "ON_RETRY" /\ row.type = "IMPACT")

LEMMA OneRow ==
    ASSUME NEW t \in Messages, NEW r, msgs[t].row = r,
           \A o \in Rows \ {r} : rows'[o].status = rows[o].status,
           \A o \in DOMAIN rows' \ Rows : Handled(rows'[o]),
           Attended(r)'
    PROVE  Answered(t)
<1>1. ASSUME NEW o \in DOMAIN rows', o # r, o \in Rows
      PROVE  rows'[o].status = rows[o].status /\ ~InCharge(t, o)
    BY <1>1 DEF InCharge
<1>2. ASSUME NEW o \in DOMAIN rows', o \notin Rows
      PROVE  Attended(o)'
    <2>1. Handled(rows'[o])
        BY <1>2
    <2> QED
        BY <2>1 DEF Handled, Attended
<1>3. ASSUME NEW o \in DOMAIN rows', o = r
      PROVE  Attended(o)'
    BY <1>3
<1> QED
    BY <1>1, <1>2, <1>3 DEF Answered

-----------------------------------------------------------------------------
(* The life of a delivery.                                                   *)

\* A delivery at work has a row.
LEMMA Delivery ==
    ASSUME Typed, NEW t \in Messages, Received(t) \/ msgs[t].pc # "queued"
    PROVE  /\ msgs[t] \in Message /\ msgs[t].kind = "extract" /\ MessageFits(msgs[t], rows)
           /\ msgs[t].row \in Rows /\ rows[msgs[t].row] \in RowRecord
           /\ IsTable(rows) /\ rows \in Seq(RowRecord) /\ IsQueue(msgs, chords, rows)
           /\ msgs \in Seq(Message) /\ t \in DOMAIN msgs
<1>1. /\ IsTable(rows) /\ rows \in Seq(RowRecord) /\ IsQueue(msgs, chords, rows)
      /\ msgs \in Seq(Message) /\ t \in DOMAIN msgs
    BY DEF Typed, IsTable, IsQueue, Messages
<1>2. msgs[t] \in Message /\ MessageFits(msgs[t], rows)
    BY <1>1 DEF IsQueue
<1>3. msgs[t].kind = "extract" /\ msgs[t].row # 0
    BY <1>2 DEF MessageFits, Received, Taken, Waits, At
<1>4. msgs[t].row \in Rows
    <2>1. msgs[t].row \in 0..Len(rows) /\ Rows = 1..Len(rows) /\ Len(rows) \in Nat
        BY <1>1, <1>2 DEF MessageFits, Refers, Rows
    <2> QED
        BY <1>3, <2>1
<1>5. rows[msgs[t].row] \in RowRecord
    BY <1>1, <1>4 DEF Rows
<1> QED
    BY <1>1, <1>2, <1>3, <1>4, <1>5

\* One message is changed.
LEMMA OneMessage ==
    ASSUME NEW table, IsQueue(msgs, chords, table), NEW t \in Messages,
           NEW m \in Message, MessageFits(m, table), m.chord = msgs[t].chord
    PROVE  LET later == [msgs EXCEPT ![t] = m]
           IN /\ IsQueue(later, chords, table) /\ later \in Seq(Message) /\ DOMAIN later = Messages
              /\ later[t] = m /\ \A o \in Messages \ {t} : later[o] = msgs[o]
<1> DEFINE later == [msgs EXCEPT ![t] = m]
<1>1. msgs \in Seq(Message) /\ t \in DOMAIN msgs
    BY DEF IsQueue, Messages
<1>2. /\ later \in Seq(Message) /\ DOMAIN later = DOMAIN msgs /\ later[t] = m
      /\ \A o \in DOMAIN msgs \ {t} : later[o] = msgs[o]
    BY <1>1
<1> HIDE DEF later
<1>3. ASSUME NEW o \in DOMAIN msgs
      PROVE  MessageFits(later[o], table) /\ later[o].chord = msgs[o].chord
    <2>1. MessageFits(msgs[o], table)
        BY DEF IsQueue
    <2> QED
        BY <1>2, <2>1
<1>4. IsQueue(later, chords, table)
    BY <1>2, <1>3, QueueMoved
<1> QED
    BY <1>2, <1>4 DEF later, Messages

LEMMA OneMessageKeeps ==
    ASSUME NEW table, IsQueue(msgs, chords, table), NEW t \in Messages,
           NEW m \in Message, MessageFits(m, table), m.chord = msgs[t].chord,
           msgs' = [msgs EXCEPT ![t] = m], UNCHANGED chords
    PROVE  IsQueue(msgs', chords', table) /\ Keeps(t) /\ t \in DOMAIN msgs' /\ msgs'[t] = m
<1>1. /\ IsQueue(msgs', chords, table) /\ DOMAIN msgs' = Messages
      /\ msgs'[t] = m /\ \A o \in Messages \ {t} : msgs'[o] = msgs[o]
    BY OneMessage
<1>2. Keeps(t)
    BY <1>1 DEF Keeps
<1> QED
    BY <1>1, <1>2

\* The same message at another place.
LEMMA PlacedMessage ==
    ASSUME NEW t \in Messages, msgs[t] \in Message, NEW pc \in Places
    PROVE  LET m == [msgs[t] EXCEPT !.pc = pc]
           IN m \in Message /\ Move(t, pc) = [msgs EXCEPT ![t] = m]
<1>1. [msgs[t] EXCEPT !.pc = pc] \in Message
    BY DEF Message, MessageWith
<1> QED
    BY <1>1 DEF Move, Messages

\* The queue refers to the rows as they are after the step.
LEMMA QueueOf ==
    ASSUME Typed, IsTable(rows'), Grows(rows, rows')
    PROVE  IsQueue(msgs, chords, rows') /\ rows \in Seq(RowRecord) /\ rows' \in Seq(RowRecord)
<1>1. rows \in Seq(RowRecord) /\ rows' \in Seq(RowRecord) /\ IsQueue(msgs, chords, rows)
    BY DEF Typed, IsTable
<1> QED
    BY <1>1, QueueLater

\* The row of a message is marked.
LEMMA MarkStep ==
    ASSUME Typed, NEW t \in Messages, msgs[t].row \in Rows, NEW status \in Status,
           rows' = SetStatus(t, status)
    PROVE  /\ TableGoesOn /\ IsTable(rows') /\ Grows(rows, rows') /\ DOMAIN rows' = Rows
           /\ rows'[msgs[t].row].status = status
           /\ \A o \in Rows \ {msgs[t].row} : rows'[o] = rows[o]
<1>1. IsTable(rows) /\ msgs[t].row \in DOMAIN rows
    BY DEF Typed, Rows
<1>2. /\ IsTable(rows') /\ Grows(rows, rows') /\ DOMAIN rows' = DOMAIN rows
      /\ rows'[msgs[t].row].status = status
      /\ \A o \in DOMAIN rows \ {msgs[t].row} : rows'[o] = rows[o]
    BY <1>1, MarkedRow DEF SetStatus
<1>3. TableGoesOn
    BY <1>2 DEF TableGoesOn, Typed, Grows, Rows
<1> QED
    BY <1>2, <1>3 DEF Rows

LEMMA LostStep ==
    ASSUME Typed, NEW t \in Messages, WorkerLost(t)
    PROVE  Proper(t)
<1>1. /\ msgs[t] \in Message /\ msgs[t].kind = "extract" /\ MessageFits(msgs[t], rows)
      /\ msgs[t].row \in Rows
    BY Delivery DEF WorkerLost
<1>2. /\ TableGoesOn /\ IsTable(rows') /\ Grows(rows, rows') /\ DOMAIN rows' = Rows
      /\ rows'[msgs[t].row].status = "IN_PROGRESS"
      /\ \A o \in Rows \ {msgs[t].row} : rows'[o] = rows[o]
    BY <1>1, MarkStep DEF WorkerLost, Started, Status
<1>3. IsQueue(msgs, chords, rows') /\ rows \in Seq(RowRecord) /\ rows' \in Seq(RowRecord)
    BY <1>2, QueueOf
<1>4. QueueGoesOn(t)
    <2>1. CASE Raise(t)
        BY <1>3, <2>1, RaiseQueue DEF QueueGoesOn
    <2>2. CASE msgs' = [Move(t, "queued") EXCEPT ![t].todo = <<>>, ![t].value = 0] /\ UNCHANGED chords
        <3>1. PICK m : m = [[[msgs[t] EXCEPT !.pc = "queued"] EXCEPT !.todo = <<>>] EXCEPT !.value = 0]
            OBVIOUS
        <3>2. [msgs[t] EXCEPT !.pc = "queued"] \in Message
            BY <1>1 DEF Message, MessageWith, Places
        <3>3. [[msgs[t] EXCEPT !.pc = "queued"] EXCEPT !.todo = <<>>] \in Message
            BY <3>2, MessageTypes DEF Message, MessageWith
        <3>4. m \in Message
            BY <3>1, <3>3 DEF Message, MessageWith
        <3>5. /\ m.kind = "extract" /\ m.row = msgs[t].row /\ m.failed = msgs[t].failed /\ m.value = 0
              /\ m.retries = msgs[t].retries /\ m.chord = msgs[t].chord /\ m.pc = "queued"
            BY <1>1, <3>1 DEF Message, MessageWith
        <3>6. MessageFits(m, rows')
            <4>1. MessageFits(msgs[t], rows')
                BY <1>1, <1>2, <1>3, MessageLater
            <4>2. 0 \in 0..Len(rows')
                BY <1>3
            <4>3. Refers(m, rows')
                BY <3>5, <4>1, <4>2 DEF MessageFits, Refers
            <4> QED
                BY <3>5, <4>1, <4>3 DEF MessageFits
        <3>7. msgs' = [msgs EXCEPT ![t] = m]
            <4>1. msgs \in Seq(Message) /\ t \in DOMAIN msgs
                BY DEF Typed, IsQueue, Messages
            <4> QED
                BY <1>1, <2>2, <3>1, <4>1 DEF Move
        <3> QED
            BY <1>3, <2>2, <3>4, <3>5, <3>6, <3>7, OneMessageKeeps DEF QueueGoesOn
    <2> QED
        BY <2>1, <2>2 DEF WorkerLost
<1>5. WorldGoesOn /\ spent'.losses > 0
    BY Spending, FanOutAssumption DEF WorkerLost, Spend, Faults, Typed
<1>6. HasRead'
    BY <1>2, <1>3, ReadStays DEF WorkerLost, Typed
<1>7. Answered(t)
    <2>1. PICK r : r = msgs[t].row
        OBVIOUS
    <2>2. Attended(r)'
        BY <1>2, <1>5, <2>1 DEF Attended
    <2> QED
        BY <1>2, <2>1, <2>2, OneRow
<1> QED
    BY <1>2, <1>4, <1>5, <1>6, <1>7 DEF Proper

\* What the handler has made is published; whoever is in charge still is.
LEMMA SameRowsAnswered ==
    ASSUME Typed, UNCHANGED rows, NEW t \in Messages,
           msgs[t].kind = "extract" =>
                \E i \in DOMAIN msgs' : /\ msgs'[i].kind = "extract" /\ msgs'[i].row = msgs[t].row
                                        /\ msgs'[i].pc = "queued" <=> msgs[t].pc = "queued"
    PROVE  Answered(t)
<1>1. ASSUME NEW o \in Rows, InCharge(t, o)
      PROVE  Attended(o)'
    <2>1. PICK i \in DOMAIN msgs' : /\ msgs'[i].kind = "extract" /\ msgs'[i].row = msgs[t].row
                                    /\ msgs'[i].pc = "queued" <=> msgs[t].pc = "queued"
        BY <1>1 DEF InCharge
    <2>2. InCharge(i, o)'
        BY <1>1, <2>1 DEF InCharge
    <2> QED
        BY <2>1, <2>2 DEF Attended, Messages
<1> QED
    BY <1>1 DEF Answered, Rows

LEMMA DispatchStep ==
    ASSUME Typed, NEW t \in Messages, Dispatch(t)
    PROVE  Proper(t)
<1>1. /\ msgs[t] \in Message /\ msgs[t].kind = "extract" /\ MessageFits(msgs[t], rows)
      /\ msgs[t].pc = "made" /\ IsQueue(msgs, chords, rows) /\ rows \in Seq(RowRecord)
    BY Delivery DEF Dispatch, At
<1>2. PICK m : m = [msgs[t] EXCEPT !.pc = "sent"]
    OBVIOUS
<1>3. m \in Message /\ Move(t, "sent") = [msgs EXCEPT ![t] = m]
    BY <1>1, <1>2, PlacedMessage DEF Places
<1>4. /\ m.kind = "extract" /\ m.row = msgs[t].row /\ m.failed = msgs[t].failed /\ m.value = msgs[t].value
      /\ m.todo = msgs[t].todo /\ m.retries = msgs[t].retries /\ m.chord = msgs[t].chord /\ m.pc = "sent"
    BY <1>1, <1>2 DEF Message, MessageWith
<1>5. MessageFits(m, rows)
    BY <1>1, <1>4 DEF MessageFits, Refers
<1> DEFINE moved == Move(t, "sent")
<1>6. /\ IsQueue(moved, chords, rows) /\ moved \in Seq(Message) /\ DOMAIN moved = Messages
      /\ moved[t] = m /\ \A o \in Messages \ {t} : moved[o] = msgs[o]
    BY <1>1, <1>3, <1>4, <1>5, OneMessage
<1>7. msgs[t].todo \in Groups /\ GroupsFit(msgs[t].todo, rows)
    BY <1>1 DEF MessageFits
<1> HIDE DEF moved
<1>8. /\ msgs' = Published(moved, chords, msgs[t].todo).msgs
      /\ chords' = Published(moved, chords, msgs[t].todo).chords
    BY DEF Dispatch, Publish, moved
<1>9. IsQueue(msgs', chords', rows) /\ Continues(moved, msgs')
    BY <1>1, <1>6, <1>7, <1>8, PublishedQueue, FanOutAssumption
<1>10. TableGoesOn /\ rows \in Seq(RowRecord) /\ rows' \in Seq(RowRecord) /\ Grows(rows, rows')
    BY RowsStay DEF Dispatch
<1>11. Keeps(t)
    BY <1>6, <1>9, MovedKeeps
<1>12. Answered(t)
    <2>1. t \in DOMAIN msgs' /\ msgs'[t] = m
        BY <1>6, <1>9 DEF Continues
    <2> QED
        BY <1>1, <1>4, <2>1, SameRowsAnswered DEF Dispatch
<1>13. WorldGoesOn /\ HasRead'
    BY <1>10, WorldStays, ReadStays DEF Dispatch, Typed
<1> QED
    BY <1>9, <1>10, <1>11, <1>12, <1>13 DEF Proper, QueueGoesOn, Dispatch

\* The row ends, and is attended.
LEMMA EndedAnswered ==
    ASSUME NEW t \in Messages, NEW status \in {"SUCCESS", "PENDING", "FAILED"}, DOMAIN rows' = Rows,
           rows'[msgs[t].row].status = status,
           \A o \in Rows \ {msgs[t].row} : rows'[o] = rows[o]
    PROVE  Answered(t)
<1>1. PICK r : r = msgs[t].row
    OBVIOUS
<1>2. Attended(r)'
    BY <1>1 DEF Attended
<1> QED
    BY <1>1, <1>2, OneRow

LEMMA FinishStep ==
    ASSUME Typed, NEW t \in Messages, Finish(t)
    PROVE  Proper(t)
<1>1. /\ msgs[t] \in Message /\ MessageFits(msgs[t], rows) /\ msgs[t].row \in Rows
    BY Delivery DEF Finish, At
<1>2. /\ TableGoesOn /\ IsTable(rows') /\ Grows(rows, rows') /\ DOMAIN rows' = Rows
      /\ rows'[msgs[t].row].status = "SUCCESS"
      /\ \A o \in Rows \ {msgs[t].row} : rows'[o] = rows[o]
    BY <1>1, MarkStep DEF Finish, Status
<1>3. IsQueue(msgs, chords, rows') /\ rows \in Seq(RowRecord) /\ rows' \in Seq(RowRecord)
    BY <1>2, QueueOf
<1>4. msgs[t].value \in 0..Len(rows')
    <2>1. Len(rows) <= Len(rows') /\ Len(rows) \in Nat /\ Len(rows') \in Nat
        BY <1>2, <1>3 DEF Grows
    <2>2. msgs[t].value \in 0..Len(rows)
        BY <1>1 DEF MessageFits, Refers
    <2> QED
        BY <2>1, <2>2
<1>5. QueueGoesOn(t)
    BY <1>3, <1>4, ReturnQueue, FanOutAssumption DEF QueueGoesOn, Finish
<1>6. WorldGoesOn /\ HasRead'
    BY <1>2, <1>3, WorldStays, ReadStays DEF Finish, Typed
<1>7. Answered(t)
    BY <1>2, EndedAnswered
<1> QED
    BY <1>2, <1>5, <1>6, <1>7 DEF Proper

LEMMA FailedStep ==
    ASSUME Typed, NEW t \in Messages, Received(t),
           NEW what \in Faults, Spend(what), rows' = SetStatus(t, "FAILED"), Raise(t) \/ Return(t, 0),
           UNCHANGED <<world, ended, fed>>
    PROVE  Proper(t)
<1>1. msgs[t].row \in Rows
    BY Delivery
<1>2. /\ TableGoesOn /\ IsTable(rows') /\ Grows(rows, rows') /\ DOMAIN rows' = Rows
      /\ rows'[msgs[t].row].status = "FAILED"
      /\ \A o \in Rows \ {msgs[t].row} : rows'[o] = rows[o]
    BY <1>1, MarkStep DEF Status
<1>3. IsQueue(msgs, chords, rows') /\ rows \in Seq(RowRecord) /\ rows' \in Seq(RowRecord)
    BY <1>2, QueueOf
<1>4. QueueGoesOn(t)
    <2>1. 0 \in 0..Len(rows')
        BY <1>3
    <2> QED
        BY <1>3, <2>1, RaiseQueue, ReturnQueue, FanOutAssumption DEF QueueGoesOn
<1>5. WorldGoesOn
    BY Spending, FanOutAssumption DEF Spend, Typed
<1>6. HasRead'
    BY <1>2, <1>3, ReadStays DEF Typed
<1>7. Answered(t)
    BY <1>2, EndedAnswered
<1> QED
    BY <1>2, <1>4, <1>5, <1>6, <1>7 DEF Proper

LEMMA OtherErrorStep ==
    ASSUME Typed, NEW t \in Messages, OtherError(t)
    PROVE  Proper(t)
BY FailedStep DEF OtherError, Faults

\* The row fails, in the table of rows that the handler has made so far.
LEMMA FailedTable ==
    ASSUME Typed, NEW t \in Messages, Received(t), NEW table, IsTable(table), Grows(rows, table),
           \A r \in DOMAIN table : table[r].type \in TypesOf(source),
           \A o \in Rows \ {msgs[t].row} : table[o].status = rows[o].status,
           \A o \in DOMAIN table \ Rows : Handled(table[o]),
           rows' = Mark(table, t, "FAILED"), Raise(t) \/ Return(t, 0)
    PROVE  TableGoesOn /\ QueueGoesOn(t) /\ Answered(t) /\ Grows(rows, rows')
<1>1. PICK r : r = msgs[t].row
    OBVIOUS
<1>2. r \in Rows /\ rows \in Seq(RowRecord) /\ table \in Seq(RowRecord)
    BY <1>1, Delivery DEF IsTable
<1>3. r \in DOMAIN table /\ Rows \subseteq DOMAIN table /\ "FAILED" \in Status
    BY <1>2 DEF Rows, Grows, Status
<1>4. /\ IsTable(rows') /\ Grows(table, rows') /\ DOMAIN rows' = DOMAIN table
      /\ rows'[r].status = "FAILED" /\ \A o \in DOMAIN table \ {r} : rows'[o] = table[o]
    BY <1>1, <1>3, MarkedRow
<1>5. rows' \in Seq(RowRecord)
    BY <1>4 DEF IsTable
<1>6. Grows(rows, rows')
    BY <1>2, <1>4, <1>5, GrowsOn
<1>7. TableGoesOn
    <2>1. \A o \in DOMAIN rows' : rows'[o].type = table[o].type
        BY <1>4 DEF Grows
    <2> QED
        BY <1>4, <1>6, <2>1 DEF TableGoesOn
<1>8. IsQueue(msgs, chords, rows')
    BY <1>4, <1>6, QueueOf
<1>9. QueueGoesOn(t)
    <2>1. 0 \in 0..Len(rows')
        BY <1>5
    <2> QED
        BY <1>5, <1>8, <2>1, RaiseQueue, ReturnQueue, FanOutAssumption DEF QueueGoesOn
<1>10. Attended(r)'
    BY <1>4 DEF Attended
<1>11. /\ \A o \in Rows \ {r} : rows'[o].status = rows[o].status
       /\ \A o \in DOMAIN rows' \ Rows : Handled(rows'[o])
    BY <1>1, <1>2, <1>3, <1>4
<1>12. Answered(t)
    BY <1>1, <1>10, <1>11, OneRow
<1> QED
    BY <1>6, <1>7, <1>9, <1>12

\* A retry, for such a table.
LEMMA RetryStep ==
    ASSUME Typed, NEW t \in Messages, Received(t), NEW limit, NEW table, IsTable(table), Grows(rows, table),
           \A r \in DOMAIN table : table[r].type \in TypesOf(source),
           \A o \in Rows \ {msgs[t].row} : table[o].status = rows[o].status,
           \A o \in DOMAIN table \ Rows : Handled(table[o]),
           RetryOr(t, limit, table)
    PROVE  TableGoesOn /\ QueueGoesOn(t) /\ Answered(t) /\ Grows(rows, rows')
<1> DEFINE r == msgs[t].row
<1>1. /\ msgs[t] \in Message /\ msgs[t].kind = "extract" /\ MessageFits(msgs[t], rows) /\ r \in Rows
      /\ rows \in Seq(RowRecord) /\ table \in Seq(RowRecord) /\ msgs \in Seq(Message) /\ t \in DOMAIN msgs
    BY Delivery DEF IsTable
<1>2. r \in DOMAIN table /\ Rows \subseteq DOMAIN table
    BY <1>1 DEF Rows, Grows
<1>3. ASSUME NEW status \in Status, IsTable(rows'), Grows(table, rows'), DOMAIN rows' = DOMAIN table,
             rows'[r].status = status, \A o \in DOMAIN table \ {r} : rows'[o] = table[o]
      PROVE  /\ TableGoesOn /\ Grows(rows, rows')
             /\ IsQueue(msgs, chords, rows') /\ rows' \in Seq(RowRecord)
             /\ \A o \in Rows \ {r} : rows'[o].status = rows[o].status
             /\ \A o \in DOMAIN rows' \ Rows : Handled(rows'[o])
    <2>1. rows' \in Seq(RowRecord)
        BY <1>3 DEF IsTable
    <2>2. Grows(rows, rows')
        BY <1>1, <1>3, <2>1, GrowsOn
    <2>3. \A o \in DOMAIN rows' : rows'[o].type = table[o].type
        BY <1>3 DEF Grows
    <2>4. TableGoesOn
        BY <1>3, <2>2, <2>3 DEF TableGoesOn
    <2>5. IsQueue(msgs, chords, rows')
        BY <1>3, <2>2, QueueOf
    <2> QED
        BY <1>1, <1>2, <1>3, <2>1, <2>2, <2>4, <2>5
<1>4. CASE rows' = Mark(table, t, "FAILED") /\ Return(t, 0)
    BY <1>4, FailedTable
<1>5. CASE /\ rows' = [table EXCEPT ![r].status = "ON_RETRY", ![r].attempts = @ + 1]
           /\ \/ RetryAllowed(t) /\ msgs' = RetryMessage(t) /\ UNCHANGED chords
              \/ ~RetryAllowed(t) /\ Raise(t)
    <2>1. table[r] \in RowRecord
        BY <1>1, <1>2
    <2>n. PICK one : one = [table[r] EXCEPT !.status = "ON_RETRY"]
        OBVIOUS
    <2>2. PICK row : row = [one EXCEPT !.attempts = one.attempts + 1]
        OBVIOUS
    <2>3. one \in RowRecord
        BY <2>n, <2>1 DEF RowRecord, Status
    <2>4. row \in RowRecord
        BY <2>2, <2>3 DEF RowRecord
    <2>5. /\ row.type = table[r].type /\ row.item = table[r].item /\ row.parent = table[r].parent
          /\ row.status = "ON_RETRY" /\ row.attempts = table[r].attempts + 1
          /\ table[r].attempts \in Nat
        BY <2>n, <2>1, <2>2 DEF RowRecord
    <2>6. rows' = [table EXCEPT ![r] = row]
        BY <1>1, <1>2, <1>5, <2>n, <2>2
    <2>7. row.attempts >= table[r].attempts
        BY <2>5
    <2>8. /\ IsTable(rows') /\ Grows(table, rows') /\ DOMAIN rows' = DOMAIN table
          /\ rows'[r] = row /\ \A o \in DOMAIN table \ {r} : rows'[o] = table[o]
        <3> HIDE DEF r
        <3> QED
            BY <1>2, <2>4, <2>5, <2>6, <2>7, RowChanged
    <2>9. /\ TableGoesOn /\ Grows(rows, rows')
          /\ IsQueue(msgs, chords, rows') /\ rows' \in Seq(RowRecord)
          /\ \A o \in Rows \ {r} : rows'[o].status = rows[o].status
          /\ \A o \in DOMAIN rows' \ Rows : Handled(rows'[o])
        BY <1>3, <2>5, <2>8 DEF Status
    <2>10. /\ msgs[t].retries \in Nat /\ msgs[t].retries <= rows[r].attempts
           /\ rows[r].attempts <= table[r].attempts /\ rows[r].attempts \in Nat
        <3>1. rows[r] \in RowRecord
            BY <1>1 DEF Rows
        <3>2. rows[r].attempts \in Nat
            BY <3>1 DEF RowRecord
        <3>3. r # 0
            BY <1>1 DEF Rows
        <3>4. table[r].attempts >= rows[r].attempts
            BY <1>1 DEF Grows, Rows
        <3>5. msgs[t].retries \in Nat
            BY <1>1 DEF Message, MessageWith
        <3>6. msgs[t].retries <= rows[r].attempts
            BY <1>1, <3>3 DEF MessageFits
        <3> QED
            BY <2>5, <3>2, <3>4, <3>5, <3>6
    <2>11. PICK s : s = r
        OBVIOUS
    <2>12. CASE RetryAllowed(t) /\ msgs' = RetryMessage(t) /\ UNCHANGED chords
        <3>n. PICK back : back = [msgs[t] EXCEPT !.pc = "queued"]
            OBVIOUS
        <3>1. PICK m : m = [back EXCEPT !.retries = back.retries + 1]
            OBVIOUS
        <3>2. back \in Message
            BY <3>n, <1>1 DEF Message, MessageWith, Places
        <3>3. m \in Message
            BY <3>1, <3>2 DEF Message, MessageWith
        <3>4. /\ m.kind = "extract" /\ m.row = r /\ m.failed = msgs[t].failed /\ m.value = msgs[t].value
              /\ m.retries = msgs[t].retries + 1 /\ m.chord = msgs[t].chord /\ m.pc = "queued"
            BY <3>n, <1>1, <3>1 DEF Message, MessageWith
        <3>5. MessageFits(m, rows')
            <4>1. MessageFits(msgs[t], rows')
                BY <1>1, <2>9, MessageLater
            <4>2. Refers(m, rows')
                BY <3>4, <4>1 DEF MessageFits, Refers
            <4>3. m.retries <= CeleryRetries
                BY <2>10, <2>12, <3>4, FanOutAssumption DEF RetryAllowed
            <4>4. m.retries <= rows'[m.row].attempts
                BY <2>5, <2>8, <2>10, <3>4
            <4> QED
                BY <3>4, <4>2, <4>3, <4>4 DEF MessageFits
        <3>6. msgs' = [msgs EXCEPT ![t] = m]
            BY <1>1, <2>12, <3>n, <3>1 DEF RetryMessage, Move
        <3>7. IsQueue(msgs', chords', rows') /\ Keeps(t) /\ t \in DOMAIN msgs' /\ msgs'[t] = m
            BY <2>9, <2>12, <3>3, <3>4, <3>5, <3>6, OneMessageKeeps
        <3>8. InCharge(t, s)'
            BY <2>5, <2>8, <2>11, <3>4, <3>7 DEF InCharge
        <3>9. Attended(s)'
            BY <3>7, <3>8 DEF Attended, Messages
        <3> QED
            BY <2>9, <2>11, <3>7, <3>9, OneRow DEF QueueGoesOn
    <2>13. CASE ~RetryAllowed(t) /\ Raise(t)
        <3>1. rows'[r].attempts > CeleryRetries
            BY <2>5, <2>8, <2>10, <2>13, FanOutAssumption DEF RetryAllowed
        <3>2. Attended(s)'
            BY <2>5, <2>8, <2>11, <3>1 DEF Attended
        <3>3. QueueGoesOn(t)
            BY <2>9, <2>13, RaiseQueue DEF QueueGoesOn
        <3> QED
            BY <2>9, <2>11, <3>2, <3>3, OneRow
    <2> QED
        BY <1>5, <2>12, <2>13
<1> QED
    BY <1>4, <1>5 DEF RetryOr

LEMMA FetchFailsStep ==
    ASSUME Typed, NEW t \in Messages, NEW limit, FetchFails(t, limit)
    PROVE  Proper(t)
<1>1. IsTable(rows) /\ rows \in Seq(RowRecord) /\ Grows(rows, rows)
    BY GrowsItself DEF Typed, IsTable
<1>2. TableGoesOn /\ QueueGoesOn(t) /\ Answered(t) /\ Grows(rows, rows')
    BY <1>1, RetryStep DEF FetchFails, Typed, Rows
<1>3. rows' \in Seq(RowRecord)
    BY <1>2 DEF TableGoesOn, IsTable
<1>4. WorldGoesOn
    BY Spending, FanOutAssumption DEF FetchFails, Error, Spend, Typed, Faults
<1>5. HasRead'
    BY <1>1, <1>2, <1>3, ReadStays DEF FetchFails, Typed
<1> QED
    BY <1>2, <1>4, <1>5 DEF Proper

\* The handler has stored its row, and made others.
LEMMA MadeStep ==
    ASSUME Typed, NEW t \in Messages, Received(t),
           NEW row \in RowRecord, NEW new \in Seq(RowRecord), NEW groups \in Groups, NEW value,
           LET r == msgs[t].row
           IN /\ row.type = rows[r].type /\ row.item = rows[r].item /\ row.parent = rows[r].parent
              /\ row.attempts = rows[r].attempts,
           \A i \in DOMAIN new :
                /\ RowFits(new[i], rows) /\ new[i].type \in TypesOf(source) \ {"EXPOSURE_LIST"}
                /\ Handled(new[i]),
           \A table \in Seq(RowRecord) :
                (IsTable(table) /\ Grows(rows, table) /\ Len(table) = Len(rows) + Len(new)
                    /\ \A i \in DOMAIN new : table[Len(rows) + i] = new[i])
                => value \in 0..Len(table) /\ GroupsFit(groups, table),
           Made(t, row, new, groups, value), WorldGoesOn
    PROVE  Proper(t)
<1>1. PICK r : r = msgs[t].row
    OBVIOUS
<1>2. /\ msgs[t] \in Message /\ msgs[t].kind = "extract" /\ MessageFits(msgs[t], rows) /\ r \in Rows
      /\ rows \in Seq(RowRecord) /\ msgs \in Seq(Message) /\ t \in DOMAIN msgs /\ r \in DOMAIN rows
      /\ IsTable(rows) /\ rows[r] \in RowRecord
    BY <1>1, Delivery DEF Rows
<1>3. PICK begun : begun = Started(t)[r]
    OBVIOUS
<1>4. begun \in RowRecord /\ begun.status = "IN_PROGRESS"
    <2>1. "IN_PROGRESS" \in Status /\ msgs[t].row \in DOMAIN rows
        BY <1>1, <1>2 DEF Status
    <2> QED
        BY <1>1, <1>2, <1>3, <2>1, MarkedRow DEF Started, SetStatus
<1>5. PICK one : one = [row EXCEPT !.status = begun.status]
    OBVIOUS
<1>6. PICK two : two = [one EXCEPT !.runs = begun.runs]
    OBVIOUS
<1>7. one \in RowRecord
    BY <1>4, <1>5 DEF RowRecord
<1>8. two \in RowRecord
    BY <1>4, <1>6, <1>7 DEF RowRecord
<1>9. /\ two.type = rows[r].type /\ two.item = rows[r].item /\ two.parent = rows[r].parent
      /\ two.attempts = rows[r].attempts /\ two.status = "IN_PROGRESS" /\ rows[r].attempts \in Nat
    BY <1>1, <1>2, <1>4, <1>5, <1>6 DEF RowRecord
<1>10. PICK table : table = [rows EXCEPT ![r] = two]
    OBVIOUS
<1>11. two.attempts >= rows[r].attempts
    BY <1>9
<1>12. /\ IsTable(table) /\ Grows(rows, table) /\ DOMAIN table = DOMAIN rows
       /\ table[r] = two /\ \A o \in DOMAIN rows \ {r} : table[o] = rows[o]
       /\ table \in Seq(RowRecord) /\ Len(table) = Len(rows)
    <2>1. /\ IsTable(table) /\ Grows(rows, table) /\ DOMAIN table = DOMAIN rows
          /\ table[r] = two /\ \A o \in DOMAIN rows \ {r} : table[o] = rows[o]
        BY <1>2, <1>8, <1>9, <1>10, <1>11, RowChanged
    <2>2. table \in Seq(RowRecord)
        BY <2>1 DEF IsTable
    <2> QED
        BY <1>2, <2>1, <2>2
<1>13. rows' = table \o new
    BY <1>1, <1>3, <1>5, <1>6, <1>10 DEF Made
<1>14. \A i \in DOMAIN new : RowFits(new[i], table) /\ new[i].type # "EXPOSURE_LIST"
    <2>1. ASSUME NEW i \in DOMAIN new PROVE RowFits(new[i], table)
        <3>1. RowFits(new[i], rows) /\ new[i].parent \in 0..Len(rows) /\ Len(rows) \in Nat
            BY <1>2 DEF RowFits
        <3>2. new[i].parent # 0 => new[i].parent \in DOMAIN rows
            BY <1>2, <3>1
        <3>3. new[i].parent # 0 => table[new[i].parent].type = rows[new[i].parent].type
            BY <1>12, <3>2 DEF Grows
        <3> QED
            BY <1>12, <3>1, <3>3 DEF RowFits
    <2> QED
        BY <2>1
<1>15. /\ IsTable(rows') /\ Grows(table, rows') /\ Len(rows') = Len(table) + Len(new)
       /\ \A o \in DOMAIN table : rows'[o] = table[o]
       /\ \A o \in DOMAIN rows' \ DOMAIN table : \E i \in DOMAIN new : rows'[o] = new[i]
       /\ \A i \in DOMAIN new : rows'[Len(rows) + i] = new[i]
    <2>1. \A i \in DOMAIN new :
                /\ RowFits(new[i], table)
                /\ new[i].type = "EXPOSURE_LIST" =>
                        Existing(table \o new, new[i].parent, "POLYGON", new[i].item) # {}
        BY <1>14
    <2>2. IsTable(table) /\ new \in Seq(RowRecord)
        BY <1>12
    <2>3. /\ IsTable(table \o new) /\ Grows(table, table \o new) /\ Len(table \o new) = Len(table) + Len(new)
          /\ \A o \in DOMAIN table : (table \o new)[o] = table[o]
          /\ \A o \in DOMAIN (table \o new) \ DOMAIN table : \E i \in DOMAIN new : (table \o new)[o] = new[i]
          /\ \A i \in DOMAIN new : (table \o new)[Len(table) + i] = new[i]
        BY ONLY <2>1, <2>2, TableMore
    <2> QED
        BY <1>12, <1>13, <2>3
<1>16. rows' \in Seq(RowRecord) /\ Grows(rows, rows')
    <2>1. rows' \in Seq(RowRecord)
        BY <1>15 DEF IsTable
    <2> QED
        BY <1>2, <1>12, <1>15, <2>1, GrowsOn
<1>17. TableGoesOn
    <2>1. ASSUME NEW o \in DOMAIN rows' PROVE rows'[o].type \in TypesOf(source)
        <3>1. CASE o \in DOMAIN table
            BY <1>12, <1>15, <3>1 DEF Typed, Grows, Rows
        <3>2. CASE o \notin DOMAIN table
            BY <1>15, <3>2
        <3> QED
            BY <3>1, <3>2
    <2> QED
        BY <1>15, <1>16, <2>1 DEF TableGoesOn
<1>18. value \in 0..Len(rows') /\ GroupsFit(groups, rows')
    BY <1>12, <1>15, <1>16
<1>19. IsQueue(msgs, chords, rows')
    BY <1>15, <1>16, QueueOf
<1>20. PICK place : place = IF groups = <<>> THEN "sent" ELSE "made"
    OBVIOUS
<1>21. PICK m1 : m1 = [msgs[t] EXCEPT !.pc = place]
    OBVIOUS
<1>22. PICK m2 : m2 = [m1 EXCEPT !.todo = groups]
    OBVIOUS
<1>23. PICK m : m = [m2 EXCEPT !.value = value]
    OBVIOUS
<1>24. m1 \in Message
    BY <1>2, <1>20, <1>21 DEF Message, MessageWith, Places
<1>25. m2 \in Message
    BY <1>22, <1>24 DEF Message, MessageWith
<1>26. value \in Nat
    BY <1>16, <1>18
<1>27. m \in Message
    BY <1>23, <1>25, <1>26 DEF Message, MessageWith
<1>28. /\ m.kind = "extract" /\ m.row = r /\ m.failed = msgs[t].failed /\ m.value = value
       /\ m.retries = msgs[t].retries /\ m.chord = msgs[t].chord /\ m.pc = place /\ m.todo = groups
    BY <1>1, <1>2, <1>21, <1>22, <1>23 DEF Message, MessageWith
<1>29. MessageFits(m, rows')
    <2>1. MessageFits(msgs[t], rows')
        BY <1>2, <1>16, MessageLater
    <2>2. Refers(m, rows')
        BY <1>1, <1>18, <1>28, <2>1 DEF MessageFits, Refers
    <2>3. m.row # 0
        BY <1>2, <1>28
    <2> QED
        BY <1>1, <1>18, <1>20, <1>28, <2>1, <2>2, <2>3 DEF MessageFits
<1>30. msgs' = [msgs EXCEPT ![t] = m]
    BY <1>2, <1>20, <1>21, <1>22, <1>23 DEF Made
<1>31. IsQueue(msgs', chords', rows') /\ Keeps(t) /\ t \in DOMAIN msgs' /\ msgs'[t] = m
    <2>1. UNCHANGED chords
        BY DEF Made
    <2> QED
        BY <1>19, <1>27, <1>28, <1>29, <1>30, <2>1, OneMessageKeeps
<1>32. rows'[r].status = "IN_PROGRESS"
    BY <1>2, <1>9, <1>12, <1>15
<1>33. InCharge(t, r)'
    BY <1>20, <1>28, <1>31, <1>32 DEF InCharge
<1>34. Attended(r)'
    BY <1>31, <1>33 DEF Attended, Messages
<1>35. Answered(t)
    BY <1>1, <1>12, <1>15, <1>34, OneRow DEF Rows
<1>36. HasRead'
    BY <1>2, <1>16, ReadStays DEF Made, Typed
<1> QED
    BY <1>17, <1>31, <1>35, <1>36 DEF Proper, QueueGoesOn

\* The handler has stored its row, and no more.
LEMMA StoredStep ==
    ASSUME Typed, NEW t \in Messages, Received(t), NEW row \in RowRecord,
           LET r == msgs[t].row
           IN /\ row.type = rows[r].type /\ row.item = rows[r].item /\ row.parent = rows[r].parent
              /\ row.attempts = rows[r].attempts,
           Made(t, row, <<>>, <<>>, 0), WorldGoesOn
    PROVE  Proper(t)
<1>1. <<>> \in Seq(RowRecord) /\ <<>> \in Groups /\ DOMAIN <<>> = {}
    BY MessageTypes
<1>2. \A table \in Seq(RowRecord) : 0 \in 0..Len(table) /\ GroupsFit(<<>>, table)
    BY DEF GroupsFit
<1> QED
    BY <1>1, <1>2, MadeStep

LEMMA NoDataStep ==
    ASSUME Typed, NEW t \in Messages, NoData(t)
    PROVE  Proper(t)
<1>1. RowOf(t) \in RowRecord
    BY Delivery DEF NoData, RowOf
<1>2. WorldGoesOn
    BY Spending, FanOutAssumption DEF NoData, Made, Spend, Faults, Typed
<1> QED
    BY <1>1, <1>2, StoredStep DEF NoData, RowOf

\* What a handler stores.
LEMMA StoredRow ==
    ASSUME Typed, NEW t \in Messages, Received(t) \/ msgs[t].pc # "queued"
    PROVE  LET r == msgs[t].row
               row == Stored(t)
           IN /\ row \in RowRecord
              /\ row.type = rows[r].type /\ row.item = rows[r].item /\ row.parent = rows[r].parent
              /\ row.attempts = rows[r].attempts
<1>1. PICK r : r = msgs[t].row
    OBVIOUS
<1>2. rows[r] \in RowRecord
    BY <1>1, Delivery
<1>3. rows[r].item \in Items
    BY <1>2 DEF RowRecord
<1>4. PICK now : now = world[rows[r].item].content
    OBVIOUS
<1>5. now \in Content
    <2>1. now \in 1..(MaxFaults + 1)
        BY <1>3, <1>4, WorldOf, FanOutAssumption DEF Typed
    <2> QED
        BY <2>1, FanOutAssumption DEF Content
<1>6. PICK valid : /\ valid \in {"NONE", "NO_CHANGE", "NO_DATA"}
                   /\ Stored(t) = [rows[r] EXCEPT !.content = now, !.valid = valid]
    <2>1. rows[r].valid \in {"NONE", "NO_CHANGE", "NO_DATA"}
        BY <1>2 DEF RowRecord
    <2> DEFINE twins == {o \in Rows \ {r} : /\ rows[o].type = rows[r].type /\ rows[o].item = rows[r].item
                                            /\ rows[o].content = now}
    <2>2. Stored(t) = [rows[r] EXCEPT !.content = now, !.valid = IF twins = {} THEN @ ELSE "NO_CHANGE"]
        BY <1>1, <1>4 DEF Stored, RowOf
    <2> HIDE DEF twins
    <2>3. CASE twins = {}
        <3>1. Stored(t) = [rows[r] EXCEPT !.content = now, !.valid = rows[r].valid]
            BY <1>2, <2>2, <2>3 DEF RowRecord
        <3> QED
            BY <2>1, <3>1
    <2>4. CASE twins # {}
        <3>1. Stored(t) = [rows[r] EXCEPT !.content = now, !.valid = "NO_CHANGE"]
            BY <1>2, <2>2, <2>4 DEF RowRecord
        <3> QED
            BY <3>1
    <2> QED
        BY <2>3, <2>4
<1>7. PICK one : one = [rows[r] EXCEPT !.content = now]
    OBVIOUS
<1>8. PICK two : two = [one EXCEPT !.valid = valid]
    OBVIOUS
<1>9. one \in RowRecord
    BY <1>2, <1>5, <1>7 DEF RowRecord
<1>10. two \in RowRecord
    BY <1>6, <1>8, <1>9 DEF RowRecord
<1>11. /\ two.type = rows[r].type /\ two.item = rows[r].item /\ two.parent = rows[r].parent
       /\ two.attempts = rows[r].attempts
    BY <1>2, <1>7, <1>8 DEF RowRecord
<1>12. Stored(t) = two
    BY <1>2, <1>6, <1>7, <1>8 DEF RowRecord
<1> QED
    BY <1>1, <1>10, <1>11, <1>12

LEMMA StartWithoutRowStep ==
    ASSUME Typed, NEW t \in Messages, StartWithoutRow(t)
    PROVE  Proper(t)
<1>1. TableGoesOn /\ rows \in Seq(RowRecord) /\ rows' \in Seq(RowRecord) /\ Grows(rows, rows')
    BY RowsStay DEF StartWithoutRow
<1>2. IsQueue(msgs', chords', rows') /\ Keeps(t)
    <2>1. IsQueue(msgs, chords, rows')
        BY <1>1, QueueOf DEF TableGoesOn
    <2> QED
        BY <1>1, <2>1, RaiseQueue DEF StartWithoutRow
<1>3. Answered(t)
    BY NothingInCharge DEF StartWithoutRow
<1>4. WorldGoesOn /\ HasRead'
    BY <1>1, WorldStays, ReadStays DEF StartWithoutRow, Typed
<1> QED
    BY <1>1, <1>2, <1>3, <1>4 DEF Proper, QueueGoesOn

\* A message that is no extraction is acknowledged.
LEMMA AckQueue ==
    ASSUME NEW table, IsQueue(msgs, chords, table), NEW t \in Messages
    PROVE  /\ IsQueue(Acked(t), chords, table) /\ Acked(t) \in Seq(Message)
           /\ \A o \in Messages \ {t} : \E i \in DOMAIN Acked(t) : Acked(t)[i] = msgs[o]
<1>1. msgs \in Seq(Message) /\ chords \in Seq(Chord)
    BY DEF IsQueue
<1>2. \A c \in DOMAIN chords : GroupsFit(chords[c].body, table)
    BY DEF IsQueue
<1> QED
    BY <1>1, <1>2, QueueAcked, AckedMessages

LEMMA MessageOf ==
    ASSUME Typed, NEW t \in Messages
    PROVE  /\ msgs[t] \in Message /\ MessageFits(msgs[t], rows) /\ Refers(msgs[t], rows)
           /\ IsQueue(msgs, chords, rows) /\ rows \in Seq(RowRecord)
           /\ msgs[t].row # 0 => msgs[t].row \in Rows
<1>1. IsQueue(msgs, chords, rows) /\ rows \in Seq(RowRecord) /\ t \in DOMAIN msgs
    BY DEF Typed, IsTable, Messages
<1>2. msgs[t] \in Message /\ MessageFits(msgs[t], rows)
    BY <1>1 DEF IsQueue
<1>3. msgs[t].row \in 0..Len(rows) /\ Rows = 1..Len(rows) /\ Len(rows) \in Nat
    BY <1>1, <1>2 DEF MessageFits, Refers, Rows
<1>4. msgs[t].row # 0 => msgs[t].row \in Rows
    BY <1>3
<1> QED
    BY <1>1, <1>2, <1>4 DEF MessageFits

\* What a transform may read: rows that hold something.
Readable == {c \in Rows : rows[c].content # 0}

LEMMA OwnReadable ==
    ASSUME NEW r \in Rows, NEW read, read \subseteq Readable
    PROVE  WithOwn(r, read) \subseteq Readable
BY DEF WithOwn, Readable

LEMMA TransformStep ==
    ASSUME Typed, NEW t \in Messages, At(t, "transform", "queued"), UNCHANGED <<rows, chords, world, spent>>,
           ended' = ended \cup {msgs[t].row}, msgs' = Acked(t),
           \/ UNCHANGED fed
           \/ \E read \in SUBSET Readable : fed' = fed \cup {<<c, rows[c].content>> : c \in read}
    PROVE  Proper(t)
<1>1. msgs[t] \in Message /\ Refers(msgs[t], rows) /\ IsQueue(msgs, chords, rows)
      /\ (msgs[t].row # 0 => msgs[t].row \in Rows)
    BY MessageOf
<1>2. msgs[t].kind = "transform" /\ msgs[t].row \in Rows /\ rows[msgs[t].row].type \notin NotRead
    BY <1>1 DEF At, Refers
<1>3. TableGoesOn /\ rows \in Seq(RowRecord) /\ rows' \in Seq(RowRecord) /\ Grows(rows, rows')
    BY RowsStay
<1>4. IsQueue(msgs', chords', rows') /\ Keeps(t)
    BY <1>1, AckQueue DEF Keeps
<1>5. Answered(t)
    BY <1>2, NothingInCharge
<1>6. WorldGoesOn
    BY WorldStays DEF Typed
<1>7. fed' \subseteq Rows \X (1..(MaxFaults + 1))
    <2>1. CASE UNCHANGED fed
        BY <2>1 DEF Typed, HasRead
    <2>2. ASSUME NEW read \in SUBSET Readable, fed' = fed \cup {<<c, rows[c].content>> : c \in read}
          PROVE  fed' \subseteq Rows \X (1..(MaxFaults + 1))
        <3>1. ASSUME NEW c \in read PROVE c \in Rows /\ rows[c].content \in 1..(MaxFaults + 1)
            <4>1. c \in Rows /\ rows[c].content # 0
                BY DEF Readable
            <4>2. rows[c] \in RowRecord
                BY <1>3, <4>1 DEF Rows
            <4>3. rows[c].content \in 0..(MaxFaults + 1)
                BY <4>2 DEF RowRecord, Content
            <4> QED
                BY <4>1, <4>3, FanOutAssumption
        <3>2. fed \subseteq Rows \X (1..(MaxFaults + 1))
            BY DEF Typed, HasRead
        <3>3. \A f \in fed' : f \in Rows \X (1..(MaxFaults + 1))
            BY <2>2, <3>1, <3>2
        <3> QED
            BY <3>3
    <2> QED
        BY <2>1, <2>2
<1>8. HasRead'
    BY <1>2, <1>7 DEF Typed, HasRead, Rows
<1> QED
    BY <1>3, <1>4, <1>5, <1>6, <1>8 DEF Proper, QueueGoesOn

LEMMA RunTransformStep ==
    ASSUME Typed, NEW t \in Messages, NEW read \in SUBSET Readable, RunTransform(t, read)
    PROVE  Proper(t)
BY TransformStep DEF RunTransform

-----------------------------------------------------------------------------
(* Steps that are about no message.                                          *)

LEMMA TypedLater ==
    ASSUME Typed, TableGoesOn, IsQueue(msgs', chords', rows'), WorldGoesOn, HasRead', UNCHANGED source
    PROVE  Typed'
<1>1. rows \in Seq(RowRecord) /\ rows' \in Seq(RowRecord)
    BY DEF Typed, TableGoesOn, IsTable
<1>2. rows' # <<>>
    <2>1. rows # <<>> /\ Len(rows) <= Len(rows')
        BY DEF Typed, TableGoesOn, Grows
    <2> QED
        BY <1>1, <2>1
<1>3. source' \in Chosen /\ (\A r \in DOMAIN rows' : rows'[r].type \in TypesOf(source'))
    BY DEF Typed, TableGoesOn
<1>4. IsTable(rows') /\ IsWorld'
    BY DEF TableGoesOn, WorldGoesOn
<1> QED
    BY <1>2, <1>3, <1>4 DEF Typed, Rows

LEMMA ChangeKeeps ==
    ASSUME Typed, AllAttended, NEW i \in Items, Change(i), UNCHANGED source
    PROVE  Typed' /\ AllAttended'
<1>1. TableGoesOn /\ rows \in Seq(RowRecord) /\ rows' \in Seq(RowRecord) /\ Grows(rows, rows')
    BY RowsStay DEF Change
<1>2. IsQueue(msgs', chords', rows')
    BY DEF Change, Typed
<1>3. WorldGoesOn
    BY Spending, FanOutAssumption DEF Change, Spend, Faults, Typed
<1>4. HasRead'
    BY <1>1, ReadStays DEF Change, Typed
<1>5. spent.losses \in Nat /\ spent'.losses \in Nat /\ spent'.losses >= spent.losses
    BY <1>3 DEF WorldGoesOn, IsWorld, Typed, Faults
<1>6. spent.losses > 0 => spent'.losses > 0
    BY <1>5
<1>7. AllAttended'
    BY <1>6 DEF AllAttended, Attended, InCharge, Change, Rows, Messages
<1> QED
    BY <1>1, <1>2, <1>3, <1>4, <1>7, TypedLater

\* When no message is left, nobody is in charge of anything.
LEMMA QuietKeeps ==
    ASSUME Typed, AllAttended, Quiet, TableGoesOn, IsQueue(msgs', chords', rows'), WorldGoesOn, HasRead',
           UNCHANGED source,
           \A o \in DOMAIN rows' : (o \in Rows /\ rows'[o].status = rows[o].status) \/ Handled(rows'[o])
    PROVE  Typed' /\ AllAttended'
<1>1. Typed'
    BY TypedLater
<1>2. ASSUME NEW o \in DOMAIN rows' PROVE Attended(o)'
    <2>1. CASE Handled(rows'[o])
        BY <2>1 DEF Handled, Attended
    <2>2. CASE o \in Rows /\ rows'[o].status = rows[o].status
        <3>1. Attended(o) /\ Messages = {}
            BY <2>2 DEF AllAttended, Quiet, Messages
        <3>2. rows \in Seq(RowRecord) /\ rows' \in Seq(RowRecord) /\ Grows(rows, rows')
            BY DEF Typed, TableGoesOn, IsTable
        <3>3. rows[o] \in RowRecord /\ rows'[o] \in RowRecord /\ rows'[o].type = rows[o].type
              /\ rows'[o].attempts >= rows[o].attempts
            BY <2>2, <3>2 DEF Grows, Rows
        <3>4. rows'[o].attempts \in Nat /\ rows[o].attempts \in Nat
            BY <3>3 DEF RowRecord
        <3>5. spent.losses \in Nat /\ spent'.losses \in Nat /\ spent'.losses >= spent.losses
            BY DEF WorldGoesOn, IsWorld, Typed, Faults
        <3>6. CASE rows[o].status \in {"SUCCESS", "PENDING", "FAILED"}
            BY <2>2, <3>6 DEF Attended
        <3>7. CASE rows[o].status = "IN_PROGRESS" /\ spent.losses > 0
            BY <2>2, <3>5, <3>7 DEF Attended
        <3>8. CASE rows[o].status = "ON_RETRY" /\ (rows[o].attempts > CeleryRetries \/ rows[o].type = "IMPACT")
            <4>1. rows'[o].attempts > CeleryRetries \/ rows'[o].type = "IMPACT"
                BY <3>3, <3>4, <3>8, FanOutAssumption
            <4> QED
                BY <2>2, <3>8, <4>1 DEF Attended
        <3> QED
            BY <3>1, <3>6, <3>7, <3>8 DEF Attended
    <2> QED
        BY <2>1, <2>2
<1>3. AllAttended'
    BY <1>2 DEF AllAttended, Rows
<1> QED
    BY <1>1, <1>3

LEMMA RetriggerKeeps ==
    ASSUME Typed, AllAttended, NEW status \in {"FAILED", "PENDING"}, NEW target,
           \A r \in Rows : target[r] \in Plain /\ Fresh(target[r], rows),
           Retrigger(status, target), UNCHANGED source
    PROVE  Typed' /\ AllAttended'
<1> DEFINE S == {r \in Rows : rows[r].status = status}
           chosen == InOrder(S)
<1>1. IsTable(rows) /\ rows \in Seq(RowRecord) /\ Len(rows) \in Nat /\ Rows = 1..Len(rows)
    BY DEF Typed, IsTable, Rows
<1>2. \A r \in Rows : rows[r] \in RowRecord
    BY <1>1
<1>3. rows' = [r \in Rows |-> [rows[r] EXCEPT !.status = IF @ = status THEN "PENDING" ELSE @]]
    BY DEF Retrigger
<1>4. ASSUME NEW r \in Rows
      PROVE  /\ rows'[r] \in RowRecord
             /\ rows'[r].type = rows[r].type /\ rows'[r].item = rows[r].item
             /\ rows'[r].parent = rows[r].parent /\ rows'[r].attempts = rows[r].attempts
             /\ rows[r].attempts \in Nat
             /\ rows'[r].status = rows[r].status \/ rows'[r].status = "PENDING"
    <2>1. PICK s : s = IF rows[r].status = status THEN "PENDING" ELSE rows[r].status
        OBVIOUS
    <2>2. s \in Status /\ (s = rows[r].status \/ s = "PENDING")
        BY <1>2, <2>1 DEF RowRecord, Status
    <2>3. rows'[r] = [rows[r] EXCEPT !.status = s]
        BY <1>2, <1>3, <2>1 DEF RowRecord
    <2> QED
        BY <1>2, <2>2, <2>3 DEF RowRecord
<1>5. rows' \in Seq(RowRecord) /\ Len(rows') = Len(rows) /\ DOMAIN rows' = Rows
    <2>1. rows' \in [1..Len(rows) -> RowRecord]
        BY <1>1, <1>3, <1>4
    <2> QED
        BY <1>1, <2>1
<1>6. Grows(rows, rows')
    <2>1. \A r \in Rows : rows'[r].attempts >= rows[r].attempts
        BY <1>4
    <2> QED
        BY <1>1, <1>4, <1>5, <2>1 DEF Grows
<1>7. IsTable(rows')
    BY <1>1, <1>5, <1>6, TableLater
<1>8. TableGoesOn
    BY <1>4, <1>5, <1>6, <1>7 DEF TableGoesOn, Typed
<1>9. IsQueue(msgs, chords, rows') /\ msgs = <<>>
    BY <1>6, <1>7, QueueOf DEF Retrigger, Quiet
<1>10. /\ chosen \in Seq(S) /\ Cardinality(S) \in Nat
       /\ DOMAIN chosen = 1..Cardinality(S)
    BY <1>1, InOrderLists
<1>11. \A i \in DOMAIN chosen : chosen[i] \in S
    BY <1>10
<1>12. msgs' = [i \in DOMAIN chosen |-> target[chosen[i]]]
    BY DEF Retrigger
<1> HIDE DEF chosen
<1>13. /\ DOMAIN msgs' = 1..Cardinality(S)
       /\ \A i \in 1..Cardinality(S) : chosen[i] \in Rows /\ msgs'[i] = target[chosen[i]]
    BY <1>10, <1>11, <1>12
<1>14. ASSUME NEW i \in 1..Cardinality(S)
       PROVE  msgs'[i] \in Message /\ MessageFits(msgs'[i], rows') /\ msgs'[i].chord = 0
    <2>1. msgs'[i] \in Message /\ Fresh(msgs'[i], rows)
        BY <1>13, MessageTypes
    <2>2. Fresh(msgs'[i], rows')
        BY <1>1, <1>5, <1>6, <2>1, FreshLater
    <2>3. msgs'[i].row # 0 => rows'[msgs'[i].row].attempts \in Nat
        <3>1. msgs'[i].row \in 0..Len(rows)
            BY <2>1 DEF Fresh, Refers
        <3>2. msgs'[i].row # 0 => msgs'[i].row \in Rows
            BY <1>1, <3>1
        <3> QED
            BY <1>4, <3>2
    <2> QED
        BY <2>1, <2>2, <2>3, FreshFits, FanOutAssumption
<1>15. msgs' \in Seq(Message)
    <2>1. msgs' \in [1..Cardinality(S) -> Message]
        <3> HIDE DEF S
        <3>1. msgs' = [i \in 1..Cardinality(S) |-> target[chosen[i]]]
            BY <1>10, <1>12
        <3> QED
            BY <1>13, <1>14, <3>1
    <2> HIDE DEF S
    <2> QED
        BY <1>10, <2>1
<1>16. IsQueue(msgs', chords', rows')
    <2>1. IsQueue(msgs \o msgs', chords, rows')
        BY <1>9, <1>13, <1>14, <1>15, QueueMore
    <2>2. msgs \o msgs' = msgs'
        BY <1>9, <1>15
    <2> QED
        BY <2>1, <2>2 DEF Retrigger
<1>17. WorldGoesOn
    <2>1. PICK how \in {"retriggers", "sweeps"} : spent' = [spent EXCEPT ![how] = @ + 1]
        BY DEF Retrigger, Retriggered
    <2>2. /\ spent'.errors = spent.errors /\ spent'.unknown = spent.unknown /\ spent'.empty = spent.empty
          /\ spent'.timeouts = spent.timeouts /\ spent'.losses = spent.losses
          /\ spent'.changes = spent.changes /\ spent.losses \in Nat
          /\ spent' \in [Faults \cup {"retriggers", "sweeps"} -> Nat]
        BY <2>1 DEF Typed, IsWorld, Faults
    <2>3. UNCHANGED world
        BY DEF Retrigger
    <2> QED
        BY <2>2, <2>3 DEF Typed, WorldGoesOn, IsWorld, Used
<1>18. HasRead'
    BY <1>1, <1>5, <1>6, ReadStays DEF Retrigger, Typed
<1>19. \A o \in DOMAIN rows' : (o \in Rows /\ rows'[o].status = rows[o].status) \/ Handled(rows'[o])
    BY <1>4, <1>5 DEF Handled
<1> QED
    BY <1>8, <1>16, <1>17, <1>18, <1>19, QuietKeeps DEF Retrigger

-----------------------------------------------------------------------------
(* New rows, and the messages that run them.                                 *)

LEMMA RowNew ==
    ASSUME NEW type \in RowTypes, NEW item \in Items, NEW parent \in Nat
    PROVE  /\ Row(type, item, parent) \in RowRecord
           /\ Row(type, item, parent).type = type /\ Row(type, item, parent).item = item
           /\ Row(type, item, parent).parent = parent /\ Row(type, item, parent).status = "PENDING"
           /\ Handled(Row(type, item, parent))
<1>1. 0 \in Content
    BY FanOutAssumption DEF Content
<1> QED
    BY <1>1 DEF Row, RowRecord, Status, Handled

LEMMA NewGroupFits ==
    ASSUME rows \in Seq(RowRecord), NEW n \in Nat, NEW table, Len(table) \in Nat, Len(rows) + n <= Len(table)
    PROVE  /\ NewGroup(n) \in Seq(Plain)
           /\ \A j \in DOMAIN NewGroup(n) : Fresh(NewGroup(n)[j], table)
<1>1. Len(rows) \in Nat
    OBVIOUS
<1>2. ASSUME NEW i \in 1..n
      PROVE  Extract(Len(rows) + i, 0) \in Plain /\ Fresh(Extract(Len(rows) + i, 0), table)
    <2>1. Len(rows) + i \in 0..Len(table) /\ 0 \in 0..Len(table)
        BY <1>1
    <2> QED
        BY <2>1, ExtractFresh
<1>3. NewGroup(n) \in [1..n -> Plain]
    BY <1>2 DEF NewGroup
<1>4. NewGroup(n) \in Seq(Plain) /\ DOMAIN NewGroup(n) = 1..n
    BY <1>3
<1> QED
    BY <1>2, <1>4 DEF NewGroup

LEMMA OneTransform ==
    ASSUME NEW table, Len(table) \in Nat, NEW r \in 1..Len(table), table[r].type \notin NotRead
    PROVE  /\ <<Transform(r)>> \in Seq(Plain) /\ Len(<<Transform(r)>>) = 1
           /\ \A j \in DOMAIN <<Transform(r)>> : Fresh(<<Transform(r)>>[j], table)
<1>1. Transform(r) \in Plain /\ Fresh(Transform(r), table)
    BY TransformFresh
<1>2. DOMAIN <<Transform(r)>> = {1} /\ <<Transform(r)>>[1] = Transform(r)
    OBVIOUS
<1> QED
    BY <1>1, <1>2

LEMMA OneGroup ==
    ASSUME NEW g \in Seq(Plain)
    PROVE  /\ <<g>> \in Groups
           /\ \A table : (\A j \in DOMAIN g : Fresh(g[j], table)) => GroupsFit(<<g>>, table)
<1>1. DOMAIN <<g>> = {1} /\ <<g>>[1] = g /\ <<g>> \in Seq(Seq(Plain))
    OBVIOUS
<1> QED
    BY <1>1 DEF GroupsFit, Groups

LEMMA TwoGroups ==
    ASSUME NEW g \in Seq(Plain), NEW h \in Seq(Plain)
    PROVE  /\ <<g, h>> \in Groups
           /\ \A table : (\A j \in DOMAIN g : Fresh(g[j], table)) /\ (\A j \in DOMAIN h : Fresh(h[j], table))
                            => GroupsFit(<<g, h>>, table)
<1>1. DOMAIN <<g, h>> = {1, 2} /\ <<g, h>>[1] = g /\ <<g, h>>[2] = h /\ <<g, h>> \in Seq(Seq(Plain))
    OBVIOUS
<1> QED
    BY <1>1 DEF GroupsFit, Groups

\* Messages that no chord waits for.
LEMMA FreshMessages ==
    ASSUME NEW table \in Seq(RowRecord), NEW g \in Seq(Plain), \A j \in DOMAIN g : Fresh(g[j], table)
    PROVE  g \in Seq(Message) /\ \A j \in DOMAIN g : MessageFits(g[j], table) /\ g[j].chord = 0
<1>1. g \in Seq(Message) /\ \A j \in DOMAIN g : g[j] \in Message
    BY MessageTypes
<1>2. ASSUME NEW m \in Message, Fresh(m, table), m.row # 0
      PROVE  table[m.row].attempts \in Nat
    <2>1. m.row \in DOMAIN table
        BY <1>2 DEF Fresh, Refers
    <2>2. table[m.row] \in RowRecord
        BY <2>1
    <2> QED
        BY <2>2 DEF RowRecord
<1> QED
    BY <1>1, <1>2, FreshFits, FanOutAssumption

LEMMA ItselfFits ==
    ASSUME rows \in Seq(RowRecord)
    PROVE  \A r \in Rows : Itself[r] \in Plain /\ Fresh(Itself[r], rows)
<1>1. ASSUME NEW r \in Rows PROVE Itself[r] \in Plain /\ Fresh(Itself[r], rows)
    <2>1. r \in 0..Len(rows) /\ 0 \in 0..Len(rows) /\ Len(rows) \in Nat
        BY DEF Rows
    <2> QED
        BY <2>1, ExtractFresh DEF Itself
<1> QED
    BY <1>1

\* The schedule starts again.
LEMMA StartsAgain ==
    ASSUME Typed, AllAttended, Quiet, UNCHANGED <<source, chords, world, ended, fed, spent>>,
           NEW type \in TypesOf(source), NEW item \in Items, type \in RowTypes,
           type \notin DOMAIN ParentType, ItemFits(Row(type, item, 0)),
           rows' = Append(rows, Row(type, item, 0)), msgs' = NewGroup(1)
    PROVE  Typed' /\ AllAttended'
<1> DEFINE new == <<Row(type, item, 0)>>
<1>1. IsTable(rows) /\ rows \in Seq(RowRecord) /\ Len(rows) \in Nat
    BY DEF Typed, IsTable
<1>2. Row(type, item, 0) \in RowRecord /\ Row(type, item, 0).type = type /\ Row(type, item, 0).parent = 0
        /\ Handled(Row(type, item, 0))
    BY RowNew
<1>3. new \in Seq(RowRecord) /\ DOMAIN new = {1} /\ Len(new) = 1 /\ new[1] = Row(type, item, 0)
    BY <1>2
<1>4. rows' = rows \o new
    BY <1>1, <1>2
<1> HIDE DEF new
<1>5. \A i \in DOMAIN new : RowFits(new[i], rows) /\ new[i].type # "EXPOSURE_LIST"
    <2>1. 0 \in 0..Len(rows) /\ "EXPOSURE_LIST" \in DOMAIN ParentType
        BY <1>1 DEF ParentType
    <2> QED
        BY <1>2, <1>3, <2>1 DEF RowFits
<1>6. /\ IsTable(rows') /\ Grows(rows, rows') /\ Len(rows') = Len(rows) + Len(new)
      /\ \A r \in DOMAIN rows : rows'[r] = rows[r]
      /\ \A r \in DOMAIN rows' \ DOMAIN rows : \E i \in DOMAIN new : rows'[r] = new[i]
    <2>1. \A i \in DOMAIN new :
                /\ RowFits(new[i], rows)
                /\ new[i].type = "EXPOSURE_LIST" =>
                        Existing(rows \o new, new[i].parent, "POLYGON", new[i].item) # {}
        BY <1>5
    <2>2. /\ IsTable(rows \o new) /\ Grows(rows, rows \o new) /\ Len(rows \o new) = Len(rows) + Len(new)
          /\ \A o \in DOMAIN rows : (rows \o new)[o] = rows[o]
          /\ \A o \in DOMAIN (rows \o new) \ DOMAIN rows : \E i \in DOMAIN new : (rows \o new)[o] = new[i]
        BY <1>1, <1>3, <2>1, TableMore
    <2> QED
        BY <1>4, <2>2
<1>7. TableGoesOn
    BY <1>2, <1>3, <1>6 DEF TableGoesOn, Typed, Rows
<1>8. rows' \in Seq(RowRecord) /\ IsQueue(msgs, chords, rows') /\ msgs = <<>>
    BY <1>6, QueueOf DEF Quiet
<1>9. IsQueue(msgs', chords', rows')
    <2>1. Len(rows) + 1 <= Len(rows') /\ Len(rows') \in Nat
        BY <1>1, <1>3, <1>6
    <2>2. NewGroup(1) \in Seq(Plain) /\ \A j \in DOMAIN NewGroup(1) : Fresh(NewGroup(1)[j], rows')
        BY <1>1, <2>1, NewGroupFits
    <2>3. NewGroup(1) \in Seq(Message) /\ \A j \in DOMAIN NewGroup(1) : MessageFits(NewGroup(1)[j], rows') /\ NewGroup(1)[j].chord = 0
        BY <1>8, <2>2, FreshMessages
    <2>4. IsQueue(msgs \o NewGroup(1), chords, rows')
        BY <1>8, <2>3, QueueMore
    <2>5. msgs \o NewGroup(1) = NewGroup(1)
        BY <1>8, <2>3
    <2> QED
        BY <2>4, <2>5
<1>10. WorldGoesOn /\ HasRead'
    BY <1>1, <1>6, <1>8, WorldStays, ReadStays DEF Typed
<1>11. \A o \in DOMAIN rows' : (o \in Rows /\ rows'[o].status = rows[o].status) \/ Handled(rows'[o])
    BY <1>2, <1>3, <1>6 DEF Rows
<1> QED
    BY <1>7, <1>9, <1>10, <1>11, QuietKeeps

\* The handler publishes at once, after its rows.
LEMMA SentStep ==
    ASSUME Typed, NEW t \in Messages, Received(t) \/ msgs[t].pc # "queued",
           NEW table, IsTable(table), Grows(rows, table), DOMAIN table = Rows,
           \A o \in Rows \ {msgs[t].row} : table[o] = rows[o],
           \/ table[msgs[t].row].status = "IN_PROGRESS"
           \/ table[msgs[t].row].status = rows[msgs[t].row].status /\ msgs[t].pc # "queued",
           NEW new \in Seq(RowRecord),
           \A i \in DOMAIN new :
                /\ RowFits(new[i], rows) /\ new[i].type \in TypesOf(source) \ {"EXPOSURE_LIST"}
                /\ Handled(new[i]),
           rows' = table \o new,
           NEW more \in Seq(Plain),
           \A later \in Seq(RowRecord) :
                (Grows(rows, later) /\ Len(later) = Len(rows) + Len(new))
                    => \A j \in DOMAIN more : Fresh(more[j], later),
           msgs' = Move(t, "sent") \o more,
           UNCHANGED <<chords, ended, fed>>, WorldGoesOn
    PROVE  Proper(t)
<1>1. PICK r : r = msgs[t].row
    OBVIOUS
<1>2. /\ msgs[t] \in Message /\ msgs[t].kind = "extract" /\ MessageFits(msgs[t], rows) /\ r \in Rows
      /\ rows \in Seq(RowRecord) /\ r \in DOMAIN rows /\ IsTable(rows)
    BY <1>1, Delivery DEF Rows
<1>3. table \in Seq(RowRecord) /\ DOMAIN table = DOMAIN rows /\ Len(table) = Len(rows)
    <2>1. table \in Seq(RowRecord)
        BY DEF IsTable
    <2> QED
        BY <1>2, <2>1 DEF Rows
<1>4. \A i \in DOMAIN new : RowFits(new[i], table) /\ new[i].type # "EXPOSURE_LIST"
    <2>1. ASSUME NEW i \in DOMAIN new PROVE RowFits(new[i], table)
        <3>1. RowFits(new[i], rows) /\ new[i].parent \in 0..Len(rows) /\ Len(rows) \in Nat
            BY <1>2 DEF RowFits
        <3>2. new[i].parent # 0 => new[i].parent \in DOMAIN rows
            BY <1>2, <3>1
        <3>3. new[i].parent # 0 => table[new[i].parent].type = rows[new[i].parent].type
            BY <3>2 DEF Grows
        <3> QED
            BY <1>3, <3>1, <3>3 DEF RowFits
    <2> QED
        BY <2>1
<1>5. /\ IsTable(rows') /\ Grows(table, rows') /\ Len(rows') = Len(table) + Len(new)
      /\ \A o \in DOMAIN table : rows'[o] = table[o]
      /\ \A o \in DOMAIN rows' \ DOMAIN table : \E i \in DOMAIN new : rows'[o] = new[i]
    <2>1. \A i \in DOMAIN new :
                /\ RowFits(new[i], table)
                /\ new[i].type = "EXPOSURE_LIST" =>
                        Existing(table \o new, new[i].parent, "POLYGON", new[i].item) # {}
        BY <1>4
    <2>2. /\ IsTable(table \o new) /\ Grows(table, table \o new) /\ Len(table \o new) = Len(table) + Len(new)
          /\ \A o \in DOMAIN table : (table \o new)[o] = table[o]
          /\ \A o \in DOMAIN (table \o new) \ DOMAIN table : \E i \in DOMAIN new : (table \o new)[o] = new[i]
        BY <2>1, TableMore
    <2> QED
        BY <2>2
<1>6. rows' \in Seq(RowRecord) /\ Grows(rows, rows')
    <2>1. rows' \in Seq(RowRecord)
        BY <1>5 DEF IsTable
    <2> QED
        BY <1>2, <1>3, <1>5, <2>1, GrowsOn
<1>7. TableGoesOn
    <2>1. ASSUME NEW o \in DOMAIN rows' PROVE rows'[o].type \in TypesOf(source)
        <3>1. CASE o \in DOMAIN table
            BY <1>3, <1>5, <3>1 DEF Typed, Grows, Rows
        <3>2. CASE o \notin DOMAIN table
            BY <1>5, <3>2
        <3> QED
            BY <3>1, <3>2
    <2> QED
        BY <1>5, <1>6, <2>1 DEF TableGoesOn
<1>8. PICK m : m = [msgs[t] EXCEPT !.pc = "sent"]
    OBVIOUS
<1>9. m \in Message /\ Move(t, "sent") = [msgs EXCEPT ![t] = m]
    BY <1>2, <1>8, PlacedMessage DEF Places
<1>10. /\ m.kind = "extract" /\ m.row = r /\ m.failed = msgs[t].failed /\ m.value = msgs[t].value
       /\ m.retries = msgs[t].retries /\ m.chord = msgs[t].chord /\ m.pc = "sent"
    BY <1>1, <1>2, <1>8 DEF Message, MessageWith
<1>11. IsQueue(msgs, chords, rows')
    BY <1>5, <1>6, QueueOf
<1>12. MessageFits(m, rows')
    <2>1. MessageFits(msgs[t], rows')
        BY <1>2, <1>6, MessageLater
    <2>2. r # 0
        BY <1>2
    <2> QED
        BY <1>1, <1>10, <2>1, <2>2 DEF MessageFits, Refers
<1> DEFINE moved == Move(t, "sent")
<1>13. /\ IsQueue(moved, chords, rows') /\ moved \in Seq(Message) /\ DOMAIN moved = Messages
       /\ moved[t] = m /\ \A o \in Messages \ {t} : moved[o] = msgs[o]
    <2>1. m.chord = msgs[t].chord
        BY <1>10
    <2>2. LET later == [msgs EXCEPT ![t] = m]
          IN /\ IsQueue(later, chords, rows') /\ later \in Seq(Message) /\ DOMAIN later = Messages
             /\ later[t] = m /\ \A o \in Messages \ {t} : later[o] = msgs[o]
        BY <1>9, <1>11, <1>12, <2>1, OneMessage
    <2> QED
        BY <1>9, <2>2
<1> HIDE DEF moved
<1>14. more \in Seq(Message) /\ \A j \in DOMAIN more : MessageFits(more[j], rows') /\ more[j].chord = 0
    <2>1. \A j \in DOMAIN more : Fresh(more[j], rows')
        BY <1>3, <1>5, <1>6
    <2> QED
        BY <1>6, <2>1, FreshMessages
<1>15. msgs' = moved \o more
    BY DEF moved
<1>16. IsQueue(msgs', chords', rows')
    BY <1>13, <1>14, <1>15, QueueMore
<1>17. Continues(moved, msgs')
    BY <1>13, <1>14, <1>15, MoreContinues
<1>18. Keeps(t)
    BY <1>13, <1>17, MovedKeeps
<1>19. t \in DOMAIN msgs' /\ msgs'[t] = m
    BY <1>13, <1>17 DEF Continues
<1>20. \A o \in Rows : rows'[o] = table[o]
    BY <1>5
<1>21. Answered(t)
    <2>1. ASSUME NEW o \in DOMAIN rows', o \notin Rows PROVE Attended(o)'
        <3>1. Handled(rows'[o])
            BY <1>3, <1>5, <2>1 DEF Rows
        <3> QED
            BY <3>1 DEF Handled, Attended
    <2>2. ASSUME NEW o \in Rows, o # r PROVE rows'[o].status = rows[o].status /\ ~InCharge(t, o)
        BY <1>1, <1>20, <2>2 DEF InCharge
    <2>3. rows'[r].status # "ON_RETRY" => Attended(r)'
        <3>1. rows'[r].status # "ON_RETRY" => InCharge(t, r)'
            BY <1>10, <1>19 DEF InCharge
        <3> QED
            BY <1>19, <3>1 DEF Attended, Messages
    <2>4. rows'[r].status = "ON_RETRY" => rows'[r].status = rows[r].status /\ ~InCharge(t, r)
        BY <1>1, <1>2, <1>20 DEF InCharge
    <2> QED
        BY <1>2, <2>1, <2>2, <2>3, <2>4 DEF Answered
<1>22. HasRead'
    BY <1>2, <1>6, ReadStays DEF Typed
<1> QED
    BY <1>7, <1>16, <1>18, <1>21, <1>22 DEF Proper, QueueGoesOn

-----------------------------------------------------------------------------
(* The start.                                                                *)

LEMMA FirstRow ==
    ASSUME source \in Chosen, NEW type \in TypesOf(source), NEW item \in Items, type \in RowTypes,
           type \notin DOMAIN ParentType, ItemFits(Row(type, item, 0)), InitRows(<<Row(type, item, 0)>>)
    PROVE  Typed /\ AllAttended
<1>1. /\ Row(type, item, 0) \in RowRecord /\ Row(type, item, 0).type = type /\ Row(type, item, 0).parent = 0
      /\ Row(type, item, 0).status = "PENDING"
    BY RowNew
<1>2. rows = <<Row(type, item, 0)>> /\ msgs = [i \in {1} |-> Extract(i, 0)]
    <2>1. DOMAIN <<Row(type, item, 0)>> = {1}
        OBVIOUS
    <2> QED
        BY <2>1 DEF InitRows
<1>3. /\ rows \in Seq(RowRecord) /\ Len(rows) = 1 /\ Rows = {1} /\ rows[1] = Row(type, item, 0)
      /\ rows # <<>> /\ DOMAIN rows = {1}
    BY <1>1, <1>2 DEF Rows
<1>4. IsTable(rows)
    <2>1. "EXPOSURE_LIST" \in DOMAIN ParentType
        BY DEF ParentType
    <2>2. rows[1].parent \in 0..(1 - 1)
        BY <1>1, <1>3
    <2>3. ParentFits(rows, 1)
        BY <1>1, <1>3, <2>1, <2>2 DEF ParentFits
    <2> QED
        BY <1>3, <2>3 DEF IsTable
<1>5. IsQueue(msgs, chords, rows)
    <2>1. 1 \in 0..Len(rows) /\ 0 \in 0..Len(rows) /\ Len(rows) \in Nat
        BY <1>3
    <2>2. Extract(1, 0) \in Plain /\ Fresh(Extract(1, 0), rows)
        BY <1>3, <2>1, ExtractFresh
    <2> DEFINE g == <<Extract(1, 0)>>
    <2>3. g \in Seq(Plain) /\ DOMAIN g = {1} /\ g[1] = Extract(1, 0)
        BY <2>2
    <2>4. msgs = g
        BY <1>2
    <2> HIDE DEF g
    <2>5. g \in Seq(Message) /\ \A j \in DOMAIN g : MessageFits(g[j], rows) /\ g[j].chord = 0
        BY <1>3, <2>2, <2>3, FreshMessages
    <2>6. chords = <<>> /\ <<>> \in Seq(Chord) /\ <<>> \in Seq(Message) /\ Len(<<>>) = 0 /\ DOMAIN <<>> = {}
        BY DEF InitRows
    <2>7. IsQueue(<<>>, chords, rows)
        BY <2>6 DEF IsQueue
    <2>8. IsQueue(<<>> \o g, chords, rows)
        BY <2>5, <2>7, QueueMore
    <2>9. <<>> \o g = g
        BY <2>5
    <2> QED
        BY <2>4, <2>8, <2>9
<1>6. IsWorld
    <2>1. spent = [f \in Faults \cup {"retriggers", "sweeps"} |-> 0]
        BY DEF InitRows
    <2>2. spent \in [Faults \cup {"retriggers", "sweeps"} -> Nat] /\ Used = 0 /\ spent.changes = 0
        BY <2>1 DEF Faults, Used
    <2>3. world = [i \in Items |-> [tag |-> 1, content |-> 1]]
        BY DEF InitRows
    <2> QED
        BY <2>2, <2>3, FanOutAssumption DEF IsWorld
<1>7. HasRead
    BY DEF HasRead, InitRows
<1>8. Typed
    BY <1>1, <1>3, <1>4, <1>5, <1>6, <1>7 DEF Typed
<1> QED
    BY <1>1, <1>3, <1>8 DEF AllAttended, Attended

-----------------------------------------------------------------------------
(* Disaster Charter.                                                         *)

Charter == source = "DISASTERCHARTER"

LEMMA CharterTypes ==
    ASSUME Charter
    PROVE  TypesOf(source) = {"CATALOG", "ACTIVATION", "AREA", "VAPS", "CALIBRATED_DATASET"}
BY DEF Charter, TypesOf, ChildTypes

\* Rows of types that nothing is known about.
LEMMA FreeRow ==
    ASSUME NEW type \in {"CATALOG", "AREA", "VAPS", "CALIBRATED_DATASET", "GDACS_QUERY", "USGS_QUERY", "CEMS_DETAIL"},
           NEW item \in Items, NEW parent \in Nat
    PROVE  ItemFits(Row(type, item, parent)) /\ type \notin DOMAIN ParentType /\ type \in RowTypes
<1>1. type \in RowTypes
    BY DEF RowTypes, ChildTypes
<1>2. Row(type, item, parent).type = type
    BY <1>1, RowNew
<1> QED
    BY <1>1, <1>2 DEF ItemFits, ParentType, PagedTypes, Singles

LEMMA CharterInitKeeps ==
    ASSUME source \in Chosen, Charter, CharterInit
    PROVE  Typed /\ AllAttended
<1>1. "catalog" \in Items /\ "CATALOG" \in TypesOf(source)
    BY CharterTypes, CharterAssumption
<1> QED
    BY <1>1, FirstRow, FreeRow DEF CharterInit

LEMMA NextDayKeeps ==
    ASSUME Typed, AllAttended, Charter, NextDay, UNCHANGED source
    PROVE  Typed' /\ AllAttended'
<1>1. "catalog" \in Items /\ "CATALOG" \in TypesOf(source)
    BY CharterTypes, CharterAssumption
<1>2. ItemFits(Row("CATALOG", "catalog", 0)) /\ "CATALOG" \notin DOMAIN ParentType /\ "CATALOG" \in RowTypes
    BY <1>1, FreeRow
<1> QED
    BY <1>1, <1>2, StartsAgain DEF NextDay

LEMMA WantedActivations ==
    /\ Wanted \in Seq(Items) /\ Len(Wanted) \in Nat
    /\ \A i \in 1..Len(Wanted) : Wanted[i] \in Listing(Wanted)
<1>1. Wanted \in Seq(Items)
    BY OnlyLists, CharterAssumption DEF Wanted
<1> QED
    BY <1>1 DEF Listing

LEMMA HandleCatalogStep ==
    ASSUME Typed, Charter, NEW t \in Messages, HandleCatalog(t)
    PROVE  Proper(t)
<1>1. Received(t)
    BY DEF HandleCatalog, Handles
<1>2. /\ msgs[t] \in Message /\ msgs[t].row \in Rows /\ rows \in Seq(RowRecord) /\ Len(rows) \in Nat
      /\ msgs[t].row \in DOMAIN rows /\ IsTable(rows)
    BY <1>1, Delivery DEF Rows
<1>3. PICK n \in 0..Len(Wanted) :
        /\ IF n < Len(Wanted) THEN Error ELSE UNCHANGED spent
        /\ rows' = Started(t) \o [i \in 1..n |-> Row("ACTIVATION", Wanted[i], 0)]
        /\ msgs' = Move(t, "sent") \o NewGroup(n)
    BY DEF HandleCatalog
<1> DEFINE new == [i \in 1..n |-> Row("ACTIVATION", Wanted[i], 0)]
           table == Started(t)
<1>4. n \in Nat /\ \A i \in 1..n : Wanted[i] \in Items /\ Wanted[i] \in Listing(Wanted)
    BY WantedActivations
<1>5. ASSUME NEW i \in 1..n
      PROVE  /\ Row("ACTIVATION", Wanted[i], 0) \in RowRecord /\ RowFits(Row("ACTIVATION", Wanted[i], 0), rows)
             /\ Row("ACTIVATION", Wanted[i], 0).type \in TypesOf(source) \ {"EXPOSURE_LIST"}
             /\ Handled(Row("ACTIVATION", Wanted[i], 0))
    <2>1. PICK row : row = Row("ACTIVATION", Wanted[i], 0)
        OBVIOUS
    <2>2. row \in RowRecord /\ row.type = "ACTIVATION" /\ row.item = Wanted[i] /\ row.parent = 0 /\ Handled(row)
        <3>1. "ACTIVATION" \in RowTypes /\ 0 \in Nat
            BY DEF RowTypes
        <3> QED
            BY <1>4, <2>1, <3>1, RowNew
    <2>3. ItemFits(row) /\ "ACTIVATION" \notin DOMAIN ParentType
        BY <1>4, <2>2 DEF ItemFits, ParentType, PagedTypes, Singles
    <2>4. 0 \in 0..Len(rows)
        BY <1>2
    <2> QED
        BY <2>1, <2>2, <2>3, <2>4, CharterTypes DEF RowFits
<1>6. new \in Seq(RowRecord) /\ Len(new) = n /\ DOMAIN new = 1..n
    <2>1. new \in [1..n -> RowRecord]
        BY <1>5
    <2> QED
        BY <1>4, <2>1
<1>7. /\ IsTable(table) /\ Grows(rows, table) /\ DOMAIN table = Rows
      /\ table[msgs[t].row].status = "IN_PROGRESS"
      /\ \A o \in Rows \ {msgs[t].row} : table[o] = rows[o]
    <2>1. "IN_PROGRESS" \in Status
        BY DEF Status
    <2> QED
        BY <1>2, <2>1, MarkedRow DEF Started, SetStatus, Rows
<1>8. ASSUME NEW later \in Seq(RowRecord), Grows(rows, later), Len(later) = Len(rows) + Len(new)
      PROVE  \A j \in DOMAIN NewGroup(n) : Fresh(NewGroup(n)[j], later)
    <2>1. Len(later) \in Nat /\ Len(rows) + n <= Len(later)
        BY <1>2, <1>4, <1>6, <1>8
    <2> QED
        BY <1>2, <1>4, <2>1, NewGroupFits
<1>9. NewGroup(n) \in Seq(Plain)
    <2>1. PICK later : later = rows \o new
        OBVIOUS
    <2>2. Len(later) \in Nat /\ Len(rows) + n <= Len(later)
        BY <1>2, <1>4, <1>6, <2>1
    <2> QED
        BY <1>2, <1>4, <2>2, NewGroupFits
<1>10. WorldGoesOn
    <2>1. UNCHANGED world
        BY DEF HandleCatalog
    <2> QED
        BY <1>3, <2>1, WorldStays, Spending, FanOutAssumption DEF Error, Spend, Faults, Typed
<1>11. UNCHANGED <<chords, ended, fed>>
    BY DEF HandleCatalog
<1>12. \A i \in DOMAIN new :
                /\ RowFits(new[i], rows) /\ new[i].type \in TypesOf(source) \ {"EXPOSURE_LIST"}
                /\ Handled(new[i])
    BY <1>5, <1>6
<1>13. rows' = table \o new /\ msgs' = Move(t, "sent") \o NewGroup(n)
    BY <1>3
<1> HIDE DEF new, table
<1> QED
    BY <1>1, <1>6, <1>7, <1>8, <1>9, <1>10, <1>11, <1>12, <1>13, SentStep

LEMMA FetchedRow ==
    ASSUME Typed, NEW t \in Messages, Received(t), NEW tag \in Content
    PROVE  LET r == msgs[t].row
               row == Fetched(t, tag)
           IN /\ row \in RowRecord
              /\ row.type = rows[r].type /\ row.item = rows[r].item /\ row.parent = rows[r].parent
              /\ row.attempts = rows[r].attempts
<1>1. PICK r : r = msgs[t].row
    OBVIOUS
<1>2. r \in Rows /\ rows[r] \in RowRecord /\ rows \in Seq(RowRecord) /\ Len(rows) \in Nat /\ Rows = 1..Len(rows)
    BY <1>1, Delivery DEF Rows
<1>3. PICK stored : stored = Stored(t)
    OBVIOUS
<1>4. /\ stored \in RowRecord
      /\ stored.type = rows[r].type /\ stored.item = rows[r].item /\ stored.parent = rows[r].parent
      /\ stored.attempts = rows[r].attempts
    BY <1>1, <1>3, StoredRow
<1>5. CASE tag # 0 /\ SameTag(r, tag) # {}
    <2>1. PICK o : o = Newest(SameTag(r, tag))
        OBVIOUS
    <2>2. o \in Rows
        <3>1. SameTag(r, tag) \subseteq 1..Len(rows)
            BY <1>2 DEF SameTag
        <3>2. o \in SameTag(r, tag)
            BY <1>2, <1>5, <2>1, <3>1, NewestOfSet
        <3> QED
            BY <1>2, <3>1, <3>2
    <2>3. rows[o] \in RowRecord
        BY <1>2, <2>2
    <2>4. PICK content : content = rows[o].content
        OBVIOUS
    <2>5. content \in Content
        BY <2>3, <2>4 DEF RowRecord
    <2>6. PICK one : one = [rows[r] EXCEPT !.content = content]
        OBVIOUS
    <2>7. PICK two : two = [one EXCEPT !.valid = "NO_CHANGE"]
        OBVIOUS
    <2>8. PICK new : new = [two EXCEPT !.tag = tag]
        OBVIOUS
    <2>9. one \in RowRecord
        BY <1>2, <2>5, <2>6 DEF RowRecord
    <2>10. two \in RowRecord
        BY <2>7, <2>9 DEF RowRecord
    <2>11. new \in RowRecord
        BY <2>8, <2>10 DEF RowRecord
    <2>12. /\ new.type = rows[r].type /\ new.item = rows[r].item /\ new.parent = rows[r].parent
           /\ new.attempts = rows[r].attempts
        BY <1>2, <2>6, <2>7, <2>8 DEF RowRecord
    <2>13. Fetched(t, tag) = [rows[r] EXCEPT !.content = content, !.valid = "NO_CHANGE", !.tag = tag]
        BY <1>1, <1>5, <2>1, <2>4 DEF Fetched, Reused, RowOf
    <2>14. Fetched(t, tag) = new
        BY <1>2, <2>6, <2>7, <2>8, <2>13 DEF RowRecord
    <2> QED
        BY <1>1, <2>11, <2>12, <2>14
<1>6. CASE ~(tag # 0 /\ SameTag(r, tag) # {})
    <2>1. Fetched(t, tag) = [stored EXCEPT !.tag = IF tag = 0 THEN @ ELSE tag]
        BY <1>1, <1>3, <1>6 DEF Fetched
    <2>2. PICK g : g = IF tag = 0 THEN stored.tag ELSE tag
        OBVIOUS
    <2>3. PICK new : new = [stored EXCEPT !.tag = g]
        OBVIOUS
    <2>4. g \in Content
        BY <1>4, <2>2 DEF RowRecord
    <2>5. /\ new \in RowRecord /\ new.type = stored.type /\ new.item = stored.item
          /\ new.parent = stored.parent /\ new.attempts = stored.attempts
        BY <1>4, <2>3, <2>4 DEF RowRecord
    <2>6. Fetched(t, tag) = new
        BY <1>4, <2>1, <2>2, <2>3 DEF RowRecord
    <2> QED
        BY <1>1, <1>4, <2>5, <2>6
<1> QED
    BY <1>5, <1>6

\* Rows whose fields are given by specifications.
LEMMA RowsFromSpecs ==
    ASSUME NEW specs, Len(specs) \in Nat, DOMAIN specs = 1..Len(specs),
           \A i \in DOMAIN specs :
                specs[i].type \in RowTypes /\ specs[i].item \in Items /\ specs[i].parent \in Nat
    PROVE  /\ NewRows(specs) \in Seq(RowRecord) /\ Len(NewRows(specs)) = Len(specs)
           /\ DOMAIN NewRows(specs) = DOMAIN specs
           /\ \A i \in DOMAIN specs :
                /\ NewRows(specs)[i] \in RowRecord
                /\ NewRows(specs)[i].type = specs[i].type /\ NewRows(specs)[i].item = specs[i].item
                /\ NewRows(specs)[i].parent = specs[i].parent /\ Handled(NewRows(specs)[i])
<1>1. ASSUME NEW i \in DOMAIN specs
      PROVE  /\ NewRows(specs)[i] \in RowRecord
             /\ NewRows(specs)[i].type = specs[i].type /\ NewRows(specs)[i].item = specs[i].item
             /\ NewRows(specs)[i].parent = specs[i].parent /\ Handled(NewRows(specs)[i])
    <2>1. NewRows(specs)[i] = Row(specs[i].type, specs[i].item, specs[i].parent)
        BY DEF NewRows
    <2> QED
        BY <2>1, RowNew
<1>2. NewRows(specs) \in [1..Len(specs) -> RowRecord]
    <2>1. NewRows(specs) = [i \in 1..Len(specs) |-> NewRows(specs)[i]]
        BY DEF NewRows
    <2> QED
        BY <1>1, <2>1
<1>3. NewRows(specs) \in Seq(RowRecord) /\ Len(NewRows(specs)) = Len(specs)
    BY <1>2
<1> QED
    BY <1>1, <1>2, <1>3

\* The transform of a row waits for a group of messages.
LEMMA ChordStep ==
    ASSUME Typed, NEW t \in Messages, Received(t), rows[msgs[t].row].type \notin NotRead,
           NEW row \in RowRecord, NEW new \in Seq(RowRecord), NEW g \in Seq(Plain),
           LET r == msgs[t].row
           IN /\ row.type = rows[r].type /\ row.item = rows[r].item /\ row.parent = rows[r].parent
              /\ row.attempts = rows[r].attempts,
           \A i \in DOMAIN new :
                /\ RowFits(new[i], rows) /\ new[i].type \in TypesOf(source) \ {"EXPOSURE_LIST"}
                /\ Handled(new[i]),
           \A table \in Seq(RowRecord) :
                (Grows(rows, table) /\ Len(table) = Len(rows) + Len(new)) => \A j \in DOMAIN g : Fresh(g[j], table),
           Made(t, row, new, <<g, <<Transform(msgs[t].row)>>>>, 0), WorldGoesOn
    PROVE  Proper(t)
<1>1. PICK r : r = msgs[t].row
    OBVIOUS
<1>2. r \in Rows /\ rows \in Seq(RowRecord) /\ Len(rows) \in Nat /\ Len(new) \in Nat /\ Rows = 1..Len(rows)
    BY <1>1, Delivery DEF Rows
<1>3. PICK h : h = <<Transform(r)>>
    OBVIOUS
<1>4. h \in Seq(Plain)
    BY <1>1, <1>2, <1>3, OneTransform
<1>5. <<g, h>> \in Groups
    BY <1>4, TwoGroups
<1>6. ASSUME NEW table \in Seq(RowRecord), Grows(rows, table), Len(table) = Len(rows) + Len(new)
      PROVE  0 \in 0..Len(table) /\ GroupsFit(<<g, h>>, table)
    <2>1. Len(table) \in Nat /\ r \in 1..Len(table) /\ r \in DOMAIN rows
        BY <1>2, <1>6
    <2>2. table[r].type \notin NotRead
        BY <1>1, <1>6, <2>1 DEF Grows
    <2>3. \A j \in DOMAIN h : Fresh(h[j], table)
        BY <1>3, <2>1, <2>2, OneTransform
    <2>4. \A j \in DOMAIN g : Fresh(g[j], table)
        BY <1>6
    <2> QED
        <3>1. DOMAIN <<g, h>> = {1, 2} /\ <<g, h>>[1] = g /\ <<g, h>>[2] = h
            OBVIOUS
        <3>2. GroupsFit(<<g, h>>, table)
            BY <2>3, <2>4, <3>1 DEF GroupsFit
        <3> QED
            BY <2>1, <3>2
<1>7. PICK groups : groups = <<g, h>>
    OBVIOUS
<1>8. Made(t, row, new, groups, 0) /\ groups \in Groups
    BY <1>1, <1>3, <1>5, <1>7
<1>9. \A table \in Seq(RowRecord) :
                (IsTable(table) /\ Grows(rows, table) /\ Len(table) = Len(rows) + Len(new)
                    /\ \A i \in DOMAIN new : table[Len(rows) + i] = new[i])
                => 0 \in 0..Len(table) /\ GroupsFit(groups, table)
    BY <1>6, <1>7
<1> QED
    BY <1>8, <1>9, MadeStep

\* The group that runs the new rows.
LEMMA GroupOfNew ==
    ASSUME rows \in Seq(RowRecord), NEW n \in Nat
    PROVE  /\ NewGroup(n) \in Seq(Plain)
           /\ \A table \in Seq(RowRecord) :
                Len(table) = Len(rows) + n => \A j \in DOMAIN NewGroup(n) : Fresh(NewGroup(n)[j], table)
<1>1. Len(rows) \in Nat
    OBVIOUS
<1>2. NewGroup(n) \in Seq(Plain)
    <2>1. \A i \in 1..n : Extract(Len(rows) + i, 0) \in Plain
        <3>1. ASSUME NEW i \in 1..n PROVE Extract(Len(rows) + i, 0) \in Plain
            <4>1. PICK table : table = [k \in 1..(Len(rows) + n) |-> 0]
                OBVIOUS
            <4>2. Len(table) = Len(rows) + n
                <5>1. table \in [1..(Len(rows) + n) -> Nat] /\ Len(rows) + n \in Nat
                    BY <1>1, <4>1
                <5> QED
                    BY <5>1
            <4>3. Len(rows) + i \in 0..Len(table) /\ 0 \in 0..Len(table) /\ Len(table) \in Nat
                BY <1>1, <4>2
            <4> QED
                BY <4>3, ExtractFresh
        <3> QED
            BY <3>1
    <2>2. NewGroup(n) \in [1..n -> Plain]
        BY <2>1 DEF NewGroup
    <2> QED
        BY <2>2
<1>3. ASSUME NEW table \in Seq(RowRecord), Len(table) = Len(rows) + n
      PROVE  \A j \in DOMAIN NewGroup(n) : Fresh(NewGroup(n)[j], table)
    <2>1. Len(table) \in Nat /\ Len(rows) + n <= Len(table)
        BY <1>1, <1>3
    <2> QED
        BY <2>1, NewGroupFits
<1> QED
    BY <1>2, <1>3

LEMMA TagsGoOn ==
    ASSUME Typed, NEW t \in Messages, msgs[t].row \in Rows, NEW h \in Tags(t), spent' = h[2], UNCHANGED world
    PROVE  h[1] \in Content /\ WorldGoesOn
<1>1. rows[msgs[t].row] \in RowRecord
    BY DEF Typed, IsTable, Rows
<1>2. rows[msgs[t].row].item \in Items
    BY <1>1 DEF RowRecord
<1>3. world[rows[msgs[t].row].item].tag \in 1..(MaxFaults + 1)
    BY <1>2, WorldOf, FanOutAssumption DEF Typed
<1>4. CASE h = <<world[RowOf(t).item].tag, spent>>
    <2>1. h[1] = world[rows[msgs[t].row].item].tag /\ spent' = spent
        BY <1>4 DEF RowOf
    <2> QED
        BY <1>3, <2>1, WorldStays, FanOutAssumption DEF Content, Typed
<1>5. CASE Left /\ h = <<0, [spent EXCEPT !.errors = @ + 1]>>
    <2>1. h[1] = 0 /\ spent' = [spent EXCEPT !["errors"] = @ + 1]
        BY <1>5
    <2>2. WorldGoesOn
        BY <1>5, <2>1, Spending, FanOutAssumption DEF Faults, Typed
    <2> QED
        BY <2>1, <2>2, FanOutAssumption DEF Content
<1> QED
    BY <1>4, <1>5 DEF Tags

LEMMA ChildrenFit ==
    ASSUME NEW r, rows[r].item \in Listing(Wanted), NEW skipped
    PROVE  ChildrenOf(r, skipped) \in Seq([type : ChildTypes, item : Items, parent : {r}])
<1> DEFINE a == rows[r].item
           Specs == [type : ChildTypes, item : Items, parent : {r}]
<1>1. Areas[a] \in Seq(Items) /\ Vaps[a] \in Seq(Items) /\ Datasets[a] \in Seq(Items)
    BY CharterAssumption
<1>2. <<>> \in Seq(Items)
    OBVIOUS
<1>3. ASSUME NEW type \in ChildTypes, NEW files \in Seq(Items)
      PROVE  Parts(r, type, files) \in Seq(Specs)
    <2>1. Len(files) \in Nat /\ DOMAIN files = 1..Len(files) /\ \A i \in 1..Len(files) : files[i] \in Items
        OBVIOUS
    <2>2. Parts(r, type, files) \in [1..Len(files) -> Specs]
        BY <2>1 DEF Parts
    <2> HIDE DEF Specs
    <2> QED
        BY <2>1, <2>2
<1>4. "AREA" \in ChildTypes /\ "VAPS" \in ChildTypes /\ "CALIBRATED_DATASET" \in ChildTypes
    BY DEF ChildTypes
<1>5. PICK v \in Seq(Items) : v = IF skipped = "VAPS" THEN <<>> ELSE Vaps[a]
    BY <1>1, <1>2
<1>6. PICK d \in Seq(Items) : d = IF a \in Errored \/ skipped = "CALIBRATED_DATASET" THEN <<>> ELSE Datasets[a]
    BY <1>1, <1>2
<1>7. ChildrenOf(r, skipped) = Parts(r, "AREA", Areas[a]) \o Parts(r, "VAPS", v) \o Parts(r, "CALIBRATED_DATASET", d)
    BY <1>5, <1>6 DEF ChildrenOf
<1>8. /\ Parts(r, "AREA", Areas[a]) \in Seq(Specs) /\ Parts(r, "VAPS", v) \in Seq(Specs)
      /\ Parts(r, "CALIBRATED_DATASET", d) \in Seq(Specs)
    BY <1>1, <1>3, <1>4
<1> HIDE DEF Specs
<1>9. ChildrenOf(r, skipped) \in Seq(Specs)
    BY <1>7, <1>8
<1> QED
    BY <1>9 DEF Specs

\* What the handler of an activation makes.
LEMMA ActivationMade ==
    ASSUME Typed, Charter, NEW t \in Messages, HandleActivation(t)
    PROVE  \E row, specs :
            /\ row \in RowRecord /\ WorldGoesOn
            /\ LET r == msgs[t].row
               IN /\ row.type = rows[r].type /\ row.item = rows[r].item /\ row.parent = rows[r].parent
                  /\ row.attempts = rows[r].attempts
                  /\ \A i \in DOMAIN specs : specs[i] \in [type : ChildTypes, item : Items, parent : {r}]
            /\ NewRows(specs) \in Seq(RowRecord) /\ Len(NewRows(specs)) = Len(specs)
            /\ DOMAIN NewRows(specs) = DOMAIN specs
            /\ \A i \in DOMAIN specs :
                    /\ NewRows(specs)[i] \in RowRecord /\ NewRows(specs)[i].type = specs[i].type
                    /\ NewRows(specs)[i].parent = specs[i].parent /\ Handled(NewRows(specs)[i])
            /\ Made(t, row, NewRows(specs), <<NewGroup(Len(specs)), <<Transform(msgs[t].row)>>>>, 0)
<1>1. PICK r : r = msgs[t].row
    OBVIOUS
<1>2. Received(t) /\ rows[r].type = "ACTIVATION" /\ r \in Rows /\ rows \in Seq(RowRecord) /\ Len(rows) \in Nat
        /\ Rows = 1..Len(rows) /\ rows[r] \in RowRecord
    BY <1>1, Delivery DEF HandleActivation, Handles, RowOf, Rows
<1>3. rows[r].item \in Listing(Wanted) /\ rows[r].item \in Items
    BY <1>2 DEF Typed, IsTable, ItemFits, Rows, RowRecord
<1>4. PICK skipped, tag :
        /\ tag \in Content /\ WorldGoesOn
        /\ LET specs == ChildrenOf(r, skipped)
           IN Made(t, Fetched(t, tag), NewRows(specs), <<NewGroup(Len(specs)), <<Transform(r)>>>>, 0)
    <2>1. CASE \E h \in Tags(t) :
                LET specs == ChildrenOf(msgs[t].row, "none")
                IN /\ spent' = h[2]
                   /\ Made(t, Fetched(t, h[1]), NewRows(specs), <<NewGroup(Len(specs)), <<Transform(msgs[t].row)>>>>, 0)
        <3>1. PICK h \in Tags(t) :
                LET specs == ChildrenOf(r, "none")
                IN /\ spent' = h[2]
                   /\ Made(t, Fetched(t, h[1]), NewRows(specs), <<NewGroup(Len(specs)), <<Transform(r)>>>>, 0)
            BY <1>1, <2>1
        <3>2. UNCHANGED world
            BY <3>1 DEF Made
        <3>3. h[1] \in Content /\ WorldGoesOn
            BY <1>1, <1>2, <3>1, <3>2, TagsGoOn
        <3> QED
            BY <3>1, <3>3
    <2>2. CASE \E skipped \in {"VAPS", "CALIBRATED_DATASET"} :
                LET specs == ChildrenOf(msgs[t].row, skipped)
                IN /\ Error
                   /\ Made(t, Fetched(t, world[RowOf(t).item].tag), NewRows(specs),
                           <<NewGroup(Len(specs)), <<Transform(msgs[t].row)>>>>, 0)
        <3>a. PICK tag : tag = world[rows[r].item].tag
            OBVIOUS
        <3>1. PICK skipped \in {"VAPS", "CALIBRATED_DATASET"} :
                LET specs == ChildrenOf(r, skipped)
                IN /\ Error /\ tag = world[rows[r].item].tag
                   /\ Made(t, Fetched(t, tag), NewRows(specs), <<NewGroup(Len(specs)), <<Transform(r)>>>>, 0)
            BY <1>1, <2>2, <3>a DEF RowOf
        <3>2. UNCHANGED world
            BY <3>1 DEF Made
        <3>3. tag \in 1..(MaxFaults + 1)
            BY <1>3, <3>1, WorldOf, FanOutAssumption DEF Typed
        <3>4. tag \in Content
            BY <3>3, FanOutAssumption DEF Content
        <3>5. WorldGoesOn
            BY <3>1, <3>2, Spending, FanOutAssumption DEF Error, Spend, Faults, Typed
        <3> QED
            BY <3>1, <3>4, <3>5
    <2> QED
        BY <2>1, <2>2 DEF HandleActivation
<1> DEFINE specs == ChildrenOf(r, skipped)
           new == NewRows(specs)
<1>5. /\ new \in Seq(RowRecord) /\ Len(new) = Len(specs) /\ DOMAIN new = DOMAIN specs
      /\ \A i \in DOMAIN specs :
            /\ specs[i] \in [type : ChildTypes, item : Items, parent : {r}]
            /\ new[i] \in RowRecord /\ new[i].type = specs[i].type
            /\ new[i].parent = specs[i].parent /\ Handled(new[i])
    <2>1. specs \in Seq([type : ChildTypes, item : Items, parent : {r}])
        BY <1>3, ChildrenFit
    <2>2. PICK given : given = specs
        OBVIOUS
    <2>3. Len(given) \in Nat /\ DOMAIN given = 1..Len(given)
        BY <2>1, <2>2
    <2>4. \A i \in DOMAIN given : given[i] \in [type : ChildTypes, item : Items, parent : {r}]
        <3> DEFINE S == [type : ChildTypes, item : Items, parent : {r}]
        <3>1. given \in Seq(S)
            BY <2>1, <2>2
        <3> HIDE DEF S
        <3>2. \A i \in DOMAIN given : given[i] \in S
            BY <3>1
        <3> QED
            BY <3>2 DEF S
    <2>5. \A i \in DOMAIN given :
                given[i].type \in RowTypes /\ given[i].item \in Items /\ given[i].parent \in Nat
        BY <1>2, <2>4 DEF RowTypes
    <2>6. /\ NewRows(given) \in Seq(RowRecord) /\ Len(NewRows(given)) = Len(given)
          /\ DOMAIN NewRows(given) = DOMAIN given
          /\ \A i \in DOMAIN given :
                /\ NewRows(given)[i] \in RowRecord /\ NewRows(given)[i].type = given[i].type
                /\ NewRows(given)[i].parent = given[i].parent /\ Handled(NewRows(given)[i])
        BY <2>3, <2>5, RowsFromSpecs
    <2> QED
        BY <2>2, <2>4, <2>6
<1> HIDE DEF specs, new
<1>6. PICK row : row = Fetched(t, tag)
    OBVIOUS
<1>7. LET s == msgs[t].row
      IN /\ row \in RowRecord
         /\ row.type = rows[s].type /\ row.item = rows[s].item /\ row.parent = rows[s].parent
         /\ row.attempts = rows[s].attempts
    BY <1>2, <1>4, <1>6, FetchedRow
<1>8. Made(t, row, new, <<NewGroup(Len(new)), <<Transform(msgs[t].row)>>>>, 0)
    BY <1>1, <1>4, <1>5, <1>6 DEF specs, new
<1> QED
    BY <1>1, <1>4, <1>5, <1>7, <1>8 DEF new

LEMMA HandleActivationStep ==
    ASSUME Typed, Charter, NEW t \in Messages, HandleActivation(t)
    PROVE  Proper(t)
<1>1. PICK r : r = msgs[t].row
    OBVIOUS
<1>2. Received(t) /\ rows[r].type = "ACTIVATION" /\ r \in Rows /\ rows \in Seq(RowRecord) /\ Len(rows) \in Nat
        /\ Rows = 1..Len(rows) /\ rows[r] \in RowRecord
    BY <1>1, Delivery DEF HandleActivation, Handles, RowOf, Rows
<1>3. PICK row, specs :
        /\ row \in RowRecord /\ WorldGoesOn
        /\ row.type = rows[r].type /\ row.item = rows[r].item /\ row.parent = rows[r].parent
        /\ row.attempts = rows[r].attempts
        /\ \A i \in DOMAIN specs : specs[i] \in [type : ChildTypes, item : Items, parent : {r}]
        /\ NewRows(specs) \in Seq(RowRecord) /\ Len(NewRows(specs)) = Len(specs)
        /\ DOMAIN NewRows(specs) = DOMAIN specs
        /\ \A i \in DOMAIN specs :
                /\ NewRows(specs)[i] \in RowRecord /\ NewRows(specs)[i].type = specs[i].type
                /\ NewRows(specs)[i].parent = specs[i].parent /\ Handled(NewRows(specs)[i])
        /\ Made(t, row, NewRows(specs), <<NewGroup(Len(specs)), <<Transform(msgs[t].row)>>>>, 0)
    BY <1>1, ActivationMade
<1>4. PICK new : new = NewRows(specs)
    OBVIOUS
<1>5. /\ new \in Seq(RowRecord) /\ Len(new) = Len(specs) /\ DOMAIN new = DOMAIN specs
      /\ \A i \in DOMAIN specs :
            /\ specs[i] \in [type : ChildTypes, item : Items, parent : {r}]
            /\ new[i] \in RowRecord /\ new[i].type = specs[i].type
            /\ new[i].parent = specs[i].parent /\ Handled(new[i])
    BY <1>3, <1>4
<1>6. ASSUME NEW i \in DOMAIN new
      PROVE  /\ RowFits(new[i], rows) /\ new[i].type \in TypesOf(source) \ {"EXPOSURE_LIST"}
             /\ Handled(new[i])
    <2>1. new[i] \in RowRecord /\ new[i].type \in ChildTypes /\ new[i].parent = r /\ Handled(new[i])
        BY <1>5
    <2>2. r \in 0..Len(rows)
        BY <1>2
    <2>3. ItemFits(new[i]) /\ new[i].type \notin DOMAIN ParentType
        BY <2>1 DEF ItemFits, ChildTypes, ParentType, PagedTypes, Singles
    <2> QED
        BY <2>1, <2>2, <2>3, CharterTypes DEF RowFits, ChildTypes
<1>7. rows[msgs[t].row].type \notin NotRead
    BY <1>1, <1>2 DEF NotRead
<1>9. LET s == msgs[t].row
      IN /\ row \in RowRecord
         /\ row.type = rows[s].type /\ row.item = rows[s].item /\ row.parent = rows[s].parent
         /\ row.attempts = rows[s].attempts
    BY <1>1, <1>3
<1>10. Made(t, row, new, <<NewGroup(Len(new)), <<Transform(msgs[t].row)>>>>, 0)
    BY <1>3, <1>4, <1>5
<1> QED
    <2>1. Len(new) \in Nat
        BY <1>5
    <2>2. PICK g : g = NewGroup(Len(new))
        OBVIOUS
    <2>3. /\ g \in Seq(Plain)
          /\ \A table \in Seq(RowRecord) :
                Len(table) = Len(rows) + Len(new) => \A j \in DOMAIN g : Fresh(g[j], table)
        BY <1>2, <2>1, <2>2, GroupOfNew
    <2>4. Made(t, row, new, <<g, <<Transform(msgs[t].row)>>>>, 0)
        BY <1>10, <2>2
    <2> QED
        BY <1>2, <1>3, <1>5, <1>6, <1>7, <1>9, <2>3, <2>4, ChordStep

LEMMA HandleChildStep ==
    ASSUME Typed, NEW t \in Messages, HandleChild(t)
    PROVE  Proper(t)
<1>1. PICK h \in Tags(t) : spent' = h[2] /\ Made(t, Fetched(t, h[1]), <<>>, <<>>, 0)
    BY DEF HandleChild
<1>2. Received(t) /\ msgs[t].row \in Rows /\ UNCHANGED world
    BY <1>1, Delivery DEF HandleChild, Made
<1>3. PICK tag : tag = h[1]
    OBVIOUS
<1>4. tag \in Content /\ WorldGoesOn
    BY <1>1, <1>2, <1>3, TagsGoOn
<1>5. PICK row : row = Fetched(t, tag)
    OBVIOUS
<1>6. LET r == msgs[t].row
      IN /\ row \in RowRecord
         /\ row.type = rows[r].type /\ row.item = rows[r].item /\ row.parent = rows[r].parent
         /\ row.attempts = rows[r].attempts
    BY <1>2, <1>4, <1>5, FetchedRow
<1>7. Made(t, row, <<>>, <<>>, 0)
    BY <1>1, <1>3, <1>5
<1> QED
    BY <1>2, <1>4, <1>6, <1>7, StoredStep

LEMMA CharterGivesUpStep ==
    ASSUME Typed, NEW t \in Messages, CharterGivesUp(t)
    PROVE  Proper(t)
BY FailedStep DEF CharterGivesUp, Error, Faults

LEMMA CharterTransformStep ==
    ASSUME Typed, NEW t \in Messages, CharterTransform(t)
    PROVE  Proper(t)
<1>1. CASE RunTransform(t, CharterReads(msgs[t].row))
    <2>1. msgs[t].row \in Rows
        <3>1. msgs[t].kind = "transform" /\ Refers(msgs[t], rows) /\ (msgs[t].row # 0 => msgs[t].row \in Rows)
            BY <1>1, MessageOf DEF RunTransform, At
        <3> QED
            BY <3>1 DEF Refers
    <2>2. CharterReads(msgs[t].row) \subseteq Readable
        BY <2>1, OwnReadable DEF CharterReads, Good, Children, Readable
    <2> QED
        BY <1>1, <2>2, RunTransformStep
<1>2. CASE /\ At(t, "transform", "queued")
           /\ ended' = ended \cup {msgs[t].row}
           /\ msgs' = Acked(t)
           /\ UNCHANGED <<rows, chords, world, fed, spent>>
    BY <1>2, TransformStep
<1> QED
    BY <1>1, <1>2 DEF CharterTransform

LEMMA CharterStepProper ==
    ASSUME Typed, Charter, NEW t \in Messages, CharterStep(t)
    PROVE  Proper(t)
<1>1. CASE Dispatch(t)
    BY <1>1, DispatchStep
<1>2. CASE Finish(t)
    BY <1>2, FinishStep
<1>3. CASE WorkerLost(t)
    BY <1>3, LostStep
<1>4. CASE HandleCatalog(t)
    BY <1>4, HandleCatalogStep
<1>5. CASE HandleActivation(t)
    BY <1>5, HandleActivationStep
<1>6. CASE HandleChild(t)
    BY <1>6, HandleChildStep
<1>7. CASE PermanentError(t)
    BY <1>7, CharterGivesUpStep DEF PermanentError
<1>8. CASE CharterRequestError(t)
    BY <1>8, CharterGivesUpStep, FetchFailsStep DEF CharterRequestError, RequestError
<1>9. CASE OtherError(t)
    BY <1>9, OtherErrorStep
<1>10. CASE CharterTransform(t)
    BY <1>10, CharterTransformStep
<1> QED
    BY <1>1, <1>2, <1>3, <1>4, <1>5, <1>6, <1>7, <1>8, <1>9, <1>10 DEF CharterStep

LEMMA CharterKeeps ==
    ASSUME Typed, AllAttended, Charter, CharterNext, UNCHANGED source
    PROVE  Typed' /\ AllAttended'
<1>1. CASE NextDay
    BY <1>1, NextDayKeeps
<1>2. CASE \E t \in Messages : CharterStep(t)
    BY <1>2, CharterStepProper, ProperKeeps, FanOutAssumption
<1>3. CASE \E status \in {"FAILED", "PENDING"} : Retrigger(status, Itself)
    <2>1. rows \in Seq(RowRecord)
        BY DEF Typed, IsTable
    <2> QED
        BY <1>3, <2>1, ItselfFits, RetriggerKeeps
<1>4. CASE \E i \in Items \ {"catalog"} : Change(i)
    BY <1>4, ChangeKeeps
<1> QED
    BY <1>1, <1>2, <1>3, <1>4 DEF CharterNext

\* The new rows are run, and nothing waits for them.
LEMMA GroupStep ==
    ASSUME Typed, NEW t \in Messages, Received(t),
           NEW row \in RowRecord, NEW new \in Seq(RowRecord),
           LET r == msgs[t].row
           IN /\ row.type = rows[r].type /\ row.item = rows[r].item /\ row.parent = rows[r].parent
              /\ row.attempts = rows[r].attempts,
           \A i \in DOMAIN new :
                /\ RowFits(new[i], rows) /\ new[i].type \in TypesOf(source) \ {"EXPOSURE_LIST"}
                /\ Handled(new[i]),
           Made(t, row, new, <<NewGroup(Len(new))>>, 0), WorldGoesOn
    PROVE  Proper(t)
<1>1. rows \in Seq(RowRecord) /\ Len(new) \in Nat
    BY Delivery
<1>2. PICK g : g = NewGroup(Len(new))
    OBVIOUS
<1>3. /\ g \in Seq(Plain)
      /\ \A table \in Seq(RowRecord) :
            Len(table) = Len(rows) + Len(new) => \A j \in DOMAIN g : Fresh(g[j], table)
    BY <1>1, <1>2, GroupOfNew
<1>4. PICK groups : groups = <<g>>
    OBVIOUS
<1>5. groups \in Groups
    BY <1>3, <1>4, OneGroup
<1>6. ASSUME NEW table \in Seq(RowRecord), Len(table) = Len(rows) + Len(new)
      PROVE  0 \in 0..Len(table) /\ GroupsFit(groups, table)
    <2>1. DOMAIN groups = {1} /\ groups[1] = g
        BY <1>4
    <2>2. \A j \in DOMAIN g : Fresh(g[j], table)
        BY <1>3, <1>6
    <2> QED
        BY <2>1, <2>2 DEF GroupsFit
<1>7. \A table \in Seq(RowRecord) :
                (IsTable(table) /\ Grows(rows, table) /\ Len(table) = Len(rows) + Len(new)
                    /\ \A i \in DOMAIN new : table[Len(rows) + i] = new[i])
                => 0 \in 0..Len(table) /\ GroupsFit(groups, table)
    BY <1>6
<1>8. Made(t, row, new, groups, 0)
    BY <1>2, <1>4
<1> QED
    BY <1>5, <1>7, <1>8, MadeStep

LEMMA MadeWorld ==
    ASSUME Typed, NEW t, NEW row, NEW new, NEW groups, NEW value, Made(t, row, new, groups, value),
           UNCHANGED spent
    PROVE  WorldGoesOn
BY WorldStays DEF Made, Typed

\* Rows of one type for the items of a list.
LEMMA RowsOfList ==
    ASSUME NEW type \in RowTypes, NEW list \in Seq(Items), NEW parent \in Nat,
           NEW new, new = [i \in DOMAIN list |-> Row(type, list[i], parent)]
    PROVE  /\ new \in Seq(RowRecord) /\ Len(new) = Len(list) /\ DOMAIN new = DOMAIN list
           /\ \A i \in DOMAIN list :
                 /\ new[i] \in RowRecord /\ new[i].type = type /\ new[i].item = list[i]
                 /\ new[i].parent = parent /\ Handled(new[i])
<1>1. Len(list) \in Nat /\ DOMAIN list = 1..Len(list) /\ \A i \in 1..Len(list) : list[i] \in Items
    OBVIOUS
<1>2. ASSUME NEW i \in DOMAIN list
      PROVE  /\ new[i] \in RowRecord /\ new[i].type = type /\ new[i].item = list[i]
             /\ new[i].parent = parent /\ Handled(new[i])
    <2>1. new[i] = Row(type, list[i], parent)
        OBVIOUS
    <2> QED
        BY <1>1, <2>1, RowNew
<1>3. new \in Seq(RowRecord) /\ Len(new) = Len(list) /\ DOMAIN new = DOMAIN list
    <2>1. new \in [1..Len(list) -> RowRecord]
        BY <1>1, <1>2
    <2> QED
        BY <1>1, <2>1
<1> QED
    BY <1>2, <1>3

-----------------------------------------------------------------------------
(* GDACS.                                                                    *)

Gdacs == source = "GDACS"

LEMMA GdacsTypes ==
    ASSUME Gdacs
    PROVE  TypesOf(source) = {"GDACS_QUERY", "GDACS_DETAIL", "EPISODE", "GEOMETRY", "IMPACT"}
BY DEF Gdacs, TypesOf

LEMMA GdacsInitKeeps ==
    ASSUME source \in Chosen, Gdacs, GdacsInit
    PROVE  Typed /\ AllAttended
<1>1. PICK query \in GdacsQueries : InitRows(<<Row("GDACS_QUERY", query, 0)>>)
    BY DEF GdacsInit
<1>2. query \in Items /\ "GDACS_QUERY" \in TypesOf(source)
    BY GdacsTypes, GdacsAssumption
<1> QED
    BY <1>1, <1>2, FirstRow, FreeRow

LEMMA GdacsQueryStep ==
    ASSUME Typed, Gdacs, NEW t \in Messages, GdacsQuery(t)
    PROVE  Proper(t)
<1>1. PICK r : r = msgs[t].row
    OBVIOUS
<1>2. Received(t) /\ r \in Rows /\ rows \in Seq(RowRecord) /\ Len(rows) \in Nat /\ Rows = 1..Len(rows)
    BY <1>1, Delivery DEF GdacsQuery, Handles, Rows
<1>3. PICK places : /\ places \subseteq DOMAIN Listed
                    /\ LET found == Only(Listed, places)
                       IN Made(t, Stored(t), [i \in DOMAIN found |-> Row("GDACS_DETAIL", found[i], r)],
                               <<NewGroup(Len(found))>>, 0)
    <2> DEFINE known == {i \in DOMAIN Listed : RowOf(t).item = "history" /\ DetailExists(Listed[i])}
    <2>1. PICK places : places = DOMAIN Listed \ known
        OBVIOUS
    <2> QED
        BY <1>1, <2>1 DEF GdacsQuery
<1>4. PICK found : found = Only(Listed, places)
    OBVIOUS
<1>5. /\ found \in Seq(Items)
      /\ \A i \in DOMAIN found : \E p \in DOMAIN Listed : found[i] = Listed[p]
    BY <1>3, <1>4, OnlyLists, GdacsAssumption
<1>6. PICK new : new = [i \in DOMAIN found |-> Row("GDACS_DETAIL", found[i], r)]
    OBVIOUS
<1>7. /\ new \in Seq(RowRecord) /\ Len(new) = Len(found) /\ DOMAIN new = DOMAIN found
      /\ \A i \in DOMAIN found :
            /\ new[i] \in RowRecord /\ new[i].type = "GDACS_DETAIL" /\ new[i].item = found[i]
            /\ new[i].parent = r /\ Handled(new[i])
    <2>1. "GDACS_DETAIL" \in RowTypes /\ r \in Nat
        BY <1>2 DEF RowTypes
    <2> QED
        BY <1>5, <1>6, <2>1, RowsOfList
<1>8. ASSUME NEW i \in DOMAIN new
      PROVE  /\ RowFits(new[i], rows) /\ new[i].type \in TypesOf(source) \ {"EXPOSURE_LIST"}
             /\ Handled(new[i])
    <2>1. new[i].item \in Listing(Listed)
        BY <1>5, <1>7 DEF Listing
    <2>2. ItemFits(new[i]) /\ new[i].type \notin DOMAIN ParentType
        BY <1>7, <2>1 DEF ItemFits, ParentType, PagedTypes, Singles
    <2>3. r \in 0..Len(rows)
        BY <1>2
    <2> QED
        BY <1>7, <2>2, <2>3, GdacsTypes DEF RowFits
<1>9. Made(t, Stored(t), new, <<NewGroup(Len(new))>>, 0)
    BY <1>3, <1>4, <1>6, <1>7
<1>10. WorldGoesOn
    BY <1>9, MadeWorld DEF GdacsQuery
<1>11. PICK row : row = Stored(t)
    OBVIOUS
<1>12. LET s == msgs[t].row
       IN /\ row \in RowRecord
          /\ row.type = rows[s].type /\ row.item = rows[s].item /\ row.parent = rows[s].parent
          /\ row.attempts = rows[s].attempts
    BY <1>2, <1>11, StoredRow
<1>13. Made(t, row, new, <<NewGroup(Len(new))>>, 0)
    BY <1>9, <1>11
<1> QED
    BY <1>2, <1>7, <1>8, <1>10, <1>12, <1>13, GroupStep

LEMMA ChainFresh ==
    ASSUME NEW table, Len(table) \in Nat, NEW r \in 0..Len(table)
    PROVE  GdacsChain(r) \in Plain /\ Fresh(GdacsChain(r), table)
<1>1. 0 \in 0..Len(table)
    OBVIOUS
<1>2. PICK m : m = Extract(r, 0)
    OBVIOUS
<1>3. m \in Plain /\ Fresh(m, table)
    BY <1>1, <1>2, ExtractFresh
<1>4. PICK n : n = [m EXCEPT !.next = TRUE]
    OBVIOUS
<1>5. n \in Plain
    BY <1>3, <1>4 DEF Plain, MessageWith
<1>6. /\ n.kind = m.kind /\ n.row = m.row /\ n.failed = m.failed /\ n.value = m.value /\ n.todo = m.todo
      /\ n.pc = m.pc /\ n.retries = m.retries /\ n.chord = m.chord
    BY <1>3, <1>4 DEF Plain, MessageWith
<1>7. Fresh(n, table)
    BY <1>3, <1>6 DEF Fresh, Refers
<1> QED
    BY <1>2, <1>4, <1>5, <1>7 DEF GdacsChain

\* One message is run, and the transform after it.
LEMMA AfterOneStep ==
    ASSUME Typed, NEW t \in Messages, Received(t), rows[msgs[t].row].type \notin NotRead,
           NEW first \in Plain, Fresh(first, rows), UNCHANGED spent,
           Made(t, RowOf(t), <<>>, <<<<first>>, <<Transform(msgs[t].row)>>>>, 0)
    PROVE  Proper(t)
<1>1. PICK r : r = msgs[t].row
    OBVIOUS
<1>2. rows[r] \in RowRecord /\ rows \in Seq(RowRecord) /\ Len(rows) \in Nat
    BY <1>1, Delivery
<1>3. PICK row : row = RowOf(t)
    OBVIOUS
<1>4. row \in RowRecord /\ row = rows[msgs[t].row]
    BY <1>1, <1>2, <1>3 DEF RowOf
<1>5. PICK g : g = <<first>>
    OBVIOUS
<1>6. g \in Seq(Plain) /\ DOMAIN g = {1} /\ g[1] = first
    BY <1>5
<1>7. PICK new : new = <<>>
    OBVIOUS
<1>8. new \in Seq(RowRecord) /\ DOMAIN new = {} /\ Len(new) = 0
    BY <1>7
<1>9. \A table \in Seq(RowRecord) :
            (Grows(rows, table) /\ Len(table) = Len(rows) + Len(new)) => \A j \in DOMAIN g : Fresh(g[j], table)
    <2>1. first \in Message
        BY MessageTypes
    <2> QED
        BY <1>2, <1>6, <2>1, FreshLater
<1>10. Made(t, row, new, <<g, <<Transform(msgs[t].row)>>>>, 0)
    BY <1>3, <1>5, <1>7
<1>11. WorldGoesOn
    BY <1>10, MadeWorld
<1> QED
    BY <1>4, <1>6, <1>8, <1>9, <1>10, <1>11, ChordStep

LEMMA FailedRow ==
    ASSUME Typed, NEW t \in Messages, msgs[t].failed # 0
    PROVE  msgs[t].failed \in Rows /\ msgs[t].failed \in 0..Len(rows) /\ Len(rows) \in Nat
<1>1. msgs[t].failed \in 0..Len(rows) /\ rows \in Seq(RowRecord)
    BY MessageOf DEF Refers
<1> QED
    BY <1>1 DEF Rows

LEMMA GdacsDetailStep ==
    ASSUME Typed, Gdacs, NEW t \in Messages, GdacsDetail(t)
    PROVE  Proper(t)
<1>1. PICK r : r = msgs[t].row
    OBVIOUS
<1>2. /\ Received(t) /\ r \in Rows /\ rows \in Seq(RowRecord) /\ Len(rows) \in Nat /\ Rows = 1..Len(rows)
      /\ rows[r].type = "GDACS_DETAIL" /\ rows[r] \in RowRecord /\ UNCHANGED spent
    BY <1>1, Delivery DEF GdacsDetail, Handles, Rows, RowOf
<1>3. rows[msgs[t].row].type \notin NotRead
    BY <1>1, <1>2 DEF NotRead
<1>4. CASE GdacsPartial(t)
    <2>1. PICK first : /\ first = IF rows[msgs[t].failed].type = "EPISODE" THEN GdacsChain(msgs[t].failed)
                                  ELSE Extract(msgs[t].failed, 0)
                       /\ Made(t, RowOf(t), <<>>, <<<<first>>, <<Transform(msgs[t].row)>>>>, 0)
        BY <1>4 DEF GdacsDetail
    <2>2. msgs[t].failed \in 0..Len(rows) /\ 0 \in 0..Len(rows)
        BY <1>2, <1>4, FailedRow DEF GdacsPartial
    <2>3. first \in Plain /\ Fresh(first, rows)
        BY <1>2, <2>1, <2>2, ChainFresh, ExtractFresh
    <2> QED
        BY <1>2, <1>3, <2>1, <2>3, AfterOneStep
<1>5. CASE ~GdacsPartial(t)
    <2>1. PICK episodes : episodes = Episodes[rows[r].item]
        OBVIOUS
    <2>2. rows[r].item \in Listing(Listed)
        BY <1>2 DEF Typed, IsTable, ItemFits, Rows
    <2>3. episodes \in Seq(Items) /\ Len(episodes) \in Nat /\ DOMAIN episodes = 1..Len(episodes)
        BY <2>1, <2>2, GdacsAssumption
    <2>4. PICK new : new = [i \in DOMAIN episodes |-> Row("EPISODE", episodes[i], r)]
        OBVIOUS
    <2>5. /\ new \in Seq(RowRecord) /\ Len(new) = Len(episodes) /\ DOMAIN new = DOMAIN episodes
          /\ \A i \in DOMAIN episodes :
                /\ new[i] \in RowRecord /\ new[i].type = "EPISODE" /\ new[i].item = episodes[i]
                /\ new[i].parent = r /\ Handled(new[i])
        <3>1. "EPISODE" \in RowTypes /\ r \in Nat
            BY <1>2 DEF RowTypes
        <3> QED
            <4>1. episodes \in Seq(Items)
                BY <2>3
            <4> QED
                BY ONLY <2>4, <3>1, <4>1, RowsOfList
    <2>6. ASSUME NEW i \in DOMAIN new
          PROVE  /\ RowFits(new[i], rows) /\ new[i].type \in TypesOf(source) \ {"EXPOSURE_LIST"}
                 /\ Handled(new[i])
        <3>1. new[i].item \in Listing(Episodes[rows[r].item])
            BY <2>1, <2>5 DEF Listing
        <3>2. ItemFits(new[i])
            BY <2>2, <2>5, <3>1 DEF ItemFits, PagedTypes, Singles
        <3>3. r \in 0..Len(rows) /\ r # 0 /\ ParentType["EPISODE"] = "GDACS_DETAIL"
            BY <1>2 DEF ParentType
        <3> QED
            BY <1>2, <2>5, <3>2, <3>3, GdacsTypes DEF RowFits
    <2>7. PICK g : g = [i \in 1..Len(episodes) |-> GdacsChain(Len(rows) + i)]
        OBVIOUS
    <2>8. ASSUME NEW table, Len(table) \in Nat, Len(table) = Len(rows) + Len(new)
          PROVE  \A i \in 1..Len(episodes) : g[i] \in Plain /\ Fresh(g[i], table)
        <3>1. ASSUME NEW i \in 1..Len(episodes)
              PROVE  g[i] \in Plain /\ Fresh(g[i], table)
            <4>1. Len(rows) + i \in 0..Len(table)
                BY <1>2, <2>3, <2>5, <2>8
            <4> QED
                BY <2>7, <2>8, <4>1, ChainFresh
        <3> QED
            BY <3>1
    <2>9. g \in Seq(Plain) /\ DOMAIN g = 1..Len(episodes)
        <3>1. PICK table : table = rows \o new
            OBVIOUS
        <3>2. Len(table) \in Nat /\ Len(table) = Len(rows) + Len(new)
            <4>1. rows \in Seq(RowRecord) /\ new \in Seq(RowRecord)
                BY <1>2, <2>5
            <4> QED
                BY ONLY <3>1, <4>1
        <3>3. g \in [1..Len(episodes) -> Plain]
            BY <2>7, <2>8, <3>2
        <3> QED
            BY <2>3, <3>3
    <2>10. \A table \in Seq(RowRecord) :
                (Grows(rows, table) /\ Len(table) = Len(rows) + Len(new)) => \A j \in DOMAIN g : Fresh(g[j], table)
        <3>1. \A table \in Seq(RowRecord) : Len(table) \in Nat
            OBVIOUS
        <3> QED
            BY <2>8, <2>9, <3>1
    <2>11. Made(t, Stored(t), new, <<g, <<Transform(msgs[t].row)>>>>, 0)
        BY <1>1, <1>5, <2>1, <2>4, <2>7 DEF GdacsDetail, EpisodeChord
    <2>12. WorldGoesOn
        BY <1>2, <2>11, MadeWorld
    <2>13. PICK row : row = Stored(t)
        OBVIOUS
    <2>14. LET s == msgs[t].row
           IN /\ row \in RowRecord
              /\ row.type = rows[s].type /\ row.item = rows[s].item /\ row.parent = rows[s].parent
              /\ row.attempts = rows[s].attempts
        BY <1>2, <2>13, StoredRow
    <2>15. Made(t, row, new, <<g, <<Transform(msgs[t].row)>>>>, 0)
        BY <2>11, <2>13
    <2> QED
        BY <1>2, <1>3, <2>5, <2>6, <2>9, <2>10, <2>12, <2>14, <2>15, ChordStep
<1> QED
    BY <1>4, <1>5

\* A GEOMETRY, and the IMPACT rows that were extracted with the episode.
LEMMA EpisodeRowsFit ==
    ASSUME Typed, Gdacs, NEW t \in Messages, msgs[t].row \in Rows, rows[msgs[t].row].type = "EPISODE",
           NEW status \in {"SUCCESS", "FAILED", "ON_RETRY"}, NEW new, new = EpisodeRows(t, status)
    PROVE  /\ new \in Seq(RowRecord) /\ Len(new) \in Nat \ {0}
           /\ \A i \in DOMAIN new :
                /\ RowFits(new[i], rows) /\ new[i].type \in TypesOf(source) \ {"EXPOSURE_LIST"}
                /\ Handled(new[i])
<1>1. PICK r : r = msgs[t].row
    OBVIOUS
<1>2. r \in Rows /\ rows \in Seq(RowRecord) /\ Len(rows) \in Nat /\ r \in 1..Len(rows) /\ rows[r].type = "EPISODE"
    BY <1>1 DEF Typed, IsTable, Rows
<1>3. PICK item : item = rows[r].item
    OBVIOUS
<1>4. ShapeOf[item] \in Items /\ ImpactOf[item] \in Seq(Items)
    <2>1. \E v \in Listing(Listed) : item \in Listing(Episodes[v])
        BY <1>2, <1>3 DEF Typed, IsTable, ItemFits, Rows
    <2> QED
        BY <2>1, GdacsAssumption
<1>5. PICK impacts : impacts = ImpactOf[item]
    OBVIOUS
<1>6. PICK shape : shape = Row("GEOMETRY", ShapeOf[item], r)
    OBVIOUS
<1>7. shape \in RowRecord /\ shape.type = "GEOMETRY" /\ shape.parent = r /\ Handled(shape)
    <2>1. "GEOMETRY" \in RowTypes /\ r \in Nat
        BY <1>2 DEF RowTypes
    <2> QED
        BY <1>4, <1>6, <2>1, RowNew
<1>8. PICK rest : rest =
            [i \in DOMAIN impacts |->
                [Row("IMPACT", impacts[i], r) EXCEPT
                    !.status = status, !.runs = 1,
                    !.content = IF status = "SUCCESS" THEN world[impacts[i]].content ELSE 0,
                    !.attempts = IF status = "ON_RETRY" THEN 1 ELSE 0]]
    OBVIOUS
<1>9. new = <<shape>> \o rest
    BY <1>1, <1>3, <1>5, <1>6, <1>8 DEF EpisodeRows
<1>10. impacts \in Seq(Items) /\ Len(impacts) \in Nat /\ DOMAIN impacts = 1..Len(impacts)
    BY <1>4, <1>5
<1>11. ASSUME NEW i \in DOMAIN impacts
       PROVE  rest[i] \in RowRecord /\ rest[i].type = "IMPACT" /\ rest[i].parent = r /\ Handled(rest[i])
    <2>1. PICK it : it = impacts[i]
        OBVIOUS
    <2>2. it \in Items
        BY <1>10, <2>1
    <2>3. PICK x : x = IF status = "SUCCESS" THEN world[it].content ELSE 0
        OBVIOUS
    <2>4. PICK y : y = IF status = "ON_RETRY" THEN 1 ELSE 0
        OBVIOUS
    <2>5. x \in Content /\ y \in Nat
        <3>1. world[it].content \in 1..(MaxFaults + 1) /\ MaxFaults \in Nat
            BY <2>2, WorldOf, FanOutAssumption DEF Typed
        <3> QED
            BY <2>3, <2>4, <3>1 DEF Content
    <2>6. PICK a : a = Row("IMPACT", it, r)
        OBVIOUS
    <2>7. a \in RowRecord /\ a.type = "IMPACT" /\ a.parent = r
        <3>1. "IMPACT" \in RowTypes /\ r \in Nat
            BY <1>2 DEF RowTypes
        <3> QED
            BY <2>2, <2>6, <3>1, RowNew
    <2>8. PICK b : b = [a EXCEPT !.status = status]
        OBVIOUS
    <2>9. b \in RowRecord /\ b.type = "IMPACT" /\ b.parent = r /\ b.status = status
        BY <2>7, <2>8 DEF RowRecord, Status
    <2>10. PICK c : c = [b EXCEPT !.runs = 1]
        OBVIOUS
    <2>11. c \in RowRecord /\ c.type = "IMPACT" /\ c.parent = r /\ c.status = status
        BY <2>9, <2>10 DEF RowRecord
    <2>12. PICK d : d = [c EXCEPT !.content = x]
        OBVIOUS
    <2>13. d \in RowRecord /\ d.type = "IMPACT" /\ d.parent = r /\ d.status = status
        BY <2>5, <2>11, <2>12 DEF RowRecord
    <2>14. PICK e : e = [d EXCEPT !.attempts = y]
        OBVIOUS
    <2>15. e \in RowRecord /\ e.type = "IMPACT" /\ e.parent = r /\ e.status = status
        BY <2>5, <2>13, <2>14 DEF RowRecord
    <2>16. rest[i] = e
        BY <1>8, <2>1, <2>3, <2>4, <2>6, <2>8, <2>10, <2>12, <2>14
    <2> QED
        BY <2>15, <2>16 DEF Handled
<1>12. rest \in Seq(RowRecord) /\ Len(rest) \in Nat /\ DOMAIN rest = 1..Len(rest) /\ DOMAIN rest = DOMAIN impacts
    <2>1. DOMAIN rest = 1..Len(impacts)
        BY <1>8, <1>10
    <2>2. rest = [i \in 1..Len(impacts) |-> rest[i]]
        BY <1>8, <1>10
    <2>3. rest \in [1..Len(impacts) -> RowRecord]
        BY ONLY <1>10, <1>11, <2>1, <2>2
    <2> QED
        BY ONLY <1>10, <2>1, <2>3
<1>13. /\ new \in Seq(RowRecord) /\ Len(new) = 1 + Len(rest) /\ DOMAIN new = 1..(1 + Len(rest))
       /\ new[1] = shape /\ \A i \in 2..(1 + Len(rest)) : i - 1 \in DOMAIN rest /\ new[i] = rest[i - 1]
    BY <1>7, <1>9, <1>12
<1>14. ASSUME NEW i \in DOMAIN new
       PROVE  /\ new[i] \in RowRecord /\ new[i].type \in {"GEOMETRY", "IMPACT"} /\ new[i].parent = r
              /\ Handled(new[i])
    <2>1. CASE i = 1
        BY <1>7, <1>13, <2>1
    <2>2. CASE i # 1
        <3>1. i \in 2..(1 + Len(rest))
            BY <1>12, <1>13, <2>2
        <3>2. i - 1 \in DOMAIN impacts /\ new[i] = rest[i - 1]
            BY <1>12, <1>13, <3>1
        <3> QED
            BY <1>11, <3>2
    <2> QED
        BY <2>1, <2>2
<1>15. ASSUME NEW i \in DOMAIN new
       PROVE  /\ RowFits(new[i], rows) /\ new[i].type \in TypesOf(source) \ {"EXPOSURE_LIST"}
              /\ Handled(new[i])
    <2>1. ItemFits(new[i])
        BY <1>14 DEF ItemFits, PagedTypes, Singles
    <2>2. r \in 0..Len(rows) /\ r # 0 /\ ParentType["GEOMETRY"] = "EPISODE" /\ ParentType["IMPACT"] = "EPISODE"
        BY <1>2 DEF ParentType
    <2> QED
        BY <1>2, <1>14, <2>1, <2>2, GdacsTypes DEF RowFits
<1>16. Len(new) \in Nat \ {0}
    BY <1>12, <1>13
<1> QED
    BY <1>13, <1>15, <1>16

LEMMA GdacsEpisodeStep ==
    ASSUME Typed, Gdacs, NEW t \in Messages, GdacsEpisode(t)
    PROVE  Proper(t)
<1>1. /\ Received(t) /\ msgs[t].row \in Rows /\ rows \in Seq(RowRecord) /\ Len(rows) \in Nat
      /\ rows[msgs[t].row].type = "EPISODE" /\ UNCHANGED spent
    BY Delivery DEF GdacsEpisode, Handles, RowOf
<1>2. PICK new : new = EpisodeRows(t, "SUCCESS")
    OBVIOUS
<1>3. PICK row : row = Stored(t)
    OBVIOUS
<1>4. PICK value : value = Len(rows) + 1
    OBVIOUS
<1>5. PICK groups : groups = <<>>
    OBVIOUS
<1>6. Made(t, row, new, groups, value)
    BY <1>2, <1>3, <1>4, <1>5 DEF GdacsEpisode
<1>7. /\ new \in Seq(RowRecord) /\ Len(new) \in Nat \ {0}
      /\ \A i \in DOMAIN new :
            /\ RowFits(new[i], rows) /\ new[i].type \in TypesOf(source) \ {"EXPOSURE_LIST"}
            /\ Handled(new[i])
    BY <1>1, <1>2, EpisodeRowsFit
<1>8. WorldGoesOn
    BY <1>1, <1>6, MadeWorld
<1>9. LET r == msgs[t].row
      IN /\ row \in RowRecord
         /\ row.type = rows[r].type /\ row.item = rows[r].item /\ row.parent = rows[r].parent
         /\ row.attempts = rows[r].attempts
    BY <1>1, <1>3, StoredRow
<1>10. groups \in Groups
    BY <1>5, MessageTypes
<1>11. ASSUME NEW table \in Seq(RowRecord), Len(table) = Len(rows) + Len(new)
       PROVE  value \in 0..Len(table) /\ GroupsFit(groups, table)
    BY <1>1, <1>4, <1>5, <1>7, <1>11 DEF GroupsFit
<1>12. \A table \in Seq(RowRecord) :
            (IsTable(table) /\ Grows(rows, table) /\ Len(table) = Len(rows) + Len(new)
                /\ \A i \in DOMAIN new : table[Len(rows) + i] = new[i])
            => value \in 0..Len(table) /\ GroupsFit(groups, table)
    BY <1>11
<1> QED
    BY <1>1, <1>6, <1>7, <1>8, <1>9, <1>10, <1>12, MadeStep

LEMMA ImpactFailsStep ==
    ASSUME Typed, Gdacs, NEW t \in Messages, ImpactFails(t)
    PROVE  Proper(t)
<1>1. /\ Received(t) /\ msgs[t].row \in Rows /\ rows \in Seq(RowRecord) /\ Len(rows) \in Nat
      /\ rows[msgs[t].row].type = "EPISODE" /\ UNCHANGED <<world, ended, fed>>
    BY Delivery DEF ImpactFails, Handles, RowOf
<1>2. PICK row : row = Stored(t)
    OBVIOUS
<1>3. LET r == msgs[t].row
      IN /\ row \in RowRecord
         /\ row.type = rows[r].type /\ row.item = rows[r].item /\ row.parent = rows[r].parent
         /\ row.attempts = rows[r].attempts
    BY <1>1, <1>2, StoredRow
<1>4. PICK status \in {"ON_RETRY", "FAILED"}, what \in Faults :
        LET table == [rows EXCEPT ![msgs[t].row] = Stored(t)] \o EpisodeRows(t, status)
        IN /\ Left /\ spent' = [spent EXCEPT ![what] = @ + 1]
           /\ \/ \E limit \in {RetryLimit, RateLimit} : RetryOr(t, limit, table)
              \/ rows' = Mark(table, t, "FAILED") /\ Raise(t)
    BY DEF ImpactFails, Error, Spend, Faults
<1>5. PICK new : new = EpisodeRows(t, status)
    OBVIOUS
<1>6. /\ new \in Seq(RowRecord)
      /\ \A i \in DOMAIN new :
            /\ RowFits(new[i], rows) /\ new[i].type \in TypesOf(source) \ {"EXPOSURE_LIST"}
            /\ Handled(new[i])
    <2>1. status \in {"SUCCESS", "FAILED", "ON_RETRY"}
        OBVIOUS
    <2> QED
        BY <1>1, <1>5, <2>1, EpisodeRowsFit
<1>7. PICK table : table = [rows EXCEPT ![msgs[t].row] = row] \o new
    OBVIOUS
<1>8. /\ IsTable(table) /\ Grows(rows, table)
      /\ \A o \in DOMAIN table : table[o].type \in TypesOf(source)
      /\ \A o \in Rows \ {msgs[t].row} : table[o].status = rows[o].status
      /\ \A o \in DOMAIN table \ Rows : Handled(table[o])
    <2>1. PICK r : r = msgs[t].row
        OBVIOUS
    <2>2. PICK mid : mid = [rows EXCEPT ![r] = row]
        OBVIOUS
    <2>3. r \in DOMAIN rows /\ IsTable(rows) /\ rows \in Seq(RowRecord) /\ rows[r] \in RowRecord
        BY <1>1, <2>1, Delivery DEF Rows
    <2>4. row.attempts >= rows[r].attempts
        BY <1>3, <2>1, <2>3 DEF RowRecord
    <2>5. /\ IsTable(mid) /\ Grows(rows, mid) /\ DOMAIN mid = DOMAIN rows
          /\ \A o \in DOMAIN rows \ {r} : mid[o] = rows[o]
        BY <1>3, <2>1, <2>3, <2>2, <2>4, RowChanged
    <2>6. mid \in Seq(RowRecord) /\ Len(mid) = Len(rows)
        BY <2>3, <2>5 DEF IsTable
    <2>7. ASSUME NEW i \in DOMAIN new PROVE RowFits(new[i], mid)
        <3>1. RowFits(new[i], rows) /\ new[i].parent \in 0..Len(rows) /\ Len(rows) \in Nat
            BY <1>6, <2>3 DEF RowFits
        <3>2. new[i].parent # 0 => new[i].parent \in DOMAIN rows
            BY <2>3, <3>1
        <3>3. new[i].parent # 0 => mid[new[i].parent].type = rows[new[i].parent].type
            BY <2>5, <3>2 DEF Grows
        <3> QED
            BY <2>6, <3>1, <3>3 DEF RowFits
    <2>8. \A i \in DOMAIN new :
                /\ RowFits(new[i], mid)
                /\ new[i].type = "EXPOSURE_LIST" =>
                        Existing(mid \o new, new[i].parent, "POLYGON", new[i].item) # {}
        BY <1>6, <2>7
    <2>9. /\ IsTable(mid \o new) /\ Grows(mid, mid \o new)
          /\ \A o \in DOMAIN mid : (mid \o new)[o] = mid[o]
          /\ \A o \in DOMAIN (mid \o new) \ DOMAIN mid : \E i \in DOMAIN new : (mid \o new)[o] = new[i]
        BY <1>6, <2>5, <2>8, TableMore
    <2>10. /\ IsTable(table) /\ Grows(mid, table)
           /\ \A o \in DOMAIN mid : table[o] = mid[o]
           /\ \A o \in DOMAIN table \ DOMAIN mid : \E i \in DOMAIN new : table[o] = new[i]
        <3>1. table = mid \o new
            BY <1>7, <2>1, <2>2
        <3> QED
            BY <2>9, <3>1
    <2>11. Grows(rows, table)
        <3>1. table \in Seq(RowRecord)
            BY <2>10 DEF IsTable
        <3> QED
            BY <2>3, <2>5, <2>6, <2>10, <3>1, GrowsOn
    <2>12. ASSUME NEW o \in DOMAIN table PROVE table[o].type \in TypesOf(source)
        <3>1. CASE o \in DOMAIN mid
            BY <2>5, <2>10, <3>1 DEF Typed, Grows, Rows
        <3>2. CASE o \notin DOMAIN mid
            BY <1>6, <2>10, <3>2
        <3> QED
            BY <3>1, <3>2
    <2>13. \A o \in Rows \ {r} : table[o].status = rows[o].status
        BY <2>5, <2>10 DEF Rows
    <2>14. \A o \in DOMAIN table \ Rows : Handled(table[o])
        BY <1>6, <2>5, <2>10 DEF Rows
    <2> QED
        BY <2>1, <2>10, <2>11, <2>12, <2>13, <2>14
<1>9. \/ \E limit \in {RetryLimit, RateLimit} : RetryOr(t, limit, table)
      \/ rows' = Mark(table, t, "FAILED") /\ Raise(t)
    BY <1>2, <1>4, <1>5, <1>7
<1>10. TableGoesOn /\ QueueGoesOn(t) /\ Answered(t) /\ Grows(rows, rows')
    <2>1. CASE \E limit \in {RetryLimit, RateLimit} : RetryOr(t, limit, table)
        <3>1. PICK limit \in {RetryLimit, RateLimit} : RetryOr(t, limit, table)
            BY <2>1
        <3> QED
            BY <1>1, <1>8, <3>1, RetryStep
    <2>2. CASE rows' = Mark(table, t, "FAILED") /\ Raise(t)
        BY <1>1, <1>8, <2>2, FailedTable
    <2> QED
        BY <1>9, <2>1, <2>2
<1>11. WorldGoesOn
    BY <1>1, <1>4, Spending, FanOutAssumption DEF Typed
<1>12. HasRead'
    <2>1. rows' \in Seq(RowRecord)
        BY <1>10 DEF TableGoesOn, IsTable
    <2> QED
        BY <1>1, <1>10, <2>1, ReadStays DEF Typed
<1> QED
    BY <1>10, <1>11, <1>12 DEF Proper

\* A handler that stores the answer and does no more.
LEMMA FileStep ==
    ASSUME Typed, NEW t \in Messages, Received(t), Made(t, Stored(t), <<>>, <<>>, 0), UNCHANGED spent
    PROVE  Proper(t)
<1>1. WorldGoesOn
    BY MadeWorld
<1>2. PICK row : row = Stored(t)
    OBVIOUS
<1>3. LET r == msgs[t].row
      IN /\ row \in RowRecord
         /\ row.type = rows[r].type /\ row.item = rows[r].item /\ row.parent = rows[r].parent
         /\ row.attempts = rows[r].attempts
    BY <1>2, StoredRow
<1>4. Made(t, row, <<>>, <<>>, 0)
    BY <1>2
<1> QED
    BY <1>1, <1>3, <1>4, StoredStep

LEMMA SoftTimeLimitStep ==
    ASSUME Typed, NEW t \in Messages, SoftTimeLimit(t)
    PROVE  Proper(t)
<1>1. PICK m : m = msgs[t]
    OBVIOUS
<1>2. m.row \in Rows /\ m \in Message /\ rows \in Seq(RowRecord) /\ msgs \in Seq(Message) /\ Refers(m, rows)
    <2>1. Received(t) \/ msgs[t].pc # "queued"
        BY DEF SoftTimeLimit
    <2> QED
        BY <1>1, <2>1, Delivery DEF MessageFits
<1>3. /\ TableGoesOn /\ IsTable(rows') /\ Grows(rows, rows') /\ DOMAIN rows' = Rows
      /\ rows'[msgs[t].row].status = "FAILED"
      /\ \A o \in Rows \ {msgs[t].row} : rows'[o] = rows[o]
    <2>1. "FAILED" \in Status
        BY DEF Status
    <2> QED
        BY <1>1, <1>2, <2>1, MarkStep DEF SoftTimeLimit
<1>4. IsQueue(msgs, chords, rows') /\ rows' \in Seq(RowRecord)
    BY <1>3, QueueOf
<1>5. IsQueue(Acked(t), chords, rows') /\ Acked(t) \in Seq(Message)
    BY <1>4, AckQueue
<1>6. PICK n : n = Extract(m.row, m.failed)
    OBVIOUS
<1>7. n \in Plain /\ Fresh(n, rows')
    <2>1. Refers(m, rows')
        BY <1>2, <1>3, <1>4, RefersLater
    <2>2. m.row \in 0..Len(rows') /\ m.failed \in 0..Len(rows') /\ Len(rows') \in Nat
        BY <1>4, <2>1 DEF Refers
    <2> QED
        BY <1>6, <2>2, ExtractFresh
<1>8. PICK more : more = <<n>>
    OBVIOUS
<1>9. more \in Seq(Plain) /\ DOMAIN more = {1} /\ more[1] = n
    BY <1>7, <1>8
<1>10. more \in Seq(Message) /\ \A j \in DOMAIN more : MessageFits(more[j], rows') /\ more[j].chord = 0
    BY <1>4, <1>7, <1>9, FreshMessages
<1>11. IsQueue(Acked(t) \o more, chords, rows')
    BY <1>5, <1>10, QueueMore
<1>12. msgs' = Acked(t) \o more /\ UNCHANGED <<chords, world, ended, fed>>
    BY <1>1, <1>5, <1>6, <1>8 DEF SoftTimeLimit
<1>13. QueueGoesOn(t)
    <2>1. Continues(Acked(t), msgs')
        BY <1>5, <1>10, <1>12, MoreContinues
    <2> QED
        BY <1>2, <1>11, <1>12, <2>1, AckedKeeps DEF QueueGoesOn
<1>14. WorldGoesOn
    BY <1>12, Spending, FanOutAssumption DEF SoftTimeLimit, Spend, Typed, Faults
<1>15. HasRead'
    BY <1>2, <1>3, <1>4, <1>12, ReadStays DEF Typed
<1>16. Answered(t)
    BY <1>3, EndedAnswered
<1> QED
    BY <1>3, <1>13, <1>14, <1>15, <1>16 DEF Proper

LEMMA GdacsTargetFits ==
    ASSUME Typed, Gdacs
    PROVE  \A r \in Rows : [q \in Rows |-> GdacsTarget(q)][r] \in Plain /\ Fresh([q \in Rows |-> GdacsTarget(q)][r], rows)
<1>1. rows \in Seq(RowRecord) /\ Len(rows) \in Nat /\ Rows = 1..Len(rows)
    BY DEF Typed, IsTable, Rows
<1>2. ASSUME NEW r \in Rows
      PROVE  GdacsTarget(r) \in Plain /\ Fresh(GdacsTarget(r), rows)
    <2>1. r \in 0..Len(rows) /\ ParentFits(rows, r) /\ rows[r].type \in TypesOf(source)
        BY <1>1 DEF Typed, IsTable, Rows
    <2>2. PICK p : p = rows[r].parent
        OBVIOUS
    <2>3. p \in 0..Len(rows)
        BY <1>1, <2>1, <2>2 DEF ParentFits
    <2>4. CASE rows[r].type \in {"GDACS_QUERY", "GDACS_DETAIL"}
        <3>1. GdacsTarget(r) = Extract(r, r)
            BY <2>4 DEF GdacsTarget
        <3>2. PICK m : m = Extract(r, r)
            OBVIOUS
        <3>3. m \in Plain /\ Fresh(m, rows)
            BY <1>1, <2>1, <3>2, ExtractFresh
        <3> QED
            BY <3>1, <3>2, <3>3
    <2>5. CASE rows[r].type = "EPISODE"
        <3>1. GdacsTarget(r) = Extract(p, r)
            BY <2>2, <2>5 DEF GdacsTarget
        <3>2. PICK m : m = Extract(p, r)
            OBVIOUS
        <3>3. m \in Plain /\ Fresh(m, rows)
            BY <1>1, <2>1, <2>3, <3>2, ExtractFresh
        <3> QED
            BY <3>1, <3>2, <3>3
    <2>6. CASE rows[r].type \in {"GEOMETRY", "IMPACT"}
        <3>1. p # 0 /\ p \in Rows
            BY <1>1, <2>1, <2>2, <2>3, <2>6 DEF ParentFits, ParentType
        <3>2. PICK q : q = rows[p].parent
            OBVIOUS
        <3>3. q \in 0..Len(rows)
            <4>1. ParentFits(rows, p)
                BY <3>1 DEF Typed, IsTable, Rows
            <4> QED
                BY <1>1, <3>1, <3>2, <4>1 DEF ParentFits
        <3>4. GdacsTarget(r) = Extract(q, r)
            BY <2>2, <2>6, <3>2 DEF GdacsTarget
        <3>5. PICK m : m = Extract(q, r)
            OBVIOUS
        <3>6. m \in Plain /\ Fresh(m, rows)
            BY <1>1, <2>1, <3>3, <3>5, ExtractFresh
        <3> QED
            BY <3>4, <3>5, <3>6
    <2> QED
        BY <2>1, <2>4, <2>5, <2>6, GdacsTypes
<1> QED
    BY <1>2

\* A transform that reads what it may.
LEMMA ReadingStep ==
    ASSUME Typed, NEW t \in Messages, NEW read, msgs[t].row \in Rows => read \subseteq Readable,
           RunTransform(t, read)
    PROVE  Proper(t)
<1>1. msgs[t].row \in Rows
    <2>1. msgs[t].kind = "transform" /\ Refers(msgs[t], rows) /\ (msgs[t].row # 0 => msgs[t].row \in Rows)
        BY MessageOf DEF RunTransform, At
    <2> QED
        BY <2>1 DEF Refers
<1> QED
    BY <1>1, RunTransformStep

LEMMA GdacsReadsRows ==
    ASSUME NEW r \in Rows
    PROVE  GdacsReads(r) \subseteq Readable
<1> DEFINE episodes == {e \in Children(r) : Good(e)}
           parts == episodes \cup UNION {NewestGood(e, type) : e \in episodes, type \in {"GEOMETRY", "IMPACT"}}
<1>1. parts \subseteq Rows
    BY DEF Children, NewestGood
<1>2. {c \in parts : rows[c].content # 0} \subseteq Readable
    BY <1>1 DEF Readable
<1> QED
    BY <1>2, OwnReadable DEF GdacsReads

LEMMA FetchGoesWrongStep ==
    ASSUME Typed, NEW t \in Messages, FetchGoesWrong(t)
    PROVE  Proper(t)
BY NoDataStep, FetchFailsStep, OtherErrorStep DEF FetchGoesWrong, RequestError, RateLimited

LEMMA GdacsStepProper ==
    ASSUME Typed, Gdacs, NEW t \in Messages, GdacsStep(t)
    PROVE  Proper(t)
<1>1. CASE Dispatch(t)
    BY <1>1, DispatchStep
<1>2. CASE Finish(t)
    BY <1>2, FinishStep
<1>3. CASE WorkerLost(t)
    BY <1>3, LostStep
<1>4. CASE SoftTimeLimit(t)
    BY <1>4, SoftTimeLimitStep
<1>5. CASE StartWithoutRow(t)
    BY <1>5, StartWithoutRowStep
<1>6. CASE GdacsQuery(t)
    BY <1>6, GdacsQueryStep
<1>7. CASE GdacsDetail(t)
    BY <1>7, GdacsDetailStep
<1>8. CASE GdacsEpisode(t)
    BY <1>8, GdacsEpisodeStep
<1>9. CASE ImpactFails(t)
    BY <1>9, ImpactFailsStep
<1>10. CASE GdacsGeometry(t)
    BY <1>10, FileStep DEF GdacsGeometry, Handles
<1>11. CASE FetchGoesWrong(t)
    BY <1>11, FetchGoesWrongStep
<1>12. CASE RunTransform(t, GdacsReads(msgs[t].row))
    BY <1>12, GdacsReadsRows, ReadingStep
<1> QED
    BY <1>1, <1>2, <1>3, <1>4, <1>5, <1>6, <1>7, <1>8, <1>9, <1>10, <1>11, <1>12 DEF GdacsStep

LEMMA GdacsKeeps ==
    ASSUME Typed, AllAttended, Gdacs, GdacsNext, UNCHANGED source
    PROVE  Typed' /\ AllAttended'
<1>1. CASE \E t \in Messages : GdacsStep(t)
    BY <1>1, GdacsStepProper, ProperKeeps, FanOutAssumption
<1>2. CASE \E status \in {"FAILED", "PENDING"} : Retrigger(status, [r \in Rows |-> GdacsTarget(r)])
    <2>1. PICK target : target = [r \in Rows |-> GdacsTarget(r)]
        OBVIOUS
    <2>2. \A r \in Rows : target[r] \in Plain /\ Fresh(target[r], rows)
        BY <2>1, GdacsTargetFits
    <2>3. PICK status \in {"FAILED", "PENDING"} : Retrigger(status, target)
        BY <1>2, <2>1
    <2> QED
        BY <2>2, <2>3, RetriggerKeeps
<1> QED
    BY <1>1, <1>2 DEF GdacsNext

-----------------------------------------------------------------------------
(* USGS.                                                                     *)

Usgs == source = "USGS"

LEMMA UsgsTypes ==
    ASSUME Usgs
    PROVE  TypesOf(source) = {"USGS_QUERY", "USGS_DETAIL", "LOSSE", "ALERTS"}
BY DEF Usgs, TypesOf

LEMMA UsgsInitKeeps ==
    ASSUME source \in Chosen, Usgs, UsgsInit
    PROVE  Typed /\ AllAttended
<1>1. "query" \in Items /\ "USGS_QUERY" \in TypesOf(source)
    BY UsgsTypes, UsgsAssumption
<1> QED
    BY <1>1, FirstRow, FreeRow DEF UsgsInit

LEMMA UsgsQueryStep ==
    ASSUME Typed, Usgs, NEW t \in Messages, UsgsQuery(t)
    PROVE  Proper(t)
<1>1. PICK r : r = msgs[t].row
    OBVIOUS
<1>2. Received(t) /\ r \in Rows /\ rows \in Seq(RowRecord) /\ Len(rows) \in Nat /\ Rows = 1..Len(rows)
    BY <1>1, Delivery DEF UsgsQuery, Handles, Rows
<1>3. Quakes \in Seq(Items)
    BY UsgsAssumption
<1>4. PICK new : new = [i \in DOMAIN Quakes |-> Row("USGS_DETAIL", Quakes[i], r)]
    OBVIOUS
<1>5. /\ new \in Seq(RowRecord) /\ Len(new) = Len(Quakes) /\ DOMAIN new = DOMAIN Quakes
      /\ \A i \in DOMAIN Quakes :
            /\ new[i] \in RowRecord /\ new[i].type = "USGS_DETAIL" /\ new[i].item = Quakes[i]
            /\ new[i].parent = r /\ Handled(new[i])
    <2>1. "USGS_DETAIL" \in RowTypes /\ r \in Nat
        BY <1>2 DEF RowTypes
    <2> QED
        BY <1>3, <1>4, <2>1, RowsOfList
<1>6. ASSUME NEW i \in DOMAIN new
      PROVE  /\ RowFits(new[i], rows) /\ new[i].type \in TypesOf(source) \ {"EXPOSURE_LIST"}
             /\ Handled(new[i])
    <2>1. new[i].item \in Listing(Quakes)
        BY <1>5 DEF Listing
    <2>2. ItemFits(new[i]) /\ new[i].type \notin DOMAIN ParentType
        BY <1>5, <2>1 DEF ItemFits, ParentType, PagedTypes, Singles
    <2>3. r \in 0..Len(rows)
        BY <1>2
    <2> QED
        BY <1>5, <2>2, <2>3, UsgsTypes DEF RowFits
<1>7. Made(t, Stored(t), new, <<NewGroup(Len(new))>>, 0)
    BY <1>1, <1>4, <1>5 DEF UsgsQuery
<1>8. WorldGoesOn
    BY <1>7, MadeWorld DEF UsgsQuery
<1>9. PICK row : row = Stored(t)
    OBVIOUS
<1>10. LET s == msgs[t].row
       IN /\ row \in RowRecord
          /\ row.type = rows[s].type /\ row.item = rows[s].item /\ row.parent = rows[s].parent
          /\ row.attempts = rows[s].attempts
    BY <1>2, <1>9, StoredRow
<1>11. Made(t, row, new, <<NewGroup(Len(new))>>, 0)
    BY <1>7, <1>9
<1> QED
    BY <1>2, <1>5, <1>6, <1>8, <1>10, <1>11, GroupStep

LEMMA UsgsDetailStep ==
    ASSUME Typed, Usgs, NEW t \in Messages, UsgsDetail(t)
    PROVE  Proper(t)
<1>1. PICK r : r = msgs[t].row
    OBVIOUS
<1>2. /\ Received(t) /\ r \in Rows /\ rows \in Seq(RowRecord) /\ Len(rows) \in Nat /\ Rows = 1..Len(rows)
      /\ rows[r].type = "USGS_DETAIL" /\ rows[r] \in RowRecord /\ UNCHANGED spent
    <2>1. Handles(t, "USGS_DETAIL") /\ UNCHANGED spent
        BY DEF UsgsDetail
    <2> QED
        BY <1>1, <2>1, Delivery DEF Handles, Rows, RowOf
<1>3. rows[msgs[t].row].type \notin NotRead
    BY <1>1, <1>2 DEF NotRead
<1>4. CASE UsgsPartial(t)
    <2>1. PICK first : first = Extract(msgs[t].failed, msgs[t].failed)
        OBVIOUS
    <2>2. Made(t, RowOf(t), <<>>, <<<<first>>, <<Transform(msgs[t].row)>>>>, 0)
        BY <1>4, <2>1 DEF UsgsDetail
    <2>3. msgs[t].failed \in 0..Len(rows)
        BY <1>4, FailedRow DEF UsgsPartial
    <2>4. first \in Plain /\ Fresh(first, rows)
        BY <1>2, <2>1, <2>3, ExtractFresh
    <2> QED
        BY <1>2, <1>3, <2>2, <2>4, AfterOneStep
<1>5. CASE ~UsgsPartial(t)
    <2>1. PICK files : files = Products[rows[r].item]
        OBVIOUS
    <2>2. rows[r].item \in Listing(Quakes)
        BY <1>2 DEF Typed, IsTable, ItemFits, Rows
    <2>3. files \in Seq([type : {"LOSSE", "ALERTS"}, item : Items])
        BY <2>1, <2>2, UsgsAssumption, Zenon
    <2>4. /\ Len(files) \in Nat /\ DOMAIN files = 1..Len(files)
          /\ \A i \in DOMAIN files : files[i].type \in {"LOSSE", "ALERTS"} /\ files[i].item \in Items
        <3>1. PICK Files : Files = [type : {"LOSSE", "ALERTS"}, item : Items]
            OBVIOUS
        <3>2. files \in Seq(Files)
            BY <2>3, <3>1
        <3>3. Len(files) \in Nat /\ DOMAIN files = 1..Len(files) /\ \A i \in DOMAIN files : files[i] \in Files
            BY <3>2
        <3>4. ASSUME NEW f \in Files PROVE f.type \in {"LOSSE", "ALERTS"} /\ f.item \in Items
            BY <3>1
        <3> QED
            BY <3>3, <3>4
    <2>5. PICK new : new = [i \in DOMAIN files |-> Row(files[i].type, files[i].item, r)]
        OBVIOUS
    <2>6. ASSUME NEW i \in DOMAIN files
          PROVE  /\ new[i] \in RowRecord /\ new[i].type \in {"LOSSE", "ALERTS"} /\ new[i].parent = r
                 /\ Handled(new[i])
        <3>1. new[i] = Row(files[i].type, files[i].item, r)
            BY <2>5
        <3>2. files[i].type \in RowTypes /\ r \in Nat
            BY <1>2, <2>4 DEF RowTypes
        <3> QED
            BY <2>4, <3>1, <3>2, RowNew
    <2>7. new \in Seq(RowRecord) /\ Len(new) = Len(files) /\ DOMAIN new = DOMAIN files
        <3>1. new \in [1..Len(files) -> RowRecord]
            BY <2>4, <2>5, <2>6
        <3> QED
            BY <2>4, <3>1
    <2>8. ASSUME NEW i \in DOMAIN new
          PROVE  /\ RowFits(new[i], rows) /\ new[i].type \in TypesOf(source) \ {"EXPOSURE_LIST"}
                 /\ Handled(new[i])
        <3>1. ItemFits(new[i])
            BY <2>6, <2>7 DEF ItemFits, PagedTypes, Singles
        <3>2. r \in 0..Len(rows) /\ r # 0 /\ ParentType["LOSSE"] = "USGS_DETAIL" /\ ParentType["ALERTS"] = "USGS_DETAIL"
            BY <1>2 DEF ParentType
        <3> QED
            BY <1>2, <2>6, <2>7, <3>1, <3>2, UsgsTypes DEF RowFits
    <2>9. PICK g : g = NewGroup(Len(files))
        OBVIOUS
    <2>10. /\ g \in Seq(Plain)
           /\ \A table \in Seq(RowRecord) :
                Len(table) = Len(rows) + Len(files) => \A j \in DOMAIN g : Fresh(g[j], table)
        BY <1>2, <2>4, <2>9, GroupOfNew
    <2>11. \A table \in Seq(RowRecord) :
                (Grows(rows, table) /\ Len(table) = Len(rows) + Len(new)) => \A j \in DOMAIN g : Fresh(g[j], table)
        BY <2>7, <2>10
    <2>12. Made(t, Stored(t), new, <<g, <<Transform(msgs[t].row)>>>>, 0)
        BY <1>1, <1>5, <2>1, <2>5, <2>9 DEF UsgsDetail, LossChord
    <2>13. WorldGoesOn
        BY <1>2, <2>12, MadeWorld
    <2>14. PICK row : row = Stored(t)
        OBVIOUS
    <2>15. LET s == msgs[t].row
           IN /\ row \in RowRecord
              /\ row.type = rows[s].type /\ row.item = rows[s].item /\ row.parent = rows[s].parent
              /\ row.attempts = rows[s].attempts
        BY <1>2, <2>14, StoredRow
    <2>16. Made(t, row, new, <<g, <<Transform(msgs[t].row)>>>>, 0)
        BY <2>12, <2>14
    <2> QED
        BY <1>2, <1>3, <2>7, <2>8, <2>10, <2>11, <2>13, <2>15, <2>16, ChordStep
<1> QED
    BY <1>4, <1>5

LEMMA UsgsTargetFits ==
    ASSUME Typed
    PROVE  \A r \in Rows : [q \in Rows |-> UsgsTarget(q)][r] \in Plain /\ Fresh([q \in Rows |-> UsgsTarget(q)][r], rows)
<1>1. rows \in Seq(RowRecord) /\ Len(rows) \in Nat /\ Rows = 1..Len(rows)
    BY DEF Typed, IsTable, Rows
<1>2. ASSUME NEW r \in Rows
      PROVE  UsgsTarget(r) \in Plain /\ Fresh(UsgsTarget(r), rows)
    <2>1. PICK p : p = IF rows[r].type \in {"LOSSE", "ALERTS"} THEN rows[r].parent ELSE r
        OBVIOUS
    <2>2. r \in 0..Len(rows) /\ ParentFits(rows, r)
        BY <1>1 DEF Typed, IsTable, Rows
    <2>3. p \in 0..Len(rows)
        BY <1>1, <2>1, <2>2 DEF ParentFits
    <2>4. PICK m : m = Extract(p, r)
        OBVIOUS
    <2>5. m \in Plain /\ Fresh(m, rows)
        BY <1>1, <2>2, <2>3, <2>4, ExtractFresh
    <2> QED
        BY <2>1, <2>4, <2>5 DEF UsgsTarget
<1> QED
    BY <1>2

LEMMA UsgsReadsRows ==
    ASSUME NEW r \in Rows
    PROVE  UsgsReads(r) \subseteq Readable
BY OwnReadable DEF UsgsReads, Children, Good, Readable

LEMMA UsgsStepProper ==
    ASSUME Typed, Usgs, NEW t \in Messages, UsgsStep(t)
    PROVE  Proper(t)
<1>1. CASE Dispatch(t)
    BY <1>1, DispatchStep
<1>2. CASE Finish(t)
    BY <1>2, FinishStep
<1>3. CASE WorkerLost(t)
    BY <1>3, LostStep
<1>4. CASE UsgsQuery(t)
    BY <1>4, UsgsQueryStep
<1>5. CASE UsgsDetail(t)
    BY <1>5, UsgsDetailStep
<1>6. CASE UsgsFile(t)
    BY <1>6, FileStep DEF UsgsFile
<1>7. CASE FetchGoesWrong(t)
    BY <1>7, FetchGoesWrongStep
<1>8. CASE RunTransform(t, UsgsReads(msgs[t].row))
    BY <1>8, UsgsReadsRows, ReadingStep
<1> QED
    BY <1>1, <1>2, <1>3, <1>4, <1>5, <1>6, <1>7, <1>8 DEF UsgsStep

LEMMA UsgsKeeps ==
    ASSUME Typed, AllAttended, Usgs, UsgsNext, UNCHANGED source
    PROVE  Typed' /\ AllAttended'
<1>1. CASE \E t \in Messages : UsgsStep(t)
    BY <1>1, UsgsStepProper, ProperKeeps, FanOutAssumption
<1>2. CASE \E status \in {"FAILED", "PENDING"} : Retrigger(status, [r \in Rows |-> UsgsTarget(r)])
    <2>1. PICK target : target = [r \in Rows |-> UsgsTarget(r)]
        OBVIOUS
    <2>2. \A r \in Rows : target[r] \in Plain /\ Fresh(target[r], rows)
        BY <2>1, UsgsTargetFits
    <2>3. PICK status \in {"FAILED", "PENDING"} : Retrigger(status, target)
        BY <1>2, <2>1
    <2> QED
        BY <2>2, <2>3, RetriggerKeeps
<1> QED
    BY <1>1, <1>2 DEF UsgsNext

-----------------------------------------------------------------------------
(* A response is stored, and the handler goes on later.                       *)

LEMMA HeldStep ==
    ASSUME Typed, NEW t \in Messages, Received(t), NEW r, r = msgs[t].row,
           NEW row \in RowRecord, row.type = rows[r].type, row.item = rows[r].item,
           row.parent = rows[r].parent, row.attempts = rows[r].attempts, row.status = "IN_PROGRESS",
           rows' = [rows EXCEPT ![r] = row],
           NEW m \in Message, m.kind = "extract", m.row = r, m.failed = msgs[t].failed,
           m.value = msgs[t].value, m.retries = msgs[t].retries, m.chord = msgs[t].chord,
           m.pc = "stored", rows[r].type = "HAZARD" => SpecsFit(m.todo, r, rows),
           msgs' = [msgs EXCEPT ![t] = m],
           UNCHANGED <<chords, ended, fed>>, WorldGoesOn
    PROVE  Proper(t)
<1>1. /\ msgs[t] \in Message /\ msgs[t].kind = "extract" /\ MessageFits(msgs[t], rows) /\ r \in Rows
      /\ rows \in Seq(RowRecord) /\ r \in DOMAIN rows /\ IsTable(rows) /\ rows[r] \in RowRecord
    BY Delivery DEF Rows
<1>2. row.attempts >= rows[r].attempts
    BY <1>1 DEF RowRecord
<1>3. /\ IsTable(rows') /\ Grows(rows, rows') /\ DOMAIN rows' = DOMAIN rows
      /\ rows'[r] = row /\ \A o \in DOMAIN rows \ {r} : rows'[o] = rows[o]
    <2>1. PICK later : later = [rows EXCEPT ![r] = row]
        OBVIOUS
    <2>2. /\ IsTable(later) /\ Grows(rows, later) /\ DOMAIN later = DOMAIN rows
          /\ later[r] = row /\ \A o \in DOMAIN rows \ {r} : later[o] = rows[o]
        BY <1>1, <1>2, <2>1, RowChanged
    <2> QED
        BY <2>1, <2>2
<1>4. rows' \in Seq(RowRecord)
    BY <1>3 DEF IsTable
<1>5. TableGoesOn
    BY <1>3 DEF TableGoesOn, Typed, Rows
<1>6. MessageFits(msgs[t], rows') /\ IsQueue(msgs, chords, rows')
    BY <1>1, <1>3, <1>4, MessageLater, QueueOf
<1>7. MessageFits(m, rows')
    <2>1. Refers(m, rows')
        BY <1>6 DEF MessageFits, Refers
    <2>2. rows'[r].type = "HAZARD" => SpecsFit(m.todo, r, rows')
        BY <1>1, <1>3, <1>4, SpecsLater
    <2>3. r # 0
        BY <1>1
    <2> QED
        BY <1>6, <2>1, <2>2, <2>3 DEF MessageFits
<1>8. IsQueue(msgs', chords', rows') /\ Keeps(t) /\ t \in DOMAIN msgs' /\ msgs'[t] = m
    BY <1>6, <1>7, OneMessageKeeps
<1>9. Attended(r)'
    <2>1. InCharge(t, r)'
        BY <1>3, <1>8 DEF InCharge
    <2> QED
        BY <1>8, <2>1 DEF Attended, Messages
<1>10. Answered(t)
    <2>1. \A o \in Rows \ {r} : rows'[o].status = rows[o].status
        BY <1>3 DEF Rows
    <2>2. \A o \in DOMAIN rows' \ Rows : Handled(rows'[o])
        BY <1>3 DEF Rows
    <2> QED
        BY <1>9, <2>1, <2>2, OneRow
<1>11. HasRead'
    BY <1>1, <1>3, <1>4, ReadStays DEF Typed
<1> QED
    BY <1>5, <1>8, <1>10, <1>11 DEF Proper, QueueGoesOn

-----------------------------------------------------------------------------
(* PDC: the pages.                                                           *)

Pdc == source = "PDC"

LEMMA PdcTypes ==
    ASSUME Pdc
    PROVE  TypesOf(source) = {"HAZARD", "POLYGON", "EXPOSURE_LIST", "EXPOSURE_DETAIL"}
BY DEF Pdc, TypesOf, PdcChildTypes

LEMMA PdcInitKeeps ==
    ASSUME source \in Chosen, Pdc, PdcInit
    PROVE  Typed /\ AllAttended
<1>1. PICK page : page = Pages[1]
    OBVIOUS
<1>2. page \in Items /\ page \in Listing(Pages)
    <2>1. Pages \in Seq(Items) /\ Pages # <<>>
        BY PdcAssumption
    <2>2. 1 \in DOMAIN Pages
        BY <2>1
    <2> QED
        BY <1>1, <2>1, <2>2 DEF Listing
<1>3. "HAZARD" \in TypesOf(source) /\ "HAZARD" \in RowTypes /\ "HAZARD" \notin DOMAIN ParentType
    BY PdcTypes DEF RowTypes, ParentType
<1>4. ItemFits(Row("HAZARD", page, 0))
    <2>1. PICK row : row = Row("HAZARD", page, 0)
        OBVIOUS
    <2>2. row.type = "HAZARD" /\ row.item = page
        BY <1>2, <1>3, <2>1, RowNew
    <2> QED
        BY <1>2, <2>1, <2>2 DEF ItemFits, PagedTypes, Singles
<1>5. InitRows(<<Row("HAZARD", page, 0)>>)
    BY <1>1 DEF PdcInit
<1> QED
    BY <1>2, <1>3, <1>4, <1>5, FirstRow

\* The polygons and lists that a page needs, those of them that are missing.
LEMMA PagePartsFit ==
    ASSUME NEW r \in Nat, rows[r].item \in Listing(Pages)
    PROVE  /\ PageParts(r) \in Seq(SpecRecord)
           /\ \A i \in DOMAIN PageParts(r) :
                /\ PageParts(r)[i].parent = r /\ PageParts(r)[i].type \in {"POLYGON", "EXPOSURE_LIST"}
                /\ PageParts(r)[i].item \in Listing(Hazards[rows[r].item])
           /\ \A h \in Listing(Hazards[rows[r].item]), type \in {"POLYGON", "EXPOSURE_LIST"} :
                \E i \in DOMAIN PageParts(r) : PageParts(r)[i] = Spec2(type, h, r)
<1>1. PICK hazards : hazards = Hazards[rows[r].item]
    OBVIOUS
<1>2. hazards \in Seq(Items) /\ Len(hazards) \in Nat /\ DOMAIN hazards = 1..Len(hazards)
    BY <1>1, PdcAssumption
<1>3. PICK n : n = 2 * Len(hazards)
    OBVIOUS
<1>4. n \in Nat
    BY <1>2, <1>3
<1>5. PageParts(r) =
        [i \in 1..n |-> Spec2(IF i % 2 = 1 THEN "POLYGON" ELSE "EXPOSURE_LIST", hazards[(i + 1) \div 2], r)]
    BY <1>1, <1>3 DEF PageParts
<1>6. ASSUME NEW i \in 1..n
      PROVE  (i + 1) \div 2 \in DOMAIN hazards
    BY <1>2, <1>3, <1>6
<1>7. ASSUME NEW i \in 1..n
      PROVE  /\ PageParts(r)[i] \in SpecRecord
             /\ PageParts(r)[i].parent = r /\ PageParts(r)[i].type \in {"POLYGON", "EXPOSURE_LIST"}
             /\ PageParts(r)[i].item \in Listing(hazards)
    <2>1. PICK h : h = hazards[(i + 1) \div 2]
        OBVIOUS
    <2>2. PICK type : type = IF i % 2 = 1 THEN "POLYGON" ELSE "EXPOSURE_LIST"
        OBVIOUS
    <2>3. PageParts(r)[i] = Spec2(type, h, r)
        BY <1>5, <2>1, <2>2
    <2>4. type \in {"POLYGON", "EXPOSURE_LIST"} /\ type \in RowTypes
        BY <2>2 DEF RowTypes, PdcChildTypes
    <2>5. h \in Items /\ h \in Listing(hazards)
        BY <1>2, <1>6, <2>1 DEF Listing
    <2> QED
        BY <2>3, <2>4, <2>5 DEF Spec2, SpecRecord
<1>8. PageParts(r) \in Seq(SpecRecord) /\ DOMAIN PageParts(r) = 1..n
    <2>1. DOMAIN PageParts(r) = 1..n /\ PageParts(r) = [i \in 1..n |-> PageParts(r)[i]]
        BY <1>5
    <2>2. PageParts(r) \in [1..n -> SpecRecord]
        BY <1>7, <2>1
    <2> QED
        BY <1>4, <2>1, <2>2
<1>9. ASSUME NEW h \in Listing(hazards), NEW type \in {"POLYGON", "EXPOSURE_LIST"}
      PROVE  \E i \in 1..n : PageParts(r)[i] = Spec2(type, h, r)
    <2>1. PICK k \in 1..Len(hazards) : h = hazards[k]
        BY <1>2 DEF Listing
    <2>2. CASE type = "POLYGON"
        <3>1. PICK i : i = 2 * k - 1
            OBVIOUS
        <3>2. i \in 1..n /\ i % 2 = 1 /\ (i + 1) \div 2 = k
            BY <1>2, <1>3, <3>1
        <3> QED
            BY <1>5, <2>1, <2>2, <3>2
    <2>3. CASE type = "EXPOSURE_LIST"
        <3>1. PICK i : i = 2 * k
            OBVIOUS
        <3>2. i \in 1..n /\ i % 2 = 0 /\ (i + 1) \div 2 = k
            BY <1>2, <1>3, <3>1
        <3> QED
            BY <1>5, <2>1, <2>3, <3>2
    <2> QED
        BY <2>2, <2>3
<1> QED
    BY <1>1, <1>7, <1>8, <1>9

\* What is missing is made once, and what is not missing is there.
AreMissing(missing, parts) ==
    /\ missing \in Seq(SpecRecord)
    /\ \A i \in DOMAIN missing : \E p \in DOMAIN parts : missing[i] = parts[p]
    /\ \A p \in DOMAIN parts :
            \/ Existing(rows, parts[p].parent, parts[p].type, parts[p].item) # {}
            \/ \E i \in DOMAIN missing : missing[i] = parts[p]
    /\ \A i \in DOMAIN missing :
            Existing(rows, missing[i].parent, missing[i].type, missing[i].item) = {}
    /\ \A i, j \in DOMAIN missing : missing[i] = missing[j] => i = j

LEMMA MissingFits ==
    ASSUME NEW parts \in Seq(SpecRecord)
    PROVE  AreMissing(Missing(parts), parts)
<1>1. PICK places : places = {i \in DOMAIN parts :
                        /\ Existing(rows, parts[i].parent, parts[i].type, parts[i].item) = {}
                        /\ \A j \in 1..(i - 1) : parts[j] # parts[i]}
    OBVIOUS
<1>2. PICK missing : missing = Missing(parts)
    OBVIOUS
<1>3. missing = Only(parts, places)
    BY <1>1, <1>2 DEF Missing
<1>4. places \in SUBSET (DOMAIN parts) /\ DOMAIN parts = 1..Len(parts) /\ Len(parts) \in Nat
    BY <1>1
<1>5. /\ missing \in Seq(SpecRecord)
      /\ \A i \in DOMAIN missing : \E p \in places : missing[i] = parts[p]
      /\ \A p \in places : \E i \in DOMAIN missing : missing[i] = parts[p]
    BY <1>3, <1>4, OnlyLists
<1>6. ASSUME NEW p \in DOMAIN parts, Existing(rows, parts[p].parent, parts[p].type, parts[p].item) = {}
      PROVE  \E i \in DOMAIN missing : missing[i] = parts[p]
    <2>1. PICK same : same = {q \in 1..Len(parts) : parts[q] = parts[p]}
        OBVIOUS
    <2>2. same \subseteq 0..Len(parts) /\ same # {}
        BY <1>4, <2>1
    <2>3. PICK q \in same : \A o \in same : q <= o
        BY <1>4, <2>2, LeastOf
    <2>4. q \in 1..Len(parts) /\ parts[q] = parts[p]
        BY <2>1, <2>3
    <2>5. \A j \in 1..(q - 1) : parts[j] # parts[q]
        BY <1>4, <2>1, <2>3, <2>4
    <2>6. q \in places
        BY <1>1, <1>4, <1>6, <2>4, <2>5
    <2> QED
        BY <1>5, <2>4, <2>6
<1>7. ASSUME NEW p \in places, NEW q \in places, parts[p] = parts[q] PROVE p = q
    BY <1>1, <1>4, <1>7
<1>8. \A i, j \in DOMAIN missing : missing[i] = missing[j] => i = j
    BY <1>3, <1>4, <1>7, OnlyOnce
<1>9. \A i \in DOMAIN missing : Existing(rows, missing[i].parent, missing[i].type, missing[i].item) = {}
    BY <1>1, <1>5
<1>10. missing \in Seq(SpecRecord) /\ \A i \in DOMAIN missing : \E p \in DOMAIN parts : missing[i] = parts[p]
    BY <1>4, <1>5
<1>11. \A p \in DOMAIN parts :
            \/ Existing(rows, parts[p].parent, parts[p].type, parts[p].item) # {}
            \/ \E i \in DOMAIN missing : missing[i] = parts[p]
    BY <1>6
<1> QED
    BY <1>2, <1>8, <1>9, <1>10, <1>11 DEF AreMissing

LEMMA SpecsOfPage ==
    ASSUME NEW r \in Nat, rows[r].item \in Listing(Pages)
    PROVE  SpecsFit(Missing(PageParts(r)), r, rows)
<1>1. PICK parts : parts = PageParts(r)
    OBVIOUS
<1>2. /\ parts \in Seq(SpecRecord)
      /\ \A i \in DOMAIN parts :
            /\ parts[i].parent = r /\ parts[i].type \in {"POLYGON", "EXPOSURE_LIST"}
            /\ parts[i].item \in Listing(Hazards[rows[r].item])
      /\ \A h \in Listing(Hazards[rows[r].item]), type \in {"POLYGON", "EXPOSURE_LIST"} :
            \E i \in DOMAIN parts : parts[i] = Spec2(type, h, r)
    BY <1>1, PagePartsFit
<1>3. PICK specs : specs = Missing(parts)
    OBVIOUS
<1>4. /\ specs \in Seq(SpecRecord)
      /\ \A i \in DOMAIN specs : \E p \in DOMAIN parts : specs[i] = parts[p]
      /\ \A p \in DOMAIN parts :
            \/ Existing(rows, parts[p].parent, parts[p].type, parts[p].item) # {}
            \/ \E i \in DOMAIN specs : specs[i] = parts[p]
    <2>1. AreMissing(specs, parts)
        BY <1>2, <1>3, MissingFits
    <2> QED
        BY <2>1 DEF AreMissing
<1>5. ASSUME NEW h \in Listing(Hazards[rows[r].item]), NEW type \in {"POLYGON", "EXPOSURE_LIST"}
      PROVE  Existing(rows, r, type, h) # {} \/ \E i \in DOMAIN specs : specs[i] = Spec2(type, h, r)
    <2>1. PICK p \in DOMAIN parts : parts[p] = Spec2(type, h, r)
        BY <1>2
    <2>2. parts[p].type = type /\ parts[p].item = h /\ parts[p].parent = r
        BY <2>1 DEF Spec2
    <2> QED
        BY <1>4, <2>1, <2>2
<1>6. \A i \in DOMAIN specs :
            /\ specs[i].parent = r /\ specs[i].type \in {"POLYGON", "EXPOSURE_LIST"}
            /\ specs[i].item \in Listing(Hazards[rows[r].item])
    BY <1>2, <1>4
<1> QED
    BY <1>1, <1>3, <1>4, <1>5, <1>6 DEF SpecsFit

LEMMA PdcHazardFetchedStep ==
    ASSUME Typed, NEW t \in Messages, PdcHazardFetched(t)
    PROVE  Proper(t)
<1>1. PICK r : r = msgs[t].row
    OBVIOUS
<1>2. /\ Received(t) /\ r \in Rows /\ rows \in Seq(RowRecord) /\ IsTable(rows) /\ rows[r].type = "HAZARD"
      /\ rows[r] \in RowRecord /\ msgs[t] \in Message /\ msgs[t].kind = "extract" /\ r \in DOMAIN rows
      /\ msgs \in Seq(Message) /\ t \in DOMAIN msgs
    BY <1>1, Delivery DEF PdcHazardFetched, Handles, RowOf, Rows
<1>3. PICK x : x = world[RowOf(t).item].content
    OBVIOUS
<1>4. x \in Content
    <2>1. RowOf(t).item \in Items
        BY <1>1, <1>2 DEF RowOf, RowRecord
    <2>2. x \in 1..(MaxFaults + 1)
        BY <1>3, <2>1, WorldOf, FanOutAssumption DEF Typed
    <2> QED
        BY <2>2, FanOutAssumption DEF Content
<1>5. PICK begun : begun = Started(t)
    OBVIOUS
<1>6. /\ begun[r] \in RowRecord /\ begun[r].status = "IN_PROGRESS" /\ Grows(rows, begun)
      /\ DOMAIN begun = DOMAIN rows /\ IsTable(begun)
      /\ begun[r].attempts = rows[r].attempts
      /\ begun = [rows EXCEPT ![r] = begun[r]]
    <2>1. "IN_PROGRESS" \in Status
        BY DEF Status
    <2>2. /\ begun[r] \in RowRecord /\ begun[r].status = "IN_PROGRESS" /\ Grows(rows, begun)
          /\ DOMAIN begun = DOMAIN rows /\ IsTable(begun)
        BY <1>1, <1>2, <1>5, <2>1, MarkedRow DEF Started, SetStatus
    <2>3. begun[r].attempts = rows[r].attempts /\ begun = [rows EXCEPT ![r] = begun[r]]
        BY <1>1, <1>2, <1>5 DEF Started, SetStatus, Mark, RowRecord
    <2> QED
        BY <2>2, <2>3
<1>7. PICK row : row = [begun[r] EXCEPT !.content = x]
    OBVIOUS
<1>8. row \in RowRecord
    BY <1>4, <1>6, <1>7 DEF RowRecord
<1>9. /\ row.type = rows[r].type /\ row.item = rows[r].item /\ row.parent = rows[r].parent
      /\ row.attempts = rows[r].attempts /\ row.status = "IN_PROGRESS"
    BY <1>2, <1>6, <1>7 DEF RowRecord, Grows
<1>10. rows' = [rows EXCEPT ![r] = row]
    <2>1. rows' = [begun EXCEPT ![r] = row]
        BY <1>1, <1>2, <1>3, <1>5, <1>6, <1>7 DEF PdcHazardFetched
    <2> QED
        BY <1>6, <2>1
<1>11. PICK specs : specs = Missing(PageParts(r))
    OBVIOUS
<1>12. SpecsFit(specs, r, rows) /\ specs \in Seq(SpecRecord)
    <2>1. r \in Nat /\ rows[r].item \in Listing(Pages)
        BY <1>2 DEF IsTable, ItemFits
    <2> QED
        BY <1>11, <2>1, SpecsOfPage DEF SpecsFit
<1>13. PICK m1 : m1 = [msgs[t] EXCEPT !.pc = "stored"]
    OBVIOUS
<1>14. m1 \in Message
    BY <1>2, <1>13 DEF Message, MessageWith, Places
<1>15. PICK m : m = [m1 EXCEPT !.todo = specs]
    OBVIOUS
<1>16. m \in Message
    BY <1>12, <1>14, <1>15 DEF Message, MessageWith
<1>17. /\ m.kind = "extract" /\ m.row = r /\ m.failed = msgs[t].failed /\ m.value = msgs[t].value
       /\ m.retries = msgs[t].retries /\ m.chord = msgs[t].chord /\ m.pc = "stored" /\ m.todo = specs
    BY <1>1, <1>2, <1>13, <1>14, <1>15 DEF Message, MessageWith
<1>18. msgs' = [msgs EXCEPT ![t] = m]
    BY <1>1, <1>2, <1>11, <1>13, <1>15 DEF PdcHazardFetched
<1>19. UNCHANGED <<chords, ended, fed>> /\ WorldGoesOn
    BY WorldStays DEF PdcHazardFetched, Typed
<1>20. rows[r].type = "HAZARD" => SpecsFit(m.todo, r, rows)
    BY <1>12, <1>17
<1> QED
    BY <1>1, <1>2, <1>8, <1>9, <1>10, <1>16, <1>17, <1>18, <1>19, <1>20, HeldStep

\* Messages that run the rows of a list.
LEMMA GroupOfRows ==
    ASSUME NEW table \in Seq(RowRecord), NEW open \in Seq(DOMAIN table),
           NEW g, g = [i \in DOMAIN open |-> Extract(open[i], 0)]
    PROVE  g \in Seq(Plain) /\ \A j \in DOMAIN g : Fresh(g[j], table)
<1>1. Len(table) \in Nat /\ DOMAIN table = 1..Len(table) /\ 0 \in 0..Len(table)
    OBVIOUS
<1>2. Len(open) \in Nat /\ DOMAIN open = 1..Len(open) /\ \A i \in DOMAIN open : open[i] \in 1..Len(table)
    BY <1>1
<1>3. ASSUME NEW i \in DOMAIN open
      PROVE  g[i] \in Plain /\ Fresh(g[i], table)
    <2>1. PICK r : r = open[i]
        OBVIOUS
    <2>2. r \in 0..Len(table)
        BY <1>1, <1>2, <2>1
    <2>3. g[i] = Extract(r, 0)
        BY <2>1
    <2>4. PICK m : m = Extract(r, 0)
        OBVIOUS
    <2>5. m \in Plain /\ Fresh(m, table)
        BY <1>1, <2>2, <2>4, ExtractFresh
    <2> QED
        BY <2>3, <2>4, <2>5
<1>4. PICK n : n = Len(open)
    OBVIOUS
<1>5. g \in Seq(Plain) /\ DOMAIN g = DOMAIN open
    <2>1. g = [i \in 1..n |-> g[i]] /\ DOMAIN g = DOMAIN open /\ n \in Nat
        BY <1>2, <1>4
    <2>2. g \in [1..n -> Plain]
        BY <1>2, <1>3, <1>4, <2>1
    <2> QED
        BY <2>1, <2>2
<1> QED
    BY <1>3, <1>5

\* Messages that run the rows of a set, in order.
LEMMA GroupOfSet ==
    ASSUME NEW table \in Seq(RowRecord), NEW ids \in SUBSET (DOMAIN table),
           NEW open, open = InOrder(ids), NEW g, g = [i \in DOMAIN open |-> Extract(open[i], 0)]
    PROVE  g \in Seq(Plain) /\ \A j \in DOMAIN g : Fresh(g[j], table)
<1>1. ids \subseteq 1..Len(table) /\ Len(table) \in Nat
    OBVIOUS
<1>2. open \in Seq(ids)
    BY <1>1, InOrderLists
<1>3. open \in Seq(DOMAIN table)
    BY <1>2
<1> QED
    BY <1>3, GroupOfRows

\* The same for transforms.
LEMMA TransformsOfSet ==
    ASSUME NEW table \in Seq(RowRecord), NEW ids \in SUBSET (DOMAIN table),
           \A d \in ids : table[d].type \notin NotRead,
           NEW open, open = InOrder(ids), NEW g, g = [i \in DOMAIN open |-> Transform(open[i])]
    PROVE  g \in Seq(Plain) /\ \A j \in DOMAIN g : Fresh(g[j], table)
<1>1. Len(table) \in Nat /\ ids \subseteq 1..Len(table)
    OBVIOUS
<1>2. open \in Seq(ids) /\ Cardinality(ids) \in Nat /\ DOMAIN open = 1..Cardinality(ids)
    BY <1>1, InOrderLists
<1>3. ASSUME NEW i \in DOMAIN open
      PROVE  g[i] \in Plain /\ Fresh(g[i], table)
    <2>1. PICK r : r = open[i]
        OBVIOUS
    <2>2. r \in ids /\ r \in 1..Len(table) /\ table[r].type \notin NotRead
        BY <1>1, <1>2, <2>1
    <2>3. g[i] = Transform(r)
        BY <2>1
    <2>4. PICK m : m = Transform(r)
        OBVIOUS
    <2>5. m \in Plain /\ Fresh(m, table)
        BY <1>1, <2>2, <2>4, TransformFresh
    <2> QED
        BY <2>3, <2>4, <2>5
<1>4. PICK n : n = Cardinality(ids)
    OBVIOUS
<1>5. g \in Seq(Plain) /\ DOMAIN g = DOMAIN open
    <2>1. g = [i \in 1..n |-> g[i]] /\ DOMAIN g = DOMAIN open /\ n \in Nat
        BY <1>2, <1>4
    <2>2. g \in [1..n -> Plain]
        BY <1>2, <1>3, <1>4, <2>1
    <2> QED
        BY <2>1, <2>2
<1> QED
    BY <1>3, <1>5

\* A delivery at work adds rows, leaves the others alone, and publishes.
LEMMA GoesOnStep ==
    ASSUME Typed, NEW t \in Messages, msgs[t].pc # "queued", TableGoesOn,
           \A o \in Rows : rows'[o] = rows[o], \A o \in DOMAIN rows' \ Rows : Handled(rows'[o]),
           NEW m \in Message, MessageFits(m, rows'), m.kind = "extract", m.row = msgs[t].row,
           m.chord = msgs[t].chord, m.pc # "queued",
           NEW moved, moved = [msgs EXCEPT ![t] = m],
           NEW more \in Seq(Message), \A j \in DOMAIN more : MessageFits(more[j], rows') /\ more[j].chord = 0,
           msgs' = moved \o more, UNCHANGED <<chords, world, ended, fed, spent>>
    PROVE  Proper(t)
<1>1. PICK r : r = msgs[t].row
    OBVIOUS
<1>2. r \in Rows /\ rows \in Seq(RowRecord) /\ IsTable(rows') /\ Grows(rows, rows')
    BY <1>1, Delivery DEF TableGoesOn
<1>3. IsQueue(msgs, chords, rows') /\ rows' \in Seq(RowRecord)
    BY <1>2, QueueOf
<1>4. /\ IsQueue(moved, chords, rows') /\ moved \in Seq(Message) /\ DOMAIN moved = Messages
      /\ moved[t] = m /\ \A o \in Messages \ {t} : moved[o] = msgs[o]
    BY <1>3, OneMessage
<1>5. IsQueue(moved \o more, chords, rows')
    BY <1>4, QueueMore
<1>6. IsQueue(msgs', chords', rows')
    BY <1>5
<1>7. Continues(moved, msgs')
    <2>1. Continues(moved, moved \o more)
        BY <1>4, MoreContinues
    <2> QED
        BY <2>1
<1>8. Keeps(t)
    BY <1>4, <1>7, MovedKeeps
<1>9. t \in DOMAIN msgs' /\ msgs'[t] = m
    BY <1>4, <1>7 DEF Continues
<1>10. Answered(t)
    <2>1. ASSUME NEW o \in DOMAIN rows', o \notin Rows PROVE Attended(o)'
        BY <2>1 DEF Handled, Attended
    <2>2. ASSUME NEW o \in Rows, o # r PROVE rows'[o].status = rows[o].status /\ ~InCharge(t, o)
        BY <1>1, <2>2 DEF InCharge
    <2>3. rows'[r].status # "ON_RETRY" => Attended(r)'
        <3>1. rows'[r].status # "ON_RETRY" => InCharge(t, r)'
            BY <1>1, <1>9 DEF InCharge
        <3> QED
            BY <1>9, <3>1 DEF Attended, Messages
    <2>4. rows'[r].status = "ON_RETRY" => rows'[r].status = rows[r].status /\ ~InCharge(t, r)
        BY <1>1, <1>2 DEF InCharge
    <2> QED
        BY <1>2, <2>1, <2>2, <2>3, <2>4 DEF Answered
<1>11. HasRead'
    BY <1>2, <1>3, ReadStays DEF Typed
<1>12. WorldGoesOn
    BY WorldStays DEF Typed
<1> QED
    BY <1>6, <1>8, <1>10, <1>11, <1>12 DEF Proper, QueueGoesOn

\* The rows that a page was missing are there.
PageMade(r, made, table) ==
    /\ made \in Seq(RowRecord) /\ IsTable(table) /\ Grows(rows, table) /\ Len(table) = Len(rows) + Len(made)
    /\ \A o \in DOMAIN rows : table[o] = rows[o]
    /\ \A o \in DOMAIN table \ DOMAIN rows : \E i \in DOMAIN made : table[o] = made[i]
    /\ \A i \in DOMAIN made : made[i].type \in {"POLYGON", "EXPOSURE_LIST"} /\ Handled(made[i])
    /\ \A h \in Listing(Hazards[rows[r].item]), type \in {"POLYGON", "EXPOSURE_LIST"} :
            Existing(table, r, type, h) # {}

\* The rows of a page are made.
LEMMA PageRows ==
    ASSUME IsTable(rows), NEW r \in DOMAIN rows, rows[r].type = "HAZARD",
           NEW specs, SpecsFit(specs, r, rows), NEW made, made = NewRows(specs),
           NEW table, table = rows \o made
    PROVE  PageMade(r, made, table)
<1>1. PICK hazards : hazards = Hazards[rows[r].item]
    OBVIOUS
<1>2. /\ rows \in Seq(RowRecord) /\ Len(rows) \in Nat /\ DOMAIN rows = 1..Len(rows)
      /\ rows[r].item \in Listing(Pages)
    BY DEF IsTable, ItemFits
<1>3. /\ specs \in Seq(SpecRecord)
      /\ \A i \in DOMAIN specs :
            /\ specs[i].parent = r /\ specs[i].type \in {"POLYGON", "EXPOSURE_LIST"}
            /\ specs[i].item \in Listing(hazards)
      /\ \A h \in Listing(hazards), type \in {"POLYGON", "EXPOSURE_LIST"} :
            Existing(rows, r, type, h) # {} \/ \E i \in DOMAIN specs : specs[i] = Spec2(type, h, r)
    BY <1>1 DEF SpecsFit
<1>4. Len(specs) \in Nat /\ DOMAIN specs = 1..Len(specs)
    BY <1>3
<1>5. \A i \in DOMAIN specs :
            specs[i].type \in RowTypes /\ specs[i].item \in Items /\ specs[i].parent \in Nat
    <2>1. \A i \in DOMAIN specs : specs[i] \in SpecRecord
        BY <1>3
    <2> QED
        BY <2>1 DEF SpecRecord
<1>6. /\ made \in Seq(RowRecord) /\ Len(made) = Len(specs) /\ DOMAIN made = DOMAIN specs
      /\ \A i \in DOMAIN specs :
            /\ made[i] \in RowRecord
            /\ made[i].type = specs[i].type /\ made[i].item = specs[i].item
            /\ made[i].parent = specs[i].parent /\ Handled(made[i])
    BY <1>4, <1>5, RowsFromSpecs
<1>7. table \in Seq(RowRecord) /\ Len(table) = Len(rows) + Len(made) /\ DOMAIN table = 1..(Len(rows) + Len(made))
      /\ Len(made) \in Nat /\ DOMAIN made = 1..Len(made)
      /\ (\A o \in DOMAIN rows : table[o] = rows[o])
      /\ \A i \in DOMAIN made : table[Len(rows) + i] = made[i]
    <2>1. rows \in Seq(RowRecord) /\ made \in Seq(RowRecord) /\ table = rows \o made
        BY <1>2, <1>6
    <2>2. Len(made) \in Nat /\ DOMAIN made = 1..Len(made)
        BY ONLY <2>1
    <2>3. table \in Seq(RowRecord) /\ Len(table) = Len(rows) + Len(made) /\ DOMAIN table = 1..(Len(rows) + Len(made))
        BY ONLY <2>1
    <2>4. (\A o \in DOMAIN rows : table[o] = rows[o]) /\ \A i \in DOMAIN made : table[Len(rows) + i] = made[i]
        BY ONLY <2>1, <2>2, <1>2
    <2> QED
        BY <2>2, <2>3, <2>4
<1>8. ASSUME NEW h \in Listing(hazards), NEW type \in {"POLYGON", "EXPOSURE_LIST"}
      PROVE  Existing(table, r, type, h) # {}
    <2>1. CASE Existing(rows, r, type, h) # {}
        <3>1. PICK c \in DOMAIN rows : rows[c].parent = r /\ rows[c].type = type /\ rows[c].item = h
            BY <2>1 DEF Existing
        <3>2. c \in DOMAIN table /\ table[c] = rows[c]
            BY <1>2, <1>7, <3>1
        <3> QED
            BY <3>1, <3>2 DEF Existing
    <2>2. CASE \E i \in DOMAIN specs : specs[i] = Spec2(type, h, r)
        <3>1. PICK i \in DOMAIN specs : specs[i] = Spec2(type, h, r)
            BY <2>2
        <3>2. made[i].type = type /\ made[i].item = h /\ made[i].parent = r
            BY <1>6, <3>1 DEF Spec2
        <3>3. PICK c : c = Len(rows) + i
            OBVIOUS
        <3>4. c \in DOMAIN table /\ table[c] = made[i]
            BY <1>2, <1>6, <1>7, <3>1, <3>3
        <3> QED
            BY <3>2, <3>4 DEF Existing
    <2> QED
        BY <1>3, <2>1, <2>2
<1>9. ASSUME NEW i \in DOMAIN made
      PROVE  RowFits(made[i], rows)
    <2>1. /\ made[i] \in RowRecord /\ made[i].type \in {"POLYGON", "EXPOSURE_LIST"} /\ made[i].parent = r
          /\ made[i].item \in Listing(hazards)
        BY <1>3, <1>6
    <2>2. ItemFits(made[i])
        BY <1>1, <1>2, <2>1 DEF ItemFits, PagedTypes, Singles
    <2>3. r \in 0..Len(rows) /\ r # 0 /\ ParentType["POLYGON"] = "HAZARD" /\ ParentType["EXPOSURE_LIST"] = "HAZARD"
        BY <1>2 DEF ParentType
    <2> QED
        BY <2>1, <2>2, <2>3 DEF RowFits
<1>10. \A i \in DOMAIN made :
            /\ RowFits(made[i], rows)
            /\ made[i].type = "EXPOSURE_LIST" =>
                    Existing(rows \o made, made[i].parent, "POLYGON", made[i].item) # {}
    <2>1. \A i \in DOMAIN made : made[i].parent = r /\ made[i].item \in Listing(hazards)
        BY <1>3, <1>6
    <2> QED
        BY <1>8, <1>9, <2>1
<1>11. /\ IsTable(rows \o made) /\ Grows(rows, rows \o made)
       /\ \A o \in DOMAIN (rows \o made) \ DOMAIN rows : \E i \in DOMAIN made : (rows \o made)[o] = made[i]
    <2>1. IsTable(rows) /\ made \in Seq(RowRecord)
        BY <1>6
    <2> QED
        BY ONLY <1>10, <2>1, TableMore
<1>12. \A i \in DOMAIN made : made[i].type \in {"POLYGON", "EXPOSURE_LIST"} /\ Handled(made[i])
    BY <1>3, <1>6
<1> QED
    BY <1>1, <1>6, <1>7, <1>8, <1>11, <1>12 DEF PageMade

\* The pages that are still to get a row.
LEMMA NextPages ==
    ASSUME NEW page, NEW pages, pages \subseteq NextPage(page)
    PROVE  /\ Cardinality(pages) \in {0, 1}
           /\ Cardinality(pages) # 0 => (CHOOSE p \in pages : TRUE) \in Listing(Pages)
<1>1. /\ Pages \in Seq(Items) /\ Len(Pages) \in Nat /\ DOMAIN Pages = 1..Len(Pages)
      /\ \A i, j \in DOMAIN Pages : Pages[i] = Pages[j] => i = j
    BY PdcAssumption
<1>2. \A p \in pages : \E i \in 1..(Len(Pages) - 1) : Pages[i] = page /\ p = Pages[i + 1]
    BY DEF NextPage
<1>3. \A p, q \in pages : p = q
    <2>1. ASSUME NEW p \in pages, NEW q \in pages PROVE p = q
        <3>1. PICK i \in 1..(Len(Pages) - 1) : Pages[i] = page /\ p = Pages[i + 1]
            BY <1>2
        <3>2. PICK j \in 1..(Len(Pages) - 1) : Pages[j] = page /\ q = Pages[j + 1]
            BY <1>2
        <3>3. i = j
            BY <1>1, <3>1, <3>2
        <3> QED
            BY <3>1, <3>2, <3>3
    <2> QED
        BY <2>1
<1>4. CASE pages = {}
    BY <1>4, FS_EmptySet
<1>5. CASE pages # {}
    <2>1. PICK p \in pages : TRUE
        BY <1>5
    <2>2. pages = {p}
        BY <1>3, <2>1
    <2>3. Cardinality(pages) = 1
        BY <2>2, FS_Singleton
    <2>4. PICK i \in 1..(Len(Pages) - 1) : p = Pages[i + 1]
        BY <1>2, <2>1
    <2>5. p \in Listing(Pages)
        BY <1>1, <2>4 DEF Listing
    <2>6. (CHOOSE q \in pages : TRUE) = p
        BY <2>2
    <2> QED
        BY <2>3, <2>5, <2>6
<1> QED
    BY <1>4, <1>5

\* The rows that one page needs are run in two groups.
LEMMA PageChordFits ==
    ASSUME NEW table \in Seq(RowRecord), NEW polygons \in Seq(Plain), NEW lists \in Seq(Plain),
           \A j \in DOMAIN polygons : Fresh(polygons[j], table), \A j \in DOMAIN lists : Fresh(lists[j], table)
    PROVE  PageChord(polygons, lists) \in Groups /\ GroupsFit(PageChord(polygons, lists), table)
<1>1. PICK groups : groups = PageChord(polygons, lists)
    OBVIOUS
<1>2. CASE lists = <<>>
    <2>1. groups = <<>>
        BY <1>1, <1>2 DEF PageChord
    <2> QED
        BY <1>1, <2>1, MessageTypes DEF GroupsFit
<1>3. CASE lists # <<>>
    <2>1. groups = <<polygons, lists>>
        BY <1>1, <1>3 DEF PageChord
    <2>2. <<polygons, lists>> \in Groups
        BY TwoGroups
    <2>3. DOMAIN groups = {1, 2} /\ groups[1] = polygons /\ groups[2] = lists
        BY <2>1
    <2>4. GroupsFit(groups, table)
        BY <2>3 DEF GroupsFit
    <2> QED
        BY <1>1, <2>1, <2>2, <2>4
<1> QED
    BY <1>2, <1>3

\* A group of messages runs those rows of a type that a page has and that are no success.
OpensParts(g, table, r, type, hazards) ==
    /\ g \in Seq(Plain)
    /\ \A j \in DOMAIN g : \E h \in Listing(hazards) :
            LET c == Newest(Existing(table, r, type, h))
            IN g[j] = Extract(c, 0) /\ c \in Existing(table, r, type, h)
    /\ \A h \in Listing(hazards) :
            LET c == Newest(Existing(table, r, type, h))
            IN table[c].status = "SUCCESS" \/ \E j \in DOMAIN g : g[j] = Extract(c, 0)

LEMMA OpenPartsFit ==
    ASSUME NEW table \in Seq(RowRecord), NEW r, NEW type, NEW hazards \in Seq(Items),
           hazards = Hazards[rows[r].item],
           \A h \in Listing(hazards) : Existing(table, r, type, h) # {}
    PROVE  /\ OpensParts(OpenParts(table, r, type), table, r, type, hazards)
           /\ \A j \in DOMAIN OpenParts(table, r, type) : Fresh(OpenParts(table, r, type)[j], table)
<1>1. PICK ids : ids = [i \in DOMAIN hazards |-> Newest(Existing(table, r, type, hazards[i]))]
    OBVIOUS
<1>2. Len(table) \in Nat /\ DOMAIN table = 1..Len(table)
    OBVIOUS
<1>3. ASSUME NEW h \in Listing(hazards)
      PROVE  Newest(Existing(table, r, type, h)) \in Existing(table, r, type, h)
    <2>1. Existing(table, r, type, h) \subseteq 1..Len(table)
        BY <1>2 DEF Existing
    <2> QED
        BY <1>2, <2>1, NewestOfSet
<1>4. ASSUME NEW i \in DOMAIN hazards
      PROVE  ids[i] \in DOMAIN table /\ hazards[i] \in Listing(hazards)
    <2>1. hazards[i] \in Listing(hazards)
        BY DEF Listing
    <2>2. Existing(table, r, type, hazards[i]) \subseteq DOMAIN table
        BY DEF Existing
    <2> QED
        BY <1>1, <1>3, <2>1, <2>2
<1>5. ids \in Seq(DOMAIN table) /\ DOMAIN ids = DOMAIN hazards
    <2>1. DOMAIN hazards = 1..Len(hazards) /\ Len(hazards) \in Nat /\ DOMAIN ids = DOMAIN hazards
        BY <1>1
    <2>2. ids \in [1..Len(hazards) -> DOMAIN table]
        BY <1>1, <1>4, <2>1
    <2> QED
        BY <2>1, <2>2
<1>6. PICK places : places = {i \in DOMAIN ids : table[ids[i]].status # "SUCCESS"}
    OBVIOUS
<1>7. PICK open : open = Only(ids, places)
    OBVIOUS
<1>8. /\ open \in Seq(DOMAIN table)
      /\ \A j \in DOMAIN open : \E i \in places : open[j] = ids[i]
      /\ \A i \in places : \E j \in DOMAIN open : open[j] = ids[i]
    <2>1. places \subseteq DOMAIN ids
        BY <1>6
    <2> QED
        BY <1>5, <1>7, <2>1, OnlyLists
<1>9. PICK g : g = [i \in DOMAIN open |-> Extract(open[i], 0)]
    OBVIOUS
<1>10. g \in Seq(Plain) /\ \A j \in DOMAIN g : Fresh(g[j], table)
    BY <1>8, <1>9, GroupOfRows
<1>11. OpenParts(table, r, type) = g
    BY <1>1, <1>6, <1>7, <1>9 DEF OpenParts
<1>12. DOMAIN g = DOMAIN open /\ \A j \in DOMAIN open : g[j] = Extract(open[j], 0)
    BY <1>9
<1>13. ASSUME NEW j \in DOMAIN g
       PROVE  \E h \in Listing(hazards) :
                    LET c == Newest(Existing(table, r, type, h))
                    IN g[j] = Extract(c, 0) /\ c \in Existing(table, r, type, h)
    <2>1. PICK i \in places : open[j] = ids[i]
        BY <1>8, <1>12
    <2>2. i \in DOMAIN hazards
        BY <1>5, <1>6
    <2> QED
        BY <1>1, <1>3, <1>4, <1>12, <2>1, <2>2
<1>14. ASSUME NEW h \in Listing(hazards)
       PROVE  LET c == Newest(Existing(table, r, type, h))
              IN table[c].status = "SUCCESS" \/ \E j \in DOMAIN g : g[j] = Extract(c, 0)
    <2>1. PICK i \in DOMAIN hazards : h = hazards[i]
        BY DEF Listing
    <2>2. ids[i] = Newest(Existing(table, r, type, h))
        BY <1>1, <2>1
    <2>3. CASE i \in places
        BY <1>8, <1>12, <2>2, <2>3
    <2>4. CASE i \notin places
        BY <1>5, <1>6, <2>2, <2>4
    <2> QED
        BY <2>3, <2>4
<1> QED
    BY <1>10, <1>11, <1>13, <1>14 DEF OpensParts

\* What a page makes: its rows, at most one page more, and the chord of what is open.
PageMakes(t) == 
  \E next \in Seq(RowRecord), m \in Message, polygons \in Seq(Plain), lists \in Seq(Plain) :
    LET r == msgs[t].row
        hazards == Hazards[rows[r].item]
    IN
    /\ msgs[t].kind = "extract" /\ msgs[t].pc = "stored" /\ r \in Rows /\ rows[r].type = "HAZARD"
    /\ Len(next) \in {0, 1} /\ \A i \in DOMAIN next : next[i].type = "HAZARD" /\ next[i].parent = 0
    /\ rows' = (rows \o NewRows(msgs[t].todo)) \o next
    /\ m.kind = "extract" /\ m.row = r /\ m.chord = msgs[t].chord /\ m.next = msgs[t].next
    /\ m.pc = (IF m.todo = <<>> THEN "sent" ELSE "made") /\ m.todo = PageChord(polygons, lists)
    /\ OpensParts(polygons, rows', r, "POLYGON", hazards) /\ OpensParts(lists, rows', r, "EXPOSURE_LIST", hazards)
    /\ msgs' = [msgs EXCEPT ![t] = m] \o [i \in DOMAIN next |-> Extract(Len(rows'), 0)]
    /\ UNCHANGED <<chords, spent>>

LEMMA PdcHazardMadeStep ==
    ASSUME Typed, Pdc, NEW t \in Messages, PdcHazardMade(t)
    PROVE  Proper(t) /\ PageMakes(t)
<1>1. PICK r : r = msgs[t].row
    OBVIOUS
<1>2. /\ r \in DOMAIN rows /\ r \in Rows /\ rows \in Seq(RowRecord) /\ IsTable(rows) /\ rows[r].type = "HAZARD"
      /\ msgs[t] \in Message /\ msgs[t].kind = "extract" /\ msgs[t].pc = "stored" /\ Len(rows) \in Nat
      /\ MessageFits(msgs[t], rows) /\ msgs \in Seq(Message) /\ t \in DOMAIN msgs
    <2>1. msgs[t].pc = "stored" /\ rows[r].type = "HAZARD"
        BY <1>1 DEF PdcHazardMade, At, RowOf
    <2> QED
        BY <1>1, <2>1, Delivery DEF Rows
<1>3. PICK specs : specs = msgs[t].todo
    OBVIOUS
<1>4. SpecsFit(specs, r, rows)
    BY <1>1, <1>2, <1>3 DEF MessageFits
<1>5. PICK pages : pages = {p \in NextPage(rows[r].item) : Existing(rows, r, "HAZARD", p) = {}}
    OBVIOUS
<1>6. PICK n : n = Cardinality(pages)
    OBVIOUS
<1>7. PICK page : page = CHOOSE p \in pages : TRUE
    OBVIOUS
<1>8. n \in {0, 1} /\ (n # 0 => page \in Listing(Pages))
    <2>1. pages \subseteq NextPage(rows[r].item)
        BY <1>5
    <2> QED
        BY <1>6, <1>7, <2>1, NextPages
<1>9. PICK made : made = NewRows(specs)
    OBVIOUS
<1>10. PICK one : one = rows \o made
    OBVIOUS
<1>11. /\ made \in Seq(RowRecord) /\ IsTable(one) /\ Grows(rows, one) /\ Len(one) = Len(rows) + Len(made)
       /\ \A o \in DOMAIN rows : one[o] = rows[o]
       /\ \A o \in DOMAIN one \ DOMAIN rows : \E i \in DOMAIN made : one[o] = made[i]
       /\ \A i \in DOMAIN made : made[i].type \in {"POLYGON", "EXPOSURE_LIST"} /\ Handled(made[i])
       /\ \A h \in Listing(Hazards[rows[r].item]), type \in {"POLYGON", "EXPOSURE_LIST"} :
            Existing(one, r, type, h) # {}
    <2>1. PageMade(r, made, one)
        BY <1>2, <1>4, <1>9, <1>10, PageRows
    <2> QED
        BY <2>1 DEF PageMade
<1>12. PICK next : next = [i \in 1..n |-> Row("HAZARD", page, 0)]
    OBVIOUS
<1>13. ASSUME NEW i \in 1..n
       PROVE  /\ next[i] \in RowRecord /\ RowFits(next[i], one) /\ next[i].type = "HAZARD" /\ Handled(next[i])
    <2>1. page \in Listing(Pages) /\ page \in Items
        <3>1. page \in Listing(Pages)
            BY <1>8
        <3> QED
            BY <3>1, PdcAssumption DEF Listing
    <2>2. "HAZARD" \in RowTypes /\ 0 \in Nat
        BY DEF RowTypes
    <2>3. PICK row : row = Row("HAZARD", page, 0)
        OBVIOUS
    <2>4. row \in RowRecord /\ row.type = "HAZARD" /\ row.item = page /\ row.parent = 0 /\ Handled(row)
        BY <2>1, <2>2, <2>3, RowNew
    <2>5. ItemFits(row) /\ "HAZARD" \notin DOMAIN ParentType
        BY <2>1, <2>4 DEF ItemFits, ParentType, PagedTypes, Singles
    <2>6. one \in Seq(RowRecord)
        BY <1>11 DEF IsTable
    <2>7. 0 \in 0..Len(one)
        BY <2>6
    <2>8. next[i] = row
        BY <1>12, <2>3
    <2> QED
        BY <2>4, <2>5, <2>7, <2>8 DEF RowFits
<1>14. next \in Seq(RowRecord) /\ DOMAIN next = 1..n /\ Len(next) = n
    <2>1. next \in [1..n -> RowRecord]
        BY <1>12, <1>13
    <2> QED
        BY <1>8, <2>1
<1>15. PICK table : table = one \o next
    OBVIOUS
<1>16. /\ IsTable(table) /\ Grows(one, table)
       /\ \A o \in DOMAIN one : table[o] = one[o]
       /\ \A o \in DOMAIN table \ DOMAIN one : \E i \in DOMAIN next : table[o] = next[i]
    <2>1. \A i \in DOMAIN next :
                /\ RowFits(next[i], one)
                /\ next[i].type = "EXPOSURE_LIST" =>
                        Existing(one \o next, next[i].parent, "POLYGON", next[i].item) # {}
        BY <1>13, <1>14
    <2>2. IsTable(one) /\ next \in Seq(RowRecord)
        BY <1>11, <1>14
    <2>3. /\ IsTable(one \o next) /\ Grows(one, one \o next)
          /\ \A o \in DOMAIN one : (one \o next)[o] = one[o]
          /\ \A o \in DOMAIN (one \o next) \ DOMAIN one : \E i \in DOMAIN next : (one \o next)[o] = next[i]
        BY ONLY <2>1, <2>2, TableMore
    <2> QED
        BY <1>15, <2>3
<1>17. /\ one \in Seq(RowRecord) /\ table \in Seq(RowRecord) /\ Len(table) \in Nat /\ Grows(rows, table)
       /\ DOMAIN table = 1..Len(table)
    <2>1. one \in Seq(RowRecord) /\ table \in Seq(RowRecord)
        BY <1>11, <1>16 DEF IsTable
    <2>2. Grows(rows, table)
        BY <1>2, <1>11, <1>16, <2>1, GrowsOn
    <2> QED
        BY <2>1, <2>2
<1>19. ASSUME NEW type \in {"POLYGON", "EXPOSURE_LIST"}
       PROVE  /\ OpensParts(OpenParts(table, r, type), table, r, type, Hazards[rows[r].item])
              /\ \A j \in DOMAIN OpenParts(table, r, type) : Fresh(OpenParts(table, r, type)[j], table)
    <2>1. PICK hazards : hazards = Hazards[rows[r].item]
        OBVIOUS
    <2>2. hazards \in Seq(Items)
        <3>1. rows[r].item \in Listing(Pages)
            BY <1>2 DEF IsTable, ItemFits
        <3> QED
            BY <2>1, <3>1, PdcAssumption
    <2>3. \A h \in Listing(hazards) : Existing(table, r, type, h) # {}
        BY <1>11, <1>16, <1>17, <2>1, ExistingLater
    <2> QED
        BY <1>17, <2>1, <2>2, <2>3, OpenPartsFit
<1>20. table = rows \o NewRows(msgs[t].todo) \o NextRows(r) /\ DOMAIN NextRows(r) = 1..n
    <2>1. NextRows(r) = next
        BY <1>5, <1>6, <1>7, <1>12 DEF NextRows
    <2> QED
        BY <1>3, <1>9, <1>10, <1>14, <1>15, <2>1
<1>21. PICK groups : groups = PageChord(OpenParts(table, r, "POLYGON"), OpenParts(table, r, "EXPOSURE_LIST"))
    OBVIOUS
<1>22. PICK more : more = [i \in 1..n |-> Extract(Len(table), 0)]
    OBVIOUS
<1>23. /\ rows' = table
       /\ msgs' = [msgs EXCEPT ![t].pc = IF groups = <<>> THEN "sent" ELSE "made", ![t].todo = groups] \o more
       /\ UNCHANGED <<chords, world, ended, fed, spent>>
    <2>1. /\ rows' = rows \o NewRows(msgs[t].todo) \o NextRows(r)
          /\ UNCHANGED <<chords, world, ended, fed, spent>>
        BY <1>1 DEF PdcHazardMade
    <2>2. rows' = table
        BY <1>20, <2>1
    <2>3. msgs' = [msgs EXCEPT ![t].pc = IF groups = <<>> THEN "sent" ELSE "made", ![t].todo = groups]
                    \o [i \in DOMAIN NextRows(r) |-> Extract(Len(table), 0)]
        BY <1>1, <1>20, <1>21 DEF PdcHazardMade
    <2> QED
        BY <1>20, <1>22, <2>1, <2>2, <2>3
<1>24. groups \in Groups /\ GroupsFit(groups, table)
    <2>1. OpenParts(table, r, "POLYGON") \in Seq(Plain) /\ OpenParts(table, r, "EXPOSURE_LIST") \in Seq(Plain)
        BY <1>19 DEF OpensParts
    <2> QED
        BY <1>17, <1>19, <1>21, <2>1, PageChordFits
<1>25. PICK place : place = IF groups = <<>> THEN "sent" ELSE "made"
    OBVIOUS
<1>26. PICK m1 : m1 = [msgs[t] EXCEPT !.pc = place]
    OBVIOUS
<1>27. m1 \in Message
    BY <1>2, <1>25, <1>26 DEF Message, MessageWith, Places
<1>28. PICK m : m = [m1 EXCEPT !.todo = groups]
    OBVIOUS
<1>29. m \in Message
    BY <1>24, <1>27, <1>28 DEF Message, MessageWith
<1>30. /\ m.kind = "extract" /\ m.row = r /\ m.failed = msgs[t].failed /\ m.value = msgs[t].value
       /\ m.retries = msgs[t].retries /\ m.chord = msgs[t].chord /\ m.pc = place /\ m.todo = groups
    BY <1>1, <1>2, <1>26, <1>27, <1>28 DEF Message, MessageWith
<1>31. MessageFits(m, table)
    <2>1. MessageFits(msgs[t], table)
        BY <1>2, <1>17, MessageLater
    <2>2. r # 0
        BY <1>2
    <2> QED
        BY <1>1, <1>24, <1>25, <1>30, <2>1, <2>2 DEF MessageFits, Refers
<1>32. PICK moved : moved = [msgs EXCEPT ![t] = m]
    OBVIOUS
<1>33. msgs' = moved \o more
    <2>1. moved = [msgs EXCEPT ![t].pc = place, ![t].todo = groups]
        BY <1>2, <1>26, <1>28, <1>32
    <2> QED
        BY <1>23, <1>25, <2>1
<1>34. more \in Seq(Message) /\ \A j \in DOMAIN more : MessageFits(more[j], table) /\ more[j].chord = 0
    <2>1. PICK e : e = Extract(Len(table), 0)
        OBVIOUS
    <2>2. e \in Plain /\ Fresh(e, table)
        <3>1. Len(table) \in 0..Len(table) /\ 0 \in 0..Len(table)
            BY <1>17
        <3> QED
            BY <1>17, <2>1, <3>1, ExtractFresh
    <2>3. DOMAIN more = 1..n /\ \A i \in 1..n : more[i] = e
        BY <1>22, <2>1
    <2>4. more \in Seq(Plain)
        <3>1. more \in [1..n -> Plain]
            BY <1>22, <2>1, <2>2
        <3> QED
            BY <1>8, <3>1
    <2>5. \A j \in DOMAIN more : Fresh(more[j], table)
        BY <2>2, <2>3
    <2> QED
        BY <1>17, <2>4, <2>5, FreshMessages
<1>35. TableGoesOn
    <2>1. ASSUME NEW o \in DOMAIN table PROVE table[o].type \in TypesOf(source)
        <3>1. CASE o \in DOMAIN rows
            <4>1. o \in DOMAIN one /\ table[o] = rows[o]
                BY <1>2, <1>11, <1>16, <1>17, <3>1 DEF Grows
            <4> QED
                BY <3>1, <4>1 DEF Typed, Rows
        <3>2. CASE o \in DOMAIN one \ DOMAIN rows
            BY <1>11, <1>16, <3>2, PdcTypes
        <3>3. CASE o \notin DOMAIN one
            BY <1>13, <1>14, <1>16, <3>3, PdcTypes
        <3> QED
            BY <3>1, <3>2, <3>3
    <2> QED
        BY <1>16, <1>17, <1>23, <2>1 DEF TableGoesOn
<1>36. \A o \in Rows : rows'[o] = rows[o]
    BY <1>2, <1>11, <1>16, <1>17, <1>23 DEF Rows, Grows
<1>37. \A o \in DOMAIN rows' \ Rows : Handled(rows'[o])
    <2>1. ASSUME NEW o \in DOMAIN table, o \notin DOMAIN rows PROVE Handled(table[o])
        <3>1. CASE o \in DOMAIN one
            BY <1>11, <1>16, <2>1, <3>1
        <3>2. CASE o \notin DOMAIN one
            BY <1>13, <1>14, <1>16, <3>2
        <3> QED
            BY <3>1, <3>2
    <2> QED
        BY <1>23, <2>1 DEF Rows
<1>38. MessageFits(m, rows') /\ (\A j \in DOMAIN more : MessageFits(more[j], rows') /\ more[j].chord = 0)
    BY <1>23, <1>31, <1>34
<1>39. msgs[t].pc # "queued" /\ m.pc # "queued"
    BY <1>2, <1>25, <1>30
<1>40. Proper(t)
    BY <1>1, <1>23, <1>29, <1>30, <1>32, <1>33, <1>34, <1>35, <1>36, <1>37, <1>38, <1>39, GoesOnStep
<1>41. PageMakes(t)
    <2>1. Len(next) \in {0, 1} /\ \A i \in DOMAIN next : next[i].type = "HAZARD" /\ next[i].parent = 0
        BY <1>8, <1>12, <1>14 DEF Row
    <2>2. /\ m.chord = msgs[t].chord /\ m.next = msgs[t].next
          /\ m.pc = IF m.todo = <<>> THEN "sent" ELSE "made"
        BY <1>2, <1>25, <1>26, <1>27, <1>28, <1>30 DEF Message, MessageWith
    <2>3. rows' = (rows \o NewRows(msgs[t].todo)) \o next
        BY <1>3, <1>9, <1>10, <1>15, <1>23
    <2>4. msgs' = [msgs EXCEPT ![t] = m] \o [i \in DOMAIN next |-> Extract(Len(rows'), 0)]
        BY <1>14, <1>22, <1>23, <1>32, <1>33
    <2>5. PICK polygons, lists : polygons = OpenParts(table, r, "POLYGON") /\ lists = OpenParts(table, r, "EXPOSURE_LIST")
        OBVIOUS
    <2>6. /\ OpensParts(polygons, rows', r, "POLYGON", Hazards[rows[r].item])
          /\ OpensParts(lists, rows', r, "EXPOSURE_LIST", Hazards[rows[r].item])
        BY <1>19, <1>23, <2>5
    <2>7. m.todo = PageChord(polygons, lists)
        BY <1>21, <1>30, <2>5
    <2>8. polygons \in Seq(Plain) /\ lists \in Seq(Plain)
        BY <2>6 DEF OpensParts
    <2> QED
        BY <1>1, <1>2, <1>14, <1>23, <1>29, <1>30, <2>1, <2>2, <2>3, <2>4, <2>6, <2>7, <2>8 DEF PageMakes
<1> QED
    BY <1>40, <1>41

-----------------------------------------------------------------------------
(* PDC: the batches, the transforms and the retrigger.                        *)

\* A message that is no extraction ends rows, and is followed by others.
LEMMA AckedStep ==
    ASSUME Typed, NEW t \in Messages, msgs[t].kind # "extract", TableGoesOn, DOMAIN rows' = Rows,
           \A o \in Rows : rows'[o].status = rows[o].status \/ rows'[o].status \in {"SUCCESS", "FAILED"},
           NEW more \in Seq(Plain), \A j \in DOMAIN more : Fresh(more[j], rows'),
           msgs' = Acked(t) \o more, UNCHANGED chords, HasRead', WorldGoesOn
    PROVE  Proper(t)
<1>1. IsQueue(msgs, chords, rows') /\ rows' \in Seq(RowRecord)
    BY QueueOf DEF TableGoesOn
<1>2. /\ IsQueue(Acked(t), chords, rows') /\ Acked(t) \in Seq(Message)
      /\ msgs \in Seq(Message)
    BY <1>1, AckQueue DEF IsQueue
<1>3. more \in Seq(Message) /\ \A j \in DOMAIN more : MessageFits(more[j], rows') /\ more[j].chord = 0
    BY <1>1, FreshMessages
<1>4. IsQueue(Acked(t) \o more, chords, rows')
    BY <1>2, <1>3, QueueMore
<1>5. IsQueue(msgs', chords', rows')
    BY <1>4
<1>6. Continues(Acked(t), msgs')
    <2>1. Continues(Acked(t), Acked(t) \o more)
        BY <1>2, <1>3, MoreContinues
    <2> QED
        BY <2>1
<1>7. Keeps(t)
    BY <1>2, <1>6, AckedKeeps
<1>8. Answered(t)
    BY DEF Answered, InCharge, Attended
<1> QED
    BY <1>5, <1>7, <1>8 DEF Proper, QueueGoesOn

LEMMA PdcTargetFits ==
    ASSUME Typed
    PROVE  \A r \in Rows : [q \in Rows |-> PdcTarget(q)][r] \in Plain /\ Fresh([q \in Rows |-> PdcTarget(q)][r], rows)
<1>1. rows \in Seq(RowRecord) /\ Len(rows) \in Nat /\ Rows = 1..Len(rows)
    BY DEF Typed, IsTable, Rows
<1>2. ASSUME NEW r \in Rows
      PROVE  PdcTarget(r) \in Plain /\ Fresh(PdcTarget(r), rows)
    <2>1. PICK p : p = IF rows[r].type \in {"POLYGON", "EXPOSURE_DETAIL"} THEN rows[r].parent ELSE r
        OBVIOUS
    <2>2. r \in 0..Len(rows) /\ ParentFits(rows, r)
        BY <1>1 DEF Typed, IsTable, Rows
    <2>3. p \in 0..Len(rows)
        BY <1>1, <2>1, <2>2 DEF ParentFits
    <2>4. PICK m : m = Extract(p, r)
        OBVIOUS
    <2>5. m \in Plain /\ Fresh(m, rows)
        BY <1>1, <2>2, <2>3, <2>4, ExtractFresh
    <2> QED
        BY <2>1, <2>4, <2>5 DEF PdcTarget
<1> QED
    BY <1>2

\* The list of a detail has a polygon.
LEMMA PdcReadsRows ==
    ASSUME Typed, Pdc, NEW r \in Rows, rows[r].type \notin NotRead
    PROVE  PdcReads(r) \subseteq Readable
<1>1. rows \in Seq(RowRecord) /\ Len(rows) \in Nat /\ Rows = 1..Len(rows)
      /\ \A o \in Rows : rows[o] \in RowRecord /\ ParentFits(rows, o)
    BY DEF Typed, IsTable, Rows
<1>2. rows[r].type = "EXPOSURE_DETAIL"
    BY PdcTypes DEF Typed, NotRead
<1>3. PICK list : list = rows[r].parent
    OBVIOUS
<1>4. list \in Rows /\ rows[list].type = "EXPOSURE_LIST"
    <2>1. list \in 0..(r - 1) /\ list # 0 /\ rows[list].type = "EXPOSURE_LIST"
        BY <1>1, <1>2, <1>3 DEF ParentFits, ParentType
    <2> QED
        BY <1>1, <2>1
<1>5. PICK S : S = Existing(rows, rows[list].parent, "POLYGON", rows[list].item)
    OBVIOUS
<1>6. S # {} /\ S \subseteq 1..Len(rows)
    BY <1>1, <1>4, <1>5 DEF ParentFits, Existing
<1>7. Newest(S) \in Rows
    BY <1>1, <1>6, NewestOfSet
<1>8. PolygonOf(r) \in Rows
    BY <1>3, <1>5, <1>7 DEF PolygonOf
<1>9. Good(PolygonOf(r)) => {PolygonOf(r)} \subseteq Readable
    BY <1>8 DEF Good, Readable
<1> QED
    BY <1>9, OwnReadable DEF PdcReads

LEMMA PdcTransformStep ==
    ASSUME Typed, Pdc, NEW t \in Messages, RunTransform(t, PdcReads(msgs[t].row))
    PROVE  Proper(t)
<1>1. msgs[t].kind = "transform" /\ Refers(msgs[t], rows)
    BY MessageOf DEF RunTransform, At
<1>2. rows[msgs[t].row].type \notin NotRead
    BY <1>1 DEF Refers
<1> QED
    BY <1>2, PdcReadsRows, ReadingStep

LEMMA PdcTriggerStep ==
    ASSUME Typed, Pdc, NEW t \in Messages, PdcTrigger(t)
    PROVE  Proper(t)
<1>1. PICK ids : ids = {d \in ended : rows[d].status = "SUCCESS" /\ ~Reads(d)}
    OBVIOUS
<1>2. PICK again : again = InOrder(ids)
    OBVIOUS
<1>3. PICK more : more = [i \in DOMAIN again |-> Transform(again[i])]
    OBVIOUS
<1>4. /\ msgs' = Acked(t) \o more /\ UNCHANGED <<rows, chords, world, ended, fed, spent>>
      /\ msgs[t].kind = "trigger"
    BY <1>1, <1>2, <1>3 DEF PdcTrigger, At
<1>5. TableGoesOn /\ rows \in Seq(RowRecord) /\ rows' \in Seq(RowRecord) /\ Grows(rows, rows')
    BY <1>4, RowsStay
<1>6. more \in Seq(Plain) /\ \A j \in DOMAIN more : Fresh(more[j], rows)
    <2>1. ids \in SUBSET (DOMAIN rows) /\ \A d \in ids : rows[d].type \notin NotRead
        BY <1>1 DEF Typed, HasRead, Rows
    <2> QED
        BY <1>2, <1>3, <1>5, <2>1, TransformsOfSet
<1>7. \A j \in DOMAIN more : Fresh(more[j], rows')
    BY <1>4, <1>6
<1>8. HasRead' /\ WorldGoesOn
    BY <1>4, <1>5, ReadStays, WorldStays DEF Typed
<1>9. DOMAIN rows' = Rows
    BY <1>4 DEF Rows
<1> QED
    BY <1>4, <1>5, <1>6, <1>7, <1>8, <1>9, AckedStep

\* The rows of a batch, when it ends them.
BatchEnds(fetched, later) ==
    /\ DOMAIN later = Rows /\ later = [d \in Rows |-> later[d]]
    /\ \A d \in Rows \ fetched : later[d] = rows[d]
    /\ \A d \in fetched :
        /\ later[d] \in RowRecord /\ later[d].status \in {"SUCCESS", "FAILED"}
        /\ later[d].type = rows[d].type /\ later[d].item = rows[d].item
        /\ later[d].parent = rows[d].parent /\ later[d].attempts = rows[d].attempts

LEMMA BatchTable ==
    ASSUME Typed, NEW fetched \in SUBSET Rows, BatchEnds(fetched, rows')
    PROVE  /\ TableGoesOn /\ rows' \in Seq(RowRecord) /\ Grows(rows, rows')
           /\ \A o \in Rows : rows'[o].status = rows[o].status \/ rows'[o].status \in {"SUCCESS", "FAILED"}
<1>1. IsTable(rows) /\ rows \in Seq(RowRecord) /\ Len(rows) \in Nat /\ Rows = 1..Len(rows) /\ DOMAIN rows = Rows
    BY DEF Typed, IsTable, Rows
<1>2. \A o \in Rows : rows[o] \in RowRecord
    BY <1>1
<1>3. ASSUME NEW o \in Rows
      PROVE  /\ rows'[o] \in RowRecord
             /\ rows'[o].type = rows[o].type /\ rows'[o].item = rows[o].item /\ rows'[o].parent = rows[o].parent
             /\ rows'[o].attempts = rows[o].attempts /\ rows[o].attempts \in Nat
             /\ (rows'[o].status = rows[o].status \/ rows'[o].status \in {"SUCCESS", "FAILED"})
    <2>1. rows[o].attempts \in Nat
        BY <1>2 DEF RowRecord
    <2> QED
        BY <1>2, <2>1 DEF BatchEnds
<1>4. rows' \in Seq(RowRecord) /\ Len(rows') = Len(rows)
    <2>1. rows' = [o \in Rows |-> rows'[o]]
        BY DEF BatchEnds
    <2>2. rows' \in [1..Len(rows) -> RowRecord]
        BY <1>1, <1>3, <2>1
    <2> QED
        BY <1>1, <2>2
<1>5. Grows(rows, rows')
    <2>1. \A o \in Rows : rows'[o].attempts >= rows[o].attempts
        BY <1>3
    <2> QED
        BY <1>1, <1>3, <1>4, <2>1 DEF Grows
<1>6. IsTable(rows')
    <2>1. DOMAIN rows' \ DOMAIN rows = {}
        BY <1>1 DEF BatchEnds
    <2> QED
        BY <1>1, <1>4, <1>5, <2>1, TableLater
<1>7. TableGoesOn
    BY <1>1, <1>3, <1>5, <1>6 DEF TableGoesOn, Typed, BatchEnds
<1> QED
    BY <1>3, <1>4, <1>5, <1>7

LEMMA PdcBatchStep ==
    ASSUME Typed, Pdc, NEW t \in Messages, PdcBatch(t)
    PROVE  Proper(t)
<1>1. PICK fetched : fetched = {d \in Listing(msgs[t].todo) : rows[d].status # "SUCCESS"}
    OBVIOUS
<1>2. PICK open : open = InOrder(fetched)
    OBVIOUS
<1>3. /\ msgs[t].kind = "batch" /\ UNCHANGED <<chords, world, ended, fed>>
      /\ \/ /\ rows' = [d \in Rows |-> IF d \notin fetched THEN rows[d]
                            ELSE [rows[d] EXCEPT !.status = "SUCCESS", !.content = world[rows[d].item].content]]
            /\ msgs' = Acked(t) \o [i \in DOMAIN open |-> Transform(open[i])]
            /\ UNCHANGED spent
         \/ /\ Error /\ fetched # {}
            /\ rows' = [d \in Rows |-> IF d \notin fetched THEN rows[d]
                            ELSE [rows[d] EXCEPT !.status = "FAILED"]]
            /\ msgs' = Acked(t)
    BY <1>1, <1>2 DEF PdcBatch, At
<1>4. rows \in Seq(RowRecord) /\ DOMAIN rows = Rows /\ Refers(msgs[t], rows) /\ IsQueue(msgs, chords, rows)
    BY MessageOf DEF Rows
<1>5. fetched \in SUBSET Rows /\ \A d \in fetched : rows[d].type = "EXPOSURE_DETAIL"
    <2>1. PICK todo : todo = msgs[t].todo
        OBVIOUS
    <2>2. todo \in Seq(Details(rows))
        BY <1>3, <1>4, <2>1 DEF Refers
    <2>3. \A i \in DOMAIN todo : todo[i] \in Details(rows)
        BY <2>2
    <2>4. \A d \in fetched : d \in Details(rows)
        BY <1>1, <2>1, <2>3 DEF Listing
    <2> QED
        BY <1>4, <2>4 DEF Details
<1>6. \A d \in Rows : rows[d] \in RowRecord
    BY <1>4
<1>7. CASE /\ rows' = [d \in Rows |-> IF d \notin fetched THEN rows[d]
                            ELSE [rows[d] EXCEPT !.status = "SUCCESS", !.content = world[rows[d].item].content]]
           /\ msgs' = Acked(t) \o [i \in DOMAIN open |-> Transform(open[i])]
           /\ UNCHANGED spent
    <2>1. BatchEnds(fetched, rows')
        <3>1. ASSUME NEW d \in fetched
              PROVE  /\ rows'[d] \in RowRecord /\ rows'[d].status \in {"SUCCESS", "FAILED"}
                     /\ rows'[d].type = rows[d].type /\ rows'[d].item = rows[d].item
                     /\ rows'[d].parent = rows[d].parent /\ rows'[d].attempts = rows[d].attempts
            <4>1. PICK content : content = world[rows[d].item].content
                OBVIOUS
            <4>2. rows[d] \in RowRecord
                BY <1>5, <1>6
            <4>3. rows[d].item \in Items
                BY <4>2 DEF RowRecord
            <4>4. content \in 1..(MaxFaults + 1)
                BY <4>1, <4>3, WorldOf, FanOutAssumption DEF Typed
            <4>5. content \in Content
                BY <4>4, FanOutAssumption DEF Content
            <4>6. PICK one : one = [rows[d] EXCEPT !.status = "SUCCESS"]
                OBVIOUS
            <4>7. PICK row : row = [one EXCEPT !.content = content]
                OBVIOUS
            <4>8. rows'[d] = row
                BY <1>5, <1>7, <4>1, <4>6, <4>7
            <4>9. one \in RowRecord /\ one.status = "SUCCESS" /\ one.type = rows[d].type /\ one.item = rows[d].item
                  /\ one.parent = rows[d].parent /\ one.attempts = rows[d].attempts
                BY <4>2, <4>6 DEF RowRecord, Status
            <4> QED
                BY <4>5, <4>7, <4>8, <4>9 DEF RowRecord
        <3>2. DOMAIN rows' = Rows /\ rows' = [d \in Rows |-> rows'[d]]
            BY <1>7
        <3>3. \A d \in Rows \ fetched : rows'[d] = rows[d]
            BY <1>7
        <3> QED
            BY <3>1, <3>2, <3>3 DEF BatchEnds
    <2>2. /\ TableGoesOn /\ rows' \in Seq(RowRecord) /\ Grows(rows, rows')
          /\ \A o \in Rows : rows'[o].status = rows[o].status \/ rows'[o].status \in {"SUCCESS", "FAILED"}
        BY <1>5, <2>1, BatchTable
    <2>3. DOMAIN rows' = Rows /\ \A d \in fetched : rows'[d].type = "EXPOSURE_DETAIL"
        BY <1>5, <2>1 DEF BatchEnds
    <2>4. PICK more : more = [i \in DOMAIN open |-> Transform(open[i])]
        OBVIOUS
    <2>5. more \in Seq(Plain) /\ \A j \in DOMAIN more : Fresh(more[j], rows')
        <3>1. PICK table : table = rows'
            OBVIOUS
        <3>2. table \in Seq(RowRecord) /\ fetched \in SUBSET (DOMAIN table) /\ \A d \in fetched : table[d].type \notin NotRead
            BY <1>5, <2>2, <2>3, <3>1 DEF NotRead
        <3>3. more \in Seq(Plain) /\ \A j \in DOMAIN more : Fresh(more[j], table)
            BY <1>2, <2>4, <3>2, TransformsOfSet
        <3> QED
            BY <3>1, <3>3
    <2>6. HasRead' /\ WorldGoesOn
        BY <1>3, <1>4, <1>7, <2>2, ReadStays, WorldStays DEF Typed
    <2>7. msgs' = Acked(t) \o more /\ UNCHANGED chords /\ msgs[t].kind # "extract"
        BY <1>3, <1>7, <2>4
    <2> QED
        BY <2>2, <2>3, <2>5, <2>6, <2>7, AckedStep
<1>8. CASE /\ Error /\ fetched # {}
           /\ rows' = [d \in Rows |-> IF d \notin fetched THEN rows[d]
                            ELSE [rows[d] EXCEPT !.status = "FAILED"]]
           /\ msgs' = Acked(t)
    <2>1. BatchEnds(fetched, rows')
        <3>1. ASSUME NEW d \in fetched
              PROVE  /\ rows'[d] \in RowRecord /\ rows'[d].status \in {"SUCCESS", "FAILED"}
                     /\ rows'[d].type = rows[d].type /\ rows'[d].item = rows[d].item
                     /\ rows'[d].parent = rows[d].parent /\ rows'[d].attempts = rows[d].attempts
            <4>1. rows[d] \in RowRecord
                BY <1>5, <1>6
            <4>2. rows'[d] = [rows[d] EXCEPT !.status = "FAILED"]
                BY <1>5, <1>8
            <4> QED
                BY <4>1, <4>2 DEF RowRecord, Status
        <3>2. DOMAIN rows' = Rows /\ rows' = [d \in Rows |-> rows'[d]]
            BY <1>8
        <3>3. \A d \in Rows \ fetched : rows'[d] = rows[d]
            BY <1>8
        <3> QED
            BY <3>1, <3>2, <3>3 DEF BatchEnds
    <2>2. /\ TableGoesOn /\ rows' \in Seq(RowRecord) /\ Grows(rows, rows')
          /\ \A o \in Rows : rows'[o].status = rows[o].status \/ rows'[o].status \in {"SUCCESS", "FAILED"}
        BY <1>5, <2>1, BatchTable
    <2>3. DOMAIN rows' = Rows
        BY <2>1 DEF BatchEnds
    <2>4. PICK more : more = <<>>
        OBVIOUS
    <2>5. more \in Seq(Plain) /\ \A j \in DOMAIN more : Fresh(more[j], rows')
        BY <2>4
    <2>6. HasRead'
        BY <1>3, <1>4, <2>2, ReadStays DEF Typed
    <2>7. WorldGoesOn
        BY <1>3, <1>8, Spending, FanOutAssumption DEF Error, Spend, Faults, Typed
    <2>8. msgs' = Acked(t) \o more
        <3>1. Acked(t) \in Seq(Message)
            BY <1>4, AckQueue
        <3> QED
            BY <1>8, <2>4, <3>1
    <2> QED
        BY <1>3, <2>2, <2>3, <2>5, <2>6, <2>7, <2>8, AckedStep
<1> QED
    BY <1>3, <1>7, <1>8

\* Retriggers are counted, and are no faults.
LEMMA CountsRetrigger ==
    ASSUME IsWorld, UNCHANGED world,
           \E how \in {"retriggers", "sweeps"} : spent' = [spent EXCEPT ![how] = @ + 1]
    PROVE  WorldGoesOn
<1>1. PICK how \in {"retriggers", "sweeps"} : spent' = [spent EXCEPT ![how] = @ + 1]
    OBVIOUS
<1>2. /\ spent'.errors = spent.errors /\ spent'.unknown = spent.unknown /\ spent'.empty = spent.empty
      /\ spent'.timeouts = spent.timeouts /\ spent'.losses = spent.losses
      /\ spent'.changes = spent.changes /\ spent.losses \in Nat
      /\ spent' \in [Faults \cup {"retriggers", "sweeps"} -> Nat]
    BY <1>1 DEF IsWorld, Faults
<1> QED
    BY <1>2 DEF WorldGoesOn, IsWorld, Used

LEMMA FailedOfFits ==
    ASSUME rows \in Seq(RowRecord), NEW type
    PROVE  FailedOf(type) \in Seq(Plain) /\ \A j \in DOMAIN FailedOf(type) : Fresh(FailedOf(type)[j], rows)
<1>1. PICK ids : ids = {r \in Rows : rows[r].status = "FAILED" /\ rows[r].type = type}
    OBVIOUS
<1>2. ids \in SUBSET (DOMAIN rows)
    BY <1>1 DEF Rows
<1>3. PICK open : open = InOrder(ids)
    OBVIOUS
<1>4. PICK g : g = [i \in DOMAIN open |-> Extract(open[i], 0)]
    OBVIOUS
<1>5. g \in Seq(Plain) /\ \A j \in DOMAIN g : Fresh(g[j], rows)
    BY <1>2, <1>3, <1>4, GroupOfSet
<1>6. FailedOf(type) = g
    BY <1>1, <1>3, <1>4 DEF FailedOf
<1> QED
    BY <1>5, <1>6

LEMMA PdcPipelineRetriggerKeeps ==
    ASSUME Typed, AllAttended, Pdc, PdcPipelineRetrigger, UNCHANGED source
    PROVE  Typed' /\ AllAttended'
<1>1. IsTable(rows) /\ rows \in Seq(RowRecord) /\ Len(rows) \in Nat
    BY DEF Typed, IsTable
<1>2. PICK trigger : trigger = [Extract(0, 0) EXCEPT !.kind = "trigger"]
    OBVIOUS
<1>3. trigger \in Plain /\ Fresh(trigger, rows)
    <2>1. 0 \in 0..Len(rows)
        BY <1>1
    <2>2. PICK e : e = Extract(0, 0)
        OBVIOUS
    <2>3. e \in Plain /\ Fresh(e, rows)
        BY <1>1, <2>1, <2>2, ExtractFresh
    <2>4. trigger = [e EXCEPT !.kind = "trigger"]
        BY <1>2, <2>2
    <2>5. trigger \in Plain
        BY <2>3, <2>4 DEF Plain, MessageWith, Kinds
    <2>6. /\ trigger.kind = "trigger" /\ trigger.row = e.row /\ trigger.failed = e.failed /\ trigger.value = e.value
          /\ trigger.pc = e.pc /\ trigger.retries = e.retries /\ trigger.chord = e.chord
        BY <2>3, <2>4 DEF Plain, MessageWith
    <2>7. Fresh(trigger, rows)
        BY <2>3, <2>6 DEF Fresh, Refers
    <2> QED
        BY <2>5, <2>7
<1>4. PICK a : a = FailedOf("HAZARD")
    OBVIOUS
<1>5. PICK b : b = FailedOf("POLYGON")
    OBVIOUS
<1>6. PICK c : c = FailedOf("EXPOSURE_LIST")
    OBVIOUS
<1>7. PICK d : d = FailedOf("EXPOSURE_DETAIL")
    OBVIOUS
<1>8. PICK e : e = <<trigger>>
    OBVIOUS
<1>9. /\ a \in Seq(Plain) /\ b \in Seq(Plain) /\ c \in Seq(Plain) /\ d \in Seq(Plain)
      /\ \A j \in DOMAIN a : Fresh(a[j], rows)
      /\ \A j \in DOMAIN b : Fresh(b[j], rows)
      /\ \A j \in DOMAIN c : Fresh(c[j], rows)
      /\ \A j \in DOMAIN d : Fresh(d[j], rows)
    BY <1>1, <1>4, <1>5, <1>6, <1>7, FailedOfFits
<1>10. e \in Seq(Plain) /\ \A j \in DOMAIN e : Fresh(e[j], rows)
    BY <1>3, <1>8
<1>11. PICK groups : groups = <<a, b, c, d, e>>
    OBVIOUS
<1>12. groups = RetriggerStages(FailedOf("HAZARD"), FailedOf("POLYGON"), FailedOf("EXPOSURE_LIST"),
                                FailedOf("EXPOSURE_DETAIL"), <<[Extract(0, 0) EXCEPT !.kind = "trigger"]>>)
    BY <1>2, <1>4, <1>5, <1>6, <1>7, <1>8, <1>11 DEF RetriggerStages
<1>13. groups \in Groups
    <2>1. <<a, b, c, d, e>> \in Seq(Seq(Plain))
        BY <1>9, <1>10
    <2> QED
        BY <1>11, <2>1 DEF Groups
<1>14. GroupsFit(groups, rows)
    <2>1. DOMAIN groups = 1..5 /\ groups[1] = a /\ groups[2] = b /\ groups[3] = c /\ groups[4] = d /\ groups[5] = e
        BY <1>11
    <2>2. \A i \in 1..5 : i = 1 \/ i = 2 \/ i = 3 \/ i = 4 \/ i = 5
        OBVIOUS
    <2> QED
        BY <1>9, <1>10, <2>1, <2>2 DEF GroupsFit
<1>15. /\ msgs' = Published(msgs, chords, groups).msgs /\ chords' = Published(msgs, chords, groups).chords
       /\ Quiet /\ UNCHANGED <<rows, world, ended, fed>>
       /\ \E how \in {"retriggers", "sweeps"} : spent' = [spent EXCEPT ![how] = @ + 1]
    BY <1>12 DEF PdcPipelineRetrigger, Publish, Retriggered
<1>16. IsQueue(msgs', chords', rows')
    <2>1. IsQueue(msgs, chords, rows)
        BY DEF Typed
    <2>2. IsQueue(Published(msgs, chords, groups).msgs, Published(msgs, chords, groups).chords, rows)
        BY <1>1, <1>13, <1>14, <2>1, PublishedQueue, FanOutAssumption
    <2> QED
        BY <1>15, <2>2
<1>17. TableGoesOn /\ rows \in Seq(RowRecord) /\ rows' \in Seq(RowRecord) /\ Grows(rows, rows')
    BY <1>15, RowsStay
<1>18. WorldGoesOn
    BY <1>15, CountsRetrigger DEF Typed
<1>19. HasRead'
    BY <1>15, <1>17, ReadStays DEF Typed
<1>20. \A o \in DOMAIN rows' : (o \in Rows /\ rows'[o].status = rows[o].status) \/ Handled(rows'[o])
    BY <1>15 DEF Rows
<1> QED
    BY <1>15, <1>16, <1>17, <1>18, <1>19, <1>20, QuietKeeps

-----------------------------------------------------------------------------
(* PDC: the lists.                                                           *)

\* What a list needs, and the details that it has or gets.
LEMMA ListParts ==
    ASSUME NEW r \in Nat, NEW item, Exposures[item] \in Seq(Items), NEW parts,
           parts = [i \in DOMAIN Exposures[item] |-> Spec2("EXPOSURE_DETAIL", Exposures[item][i], r)]
    PROVE  /\ parts \in Seq(SpecRecord)
           /\ \A i \in DOMAIN parts : parts[i].parent = r /\ parts[i].type = "EXPOSURE_DETAIL" /\ parts[i].item \in Items
<1>1. PICK exposures : exposures = Exposures[item]
    OBVIOUS
<1>2. exposures \in Seq(Items) /\ Len(exposures) \in Nat /\ DOMAIN exposures = 1..Len(exposures)
    BY <1>1
<1>3. PICK n : n = Len(exposures)
    OBVIOUS
<1>4. parts = [i \in 1..n |-> Spec2("EXPOSURE_DETAIL", exposures[i], r)] /\ n \in Nat
    BY <1>1, <1>2, <1>3
<1>5. ASSUME NEW i \in 1..n
      PROVE  /\ parts[i] \in SpecRecord
             /\ parts[i].parent = r /\ parts[i].type = "EXPOSURE_DETAIL" /\ parts[i].item \in Items
    <2>1. PICK h : h = exposures[i]
        OBVIOUS
    <2>2. parts[i] = Spec2("EXPOSURE_DETAIL", h, r)
        BY <1>4, <2>1
    <2>3. h \in Items /\ "EXPOSURE_DETAIL" \in RowTypes
        BY <1>2, <1>3, <2>1 DEF RowTypes, PdcChildTypes
    <2> QED
        BY <2>2, <2>3 DEF Spec2, SpecRecord
<1>6. parts \in Seq(SpecRecord) /\ DOMAIN parts = 1..n
    <2>1. DOMAIN parts = 1..n /\ parts = [i \in 1..n |-> parts[i]]
        BY <1>4
    <2>2. parts \in [1..n -> SpecRecord]
        BY <1>5, <2>1
    <2> QED
        BY <1>4, <2>1, <2>2
<1> QED
    BY <1>5, <1>6

\* The rows that a list was missing are details, and all of its details are there.
ListMade(r, parts, made, table) ==
    /\ made \in Seq(RowRecord) /\ IsTable(table) /\ table \in Seq(RowRecord) /\ Len(table) = Len(rows) + Len(made)
    /\ Grows(rows, table) /\ \A i \in DOMAIN made : table[Len(rows) + i] = made[i]
    /\ \A i \in DOMAIN made : RowFits(made[i], rows) /\ made[i].type = "EXPOSURE_DETAIL" /\ Handled(made[i])
    /\ \A p \in DOMAIN parts : Existing(table, r, "EXPOSURE_DETAIL", parts[p].item) # {}

LEMMA ListRows ==
    ASSUME IsTable(rows), NEW r \in DOMAIN rows, rows[r].type = "EXPOSURE_LIST", NEW parts \in Seq(SpecRecord),
           \A i \in DOMAIN parts : parts[i].parent = r /\ parts[i].type = "EXPOSURE_DETAIL" /\ parts[i].item \in Items,
           NEW made, made = NewRows(Missing(parts)), NEW table, table = rows \o made
    PROVE  ListMade(r, parts, made, table)
<1>1. /\ rows \in Seq(RowRecord) /\ Len(rows) \in Nat /\ DOMAIN rows = 1..Len(rows)
    BY DEF IsTable
<1>2. PICK specs : specs = Missing(parts)
    OBVIOUS
<1>3. /\ specs \in Seq(SpecRecord)
      /\ \A i \in DOMAIN specs : \E p \in DOMAIN parts : specs[i] = parts[p]
      /\ \A p \in DOMAIN parts :
            \/ Existing(rows, parts[p].parent, parts[p].type, parts[p].item) # {}
            \/ \E i \in DOMAIN specs : specs[i] = parts[p]
    BY <1>2, MissingFits DEF AreMissing
<1>4. Len(specs) \in Nat /\ DOMAIN specs = 1..Len(specs)
    BY <1>3
<1>5. \A i \in DOMAIN specs :
            specs[i].type \in RowTypes /\ specs[i].item \in Items /\ specs[i].parent \in Nat
    <2>1. \A i \in DOMAIN specs : specs[i] \in SpecRecord
        BY <1>3
    <2> QED
        BY <2>1 DEF SpecRecord
<1>6. /\ made \in Seq(RowRecord) /\ Len(made) = Len(specs) /\ DOMAIN made = DOMAIN specs
      /\ \A i \in DOMAIN specs :
            /\ made[i] \in RowRecord
            /\ made[i].type = specs[i].type /\ made[i].item = specs[i].item
            /\ made[i].parent = specs[i].parent /\ Handled(made[i])
    BY <1>2, <1>4, <1>5, RowsFromSpecs
<1>7. ASSUME NEW i \in DOMAIN made
      PROVE  /\ RowFits(made[i], rows) /\ made[i].type = "EXPOSURE_DETAIL" /\ Handled(made[i])
    <2>1. /\ made[i] \in RowRecord /\ made[i].type = "EXPOSURE_DETAIL" /\ made[i].parent = r /\ Handled(made[i])
        BY <1>3, <1>6
    <2>2. ItemFits(made[i])
        BY <2>1 DEF ItemFits, PagedTypes, Singles
    <2>3. r \in 0..Len(rows) /\ r # 0 /\ ParentType["EXPOSURE_DETAIL"] = "EXPOSURE_LIST"
        BY <1>1 DEF ParentType
    <2> QED
        BY <2>1, <2>2, <2>3 DEF RowFits
<1>8. /\ IsTable(rows \o made) /\ Grows(rows, rows \o made) /\ Len(rows \o made) = Len(rows) + Len(made)
      /\ \A o \in DOMAIN rows : (rows \o made)[o] = rows[o]
      /\ \A i \in DOMAIN made : (rows \o made)[Len(rows) + i] = made[i]
    <2>1. \A i \in DOMAIN made :
                /\ RowFits(made[i], rows)
                /\ made[i].type = "EXPOSURE_LIST" =>
                        Existing(rows \o made, made[i].parent, "POLYGON", made[i].item) # {}
        BY <1>7
    <2>2. IsTable(rows) /\ made \in Seq(RowRecord)
        BY <1>6
    <2> QED
        BY ONLY <2>1, <2>2, TableMore
<1>9. /\ IsTable(table) /\ table \in Seq(RowRecord) /\ Grows(rows, table) /\ Len(table) = Len(rows) + Len(made)
      /\ \A o \in DOMAIN rows : table[o] = rows[o]
      /\ \A i \in DOMAIN made : table[Len(rows) + i] = made[i]
    BY <1>8 DEF IsTable
<1>10. ASSUME NEW p \in DOMAIN parts
       PROVE  Existing(table, r, "EXPOSURE_DETAIL", parts[p].item) # {}
    <2>1. parts[p].parent = r /\ parts[p].type = "EXPOSURE_DETAIL"
        OBVIOUS
    <2>2. CASE Existing(rows, r, "EXPOSURE_DETAIL", parts[p].item) # {}
        BY <1>1, <1>9, <2>2, ExistingLater
    <2>3. CASE \E i \in DOMAIN specs : specs[i] = parts[p]
        <3>1. PICK i \in DOMAIN specs : specs[i] = parts[p]
            BY <2>3
        <3>2. made[i].type = "EXPOSURE_DETAIL" /\ made[i].item = parts[p].item /\ made[i].parent = r
            BY <1>6, <2>1, <3>1
        <3>3. PICK c : c = Len(rows) + i
            OBVIOUS
        <3>4. DOMAIN table = 1..(Len(rows) + Len(made)) /\ Len(made) \in Nat /\ i \in 1..Len(made)
            BY <1>4, <1>6, <1>9, <3>1
        <3>5. c \in DOMAIN table /\ table[c] = made[i]
            BY <1>1, <1>6, <1>9, <3>1, <3>3, <3>4
        <3> QED
            BY <3>2, <3>5 DEF Existing
    <2> QED
        BY <1>3, <2>1, <2>2, <2>3
<1> QED
    BY <1>6, <1>7, <1>9, <1>10 DEF ListMade

\* The batch of a list.
LEMMA BatchFits ==
    ASSUME NEW table \in Seq(RowRecord), NEW r \in DOMAIN table, NEW details \in Seq(Details(table))
    PROVE  Batch(r, details) \in Plain /\ Fresh(Batch(r, details), table)
<1>1. PICK e : e = Extract(r, 0)
    OBVIOUS
<1>2. Len(table) \in Nat /\ DOMAIN table = 1..Len(table) /\ r \in 0..Len(table) /\ 0 \in 0..Len(table) /\ r # 0
    OBVIOUS
<1>3. /\ e \in Plain /\ Fresh(e, table) /\ e.row = r
    <2>1. e \in Plain /\ Fresh(e, table)
        BY <1>1, <1>2, ExtractFresh
    <2>2. e.row = r
        BY <1>1 DEF Extract
    <2> QED
        BY <2>1, <2>2
<1>4. details \in Seq(Nat)
    <2>1. \A d \in Details(table) : d \in Nat
        BY <1>2 DEF Details
    <2> QED
        BY <2>1
<1>5. PICK one : one = [e EXCEPT !.kind = "batch"]
    OBVIOUS
<1>6. one \in Plain
    BY <1>3, <1>5 DEF Plain, MessageWith, Kinds
<1>7. PICK m : m = [one EXCEPT !.todo = details]
    OBVIOUS
<1>8. m \in Plain
    BY <1>4, <1>6, <1>7 DEF Plain, MessageWith
<1>9. /\ m.kind = "batch" /\ m.row = r /\ m.failed = e.failed /\ m.value = e.value
      /\ m.pc = e.pc /\ m.retries = e.retries /\ m.chord = e.chord /\ m.todo = details
    BY <1>3, <1>5, <1>6, <1>7 DEF Plain, MessageWith
<1>10. Fresh(m, table)
    BY <1>2, <1>3, <1>9 DEF Fresh, Refers
<1>11. Batch(r, details) = m
    BY <1>1, <1>5, <1>7 DEF Batch
<1> QED
    BY <1>8, <1>10, <1>11

\* The newest details of a list are details, in this table and in later ones.
LEMMA DetailsOfList ==
    ASSUME NEW r, NEW parts \in Seq(SpecRecord), NEW table \in Seq(RowRecord),
           \A p \in DOMAIN parts : Existing(table, r, "EXPOSURE_DETAIL", parts[p].item) # {},
           NEW details,
           details = [i \in DOMAIN parts |-> Newest(Existing(table, r, "EXPOSURE_DETAIL", parts[i].item))],
           NEW later \in Seq(RowRecord), Grows(table, later)
    PROVE  details \in Seq(Details(later))
<1>1. /\ Len(parts) \in Nat /\ DOMAIN parts = 1..Len(parts)
      /\ Len(table) \in Nat /\ DOMAIN table = 1..Len(table) /\ Len(later) \in Nat /\ DOMAIN later = 1..Len(later)
    OBVIOUS
<1>2. ASSUME NEW i \in DOMAIN parts
      PROVE  details[i] \in Details(later)
    <2>1. PICK S : S = Existing(table, r, "EXPOSURE_DETAIL", parts[i].item)
        OBVIOUS
    <2>2. S # {} /\ S \subseteq 1..Len(table)
        BY <1>1, <2>1 DEF Existing
    <2>3. PICK d : d = Newest(S)
        OBVIOUS
    <2>4. d \in S
        BY <1>1, <2>2, <2>3, NewestOfSet
    <2>5. d \in DOMAIN table /\ table[d].type = "EXPOSURE_DETAIL"
        BY <2>1, <2>4 DEF Existing
    <2>6. d \in DOMAIN later /\ later[d].type = "EXPOSURE_DETAIL"
        BY <1>1, <2>5 DEF Grows
    <2>7. details[i] = d
        BY <2>1, <2>3
    <2> QED
        BY <2>6, <2>7 DEF Details
<1>3. PICK n : n = Len(parts)
    OBVIOUS
<1>4. details \in [1..n -> Details(later)] /\ n \in Nat
    <2>1. details = [i \in 1..n |-> details[i]]
        BY <1>1, <1>3
    <2> QED
        BY <1>1, <1>2, <1>3, <2>1
<1> QED
    BY <1>4

LEMMA PdcListStep ==
    ASSUME Typed, Pdc, NEW t \in Messages, PdcList(t)
    PROVE  Proper(t)
<1>1. PICK r : r = msgs[t].row
    OBVIOUS
<1>2. /\ r \in DOMAIN rows /\ r \in Rows /\ rows \in Seq(RowRecord) /\ IsTable(rows) /\ rows[r] \in RowRecord
      /\ Received(t) /\ RowOf(t) = rows[r] /\ rows[r].type = "EXPOSURE_LIST" /\ r \in Nat /\ r # 0
    <2>1. Received(t) /\ RowOf(t) = rows[r] /\ rows[r].type = "EXPOSURE_LIST"
        BY <1>1 DEF PdcList, Handles, RowOf
    <2> QED
        BY <1>1, <2>1, Delivery DEF Rows
<1>3. PICK row \in {Stored(t), RowOf(t)} :
        /\ IF row = Stored(t) THEN UNCHANGED spent ELSE Spend("empty")
        /\ IF row.content = 0 THEN Made(t, [row EXCEPT !.valid = "NO_DATA"], <<>>, <<>>, 0)
           ELSE PdcListMade(t, row)
    BY DEF PdcList
<1>4. /\ row \in RowRecord
      /\ row.type = rows[r].type /\ row.item = rows[r].item /\ row.parent = rows[r].parent
      /\ row.attempts = rows[r].attempts
    <2>1. PICK stored : stored = Stored(t)
        OBVIOUS
    <2>2. /\ stored \in RowRecord
          /\ stored.type = rows[r].type /\ stored.item = rows[r].item /\ stored.parent = rows[r].parent
          /\ stored.attempts = rows[r].attempts
        BY <1>1, <1>2, <2>1, StoredRow
    <2>3. row = stored \/ row = rows[r]
        BY <1>2, <2>1
    <2> QED
        BY <1>2, <2>2, <2>3
<1>5. ASSUME UNCHANGED world PROVE WorldGoesOn
    <2>1. CASE UNCHANGED spent
        BY <1>5, <2>1, WorldStays DEF Typed
    <2>2. CASE Spend("empty")
        BY <1>5, <2>2, Spending, FanOutAssumption DEF Spend, Faults, Typed
    <2> QED
        BY <1>3, <2>1, <2>2
<1>6. CASE row.content = 0
    <2>1. PICK empty : empty = [row EXCEPT !.valid = "NO_DATA"]
        OBVIOUS
    <2>2. Made(t, empty, <<>>, <<>>, 0)
        BY <1>3, <1>6, <2>1
    <2>3. /\ empty \in RowRecord
          /\ empty.type = rows[r].type /\ empty.item = rows[r].item /\ empty.parent = rows[r].parent
          /\ empty.attempts = rows[r].attempts
        BY <1>4, <2>1 DEF RowRecord
    <2>4. WorldGoesOn
        BY <1>5, <2>2 DEF Made
    <2> QED
        BY <1>1, <1>2, <2>2, <2>3, <2>4, StoredStep
<1>7. CASE row.content # 0
    <2>1. PICK parts : parts = [i \in DOMAIN Exposures[row.item] |->
                                Spec2("EXPOSURE_DETAIL", Exposures[row.item][i], r)]
        OBVIOUS
    <2>2. PICK made : made = NewRows(Missing(parts))
        OBVIOUS
    <2>3. PICK table : table = rows \o made
        OBVIOUS
    <2>4. PICK details : details = [i \in DOMAIN parts |-> Newest(Existing(table, r, "EXPOSURE_DETAIL", parts[i].item))]
        OBVIOUS
    <2>5. PICK groups : groups = IF \E i \in DOMAIN details : table[details[i]].status # "SUCCESS"
                                 THEN <<<<Batch(r, details)>>>> ELSE <<>>
        OBVIOUS
    <2>6. Made(t, row, made, groups, 0)
        <3>1. parts = DetailParts(r, row.item)
            BY <2>1 DEF DetailParts
        <3>2. groups = BatchOf(table, r, parts)
            BY <2>4, <2>5 DEF BatchOf
        <3>3. Made(t, row, made, BatchOf(rows \o made, r, parts), 0)
            BY <1>1, <1>3, <1>7, <2>2, <3>1 DEF PdcListMade
        <3> QED
            BY <2>3, <3>2, <3>3
    <2>7. Exposures[row.item] \in Seq(Items)
        <3>1. PICK p \in Listing(Pages) : rows[r].item \in Listing(Hazards[p])
            BY <1>2 DEF IsTable, ItemFits
        <3> QED
            BY <1>4, <3>1, PdcAssumption
    <2>8. /\ parts \in Seq(SpecRecord)
          /\ \A i \in DOMAIN parts :
                parts[i].parent = r /\ parts[i].type = "EXPOSURE_DETAIL" /\ parts[i].item \in Items
        BY <1>2, <2>1, <2>7, ListParts
    <2>9. ListMade(r, parts, made, table)
        BY <1>2, <2>2, <2>3, <2>8, ListRows
    <2>10. /\ made \in Seq(RowRecord) /\ table \in Seq(RowRecord)
           /\ \A p \in DOMAIN parts : Existing(table, r, "EXPOSURE_DETAIL", parts[p].item) # {}
           /\ \A i \in DOMAIN made :
                /\ RowFits(made[i], rows) /\ made[i].type \in TypesOf(source) \ {"EXPOSURE_LIST"}
                /\ Handled(made[i])
        BY <2>9, PdcTypes DEF ListMade
    <2>11. ASSUME NEW later \in Seq(RowRecord), Grows(rows, later), Len(later) = Len(rows) + Len(made),
                  \A i \in DOMAIN made : later[Len(rows) + i] = made[i]
           PROVE  /\ Batch(r, details) \in Plain /\ Fresh(Batch(r, details), later)
        <3>1. Grows(table, later)
            <4>1. /\ Len(rows) \in Nat /\ DOMAIN rows = 1..Len(rows) /\ Len(made) \in Nat /\ DOMAIN made = 1..Len(made)
                  /\ Len(table) = Len(rows) + Len(made) /\ DOMAIN table = 1..Len(table)
                  /\ \A o \in DOMAIN rows : table[o] = rows[o]
                  /\ \A i \in DOMAIN made : table[Len(rows) + i] = made[i]
                <5>1. rows \in Seq(RowRecord) /\ made \in Seq(RowRecord)
                    BY <1>2, <2>10
                <5> QED
                    BY ONLY <5>1, <2>3
            <4>2. ASSUME NEW o \in DOMAIN table
                  PROVE  /\ later[o].type = table[o].type /\ later[o].item = table[o].item
                         /\ later[o].parent = table[o].parent /\ later[o].attempts >= table[o].attempts
                <5>1. CASE o \in DOMAIN rows
                    BY <2>11, <4>1, <5>1 DEF Grows
                <5>2. CASE o \notin DOMAIN rows
                    <6>1. PICK i : i = o - Len(rows)
                        OBVIOUS
                    <6>2. i \in DOMAIN made /\ o = Len(rows) + i
                        BY <4>1, <5>2, <6>1
                    <6>3. later[o] = made[i] /\ table[o] = made[i]
                        BY <2>11, <4>1, <6>2
                    <6>4. made[i] \in RowRecord
                        BY <2>10, <6>2
                    <6>5. made[i].attempts \in Nat
                        BY <6>4 DEF RowRecord
                    <6> QED
                        BY <6>3, <6>5
                <5> QED
                    BY <5>1, <5>2
            <4> QED
                BY <2>11, <4>1, <4>2 DEF Grows
        <3>2. details \in Seq(Details(later))
            <4>1. /\ parts \in Seq(SpecRecord) /\ table \in Seq(RowRecord) /\ later \in Seq(RowRecord)
                  /\ \A p \in DOMAIN parts : Existing(table, r, "EXPOSURE_DETAIL", parts[p].item) # {}
                BY <2>8, <2>10, <2>11
            <4> QED
                BY ONLY <2>4, <3>1, <4>1, DetailsOfList
        <3>3. r \in DOMAIN later
            BY <1>2, <2>11 DEF Grows
        <3> QED
            BY <2>11, <3>2, <3>3, BatchFits
    <2>12. groups \in Groups
        <3>1. Grows(rows, table) /\ Len(table) = Len(rows) + Len(made)
              /\ \A i \in DOMAIN made : table[Len(rows) + i] = made[i]
            BY <2>9 DEF ListMade
        <3>2. Batch(r, details) \in Plain
            BY <2>10, <2>11, <3>1
        <3>3. <<Batch(r, details)>> \in Seq(Plain)
            BY <3>2
        <3>4. <<<<Batch(r, details)>>>> \in Groups
            BY <3>3, OneGroup
        <3> QED
            BY <2>5, <3>4, MessageTypes
    <2>13. ASSUME NEW later \in Seq(RowRecord), IsTable(later), Grows(rows, later), Len(later) = Len(rows) + Len(made),
                  \A i \in DOMAIN made : later[Len(rows) + i] = made[i]
           PROVE  0 \in 0..Len(later) /\ GroupsFit(groups, later)
        <3>1. PICK batch : batch = Batch(r, details)
            OBVIOUS
        <3>2. Fresh(batch, later)
            BY <2>11, <2>13, <3>1
        <3>3. groups = <<<<batch>>>> \/ groups = <<>>
            BY <2>5, <3>1
        <3>4. GroupsFit(groups, later)
            BY <3>2, <3>3 DEF GroupsFit
        <3>5. 0 \in 0..Len(later)
            OBVIOUS
        <3> QED
            BY <3>4, <3>5
    <2>14. WorldGoesOn
        BY <1>5, <2>6 DEF Made
    <2>15. LET q == msgs[t].row
           IN /\ row.type = rows[q].type /\ row.item = rows[q].item /\ row.parent = rows[q].parent
              /\ row.attempts = rows[q].attempts
        BY <1>1, <1>4
    <2>16. \A later \in Seq(RowRecord) :
                (IsTable(later) /\ Grows(rows, later) /\ Len(later) = Len(rows) + Len(made)
                    /\ \A i \in DOMAIN made : later[Len(rows) + i] = made[i])
                => 0 \in 0..Len(later) /\ GroupsFit(groups, later)
        BY <2>13
    <2> QED
        BY <1>2, <1>4, <2>6, <2>10, <2>12, <2>14, <2>15, <2>16, MadeStep
<1> QED
    BY <1>6, <1>7

LEMMA PdcStepProper ==
    ASSUME Typed, Pdc, NEW t \in Messages, PdcStep(t)
    PROVE  Proper(t)
<1>1. CASE Dispatch(t)
    BY <1>1, DispatchStep
<1>2. CASE Finish(t)
    BY <1>2, FinishStep
<1>3. CASE WorkerLost(t)
    BY <1>3, LostStep
<1>4. CASE PdcHazardFetched(t)
    BY <1>4, PdcHazardFetchedStep
<1>5. CASE PdcHazardMade(t)
    BY <1>5, PdcHazardMadeStep
<1>6. CASE PdcFetch(t)
    BY <1>6, FileStep DEF PdcFetch
<1>7. CASE PdcList(t)
    BY <1>7, PdcListStep
<1>8. CASE PdcBatch(t)
    BY <1>8, PdcBatchStep
<1>9. CASE NoData(t)
    BY <1>9, NoDataStep
<1>10. CASE RequestError(t) \/ RateLimited(t) \/ OtherError(t)
    BY <1>10, FetchGoesWrongStep DEF FetchGoesWrong
<1>11. CASE RunTransform(t, PdcReads(msgs[t].row))
    BY <1>11, PdcTransformStep
<1>12. CASE PdcTrigger(t)
    BY <1>12, PdcTriggerStep
<1> QED
    BY <1>1, <1>2, <1>3, <1>4, <1>5, <1>6, <1>7, <1>8, <1>9, <1>10, <1>11, <1>12 DEF PdcStep

LEMMA PdcKeeps ==
    ASSUME Typed, AllAttended, Pdc, PdcNext, UNCHANGED source
    PROVE  Typed' /\ AllAttended'
<1>1. CASE \E t \in Messages : PdcStep(t)
    BY <1>1, PdcStepProper, ProperKeeps, FanOutAssumption
<1>2. CASE PdcPipelineRetrigger
    BY <1>2, PdcPipelineRetriggerKeeps
<1>3. CASE Retrigger("PENDING", [r \in Rows |-> PdcTarget(r)])
    <2>1. PICK target : target = [r \in Rows |-> PdcTarget(r)]
        OBVIOUS
    <2>2. \A r \in Rows : target[r] \in Plain /\ Fresh(target[r], rows)
        BY <2>1, PdcTargetFits
    <2>3. Retrigger("PENDING", target)
        BY <1>3, <2>1
    <2> QED
        BY <2>2, <2>3, RetriggerKeeps
<1> QED
    BY <1>1, <1>2, <1>3 DEF PdcNext

-----------------------------------------------------------------------------
(* The sources that walk through pages.                                      *)

Paged == source \in PagedTypes

LEMMA PagedTypesAre ==
    ASSUME Paged
    PROVE  source \in TypesOf(source) /\ TypesOf(source) \subseteq PagedTypes \cup {"CEMS_DETAIL"}
<1>1. CASE source = "CEMS"
    BY <1>1 DEF TypesOf, PagedTypes
<1>2. CASE source # "CEMS"
    <2>1. TypesOf(source) = {source}
        BY <1>2 DEF Paged, TypesOf, PagedTypes, Singles
    <2> QED
        BY <2>1 DEF Paged
<1> QED
    BY <1>1, <1>2

LEMMA PagedRows ==
    ASSUME NEW type \in PagedTypes \cup {"CEMS_DETAIL"}
    PROVE  /\ type \in RowTypes /\ type \notin DOMAIN ParentType /\ type \notin NotRead
           /\ type \notin {"EXPOSURE_LIST", "HAZARD"}
BY DEF RowTypes, ParentType, PagedTypes, Singles, NotRead

LEMMA WalksAre ==
    ASSUME NEW walk \in PagedTypes
    PROVE  Walks[walk] \in Seq(Items) /\ Walks[walk] # <<>>
<1>1. Walks[walk] \in {CemsPages, IfrcPages, OnePage}
    BY DEF Walks
<1> QED
    BY <1>1, PagedAssumption

\* A row of a walk is about one of its pages.
LEMMA PagedItem ==
    ASSUME NEW type \in PagedTypes \cup {"CEMS_DETAIL"}, NEW item \in Items,
           type \in PagedTypes => item \in Listing(Walks[type]), NEW parent \in Nat
    PROVE  ItemFits(Row(type, item, parent))
<1>1. PICK row : row = Row(type, item, parent)
    OBVIOUS
<1>2. row.type = type /\ row.item = item
    BY <1>1 DEF Row
<1>3. type \notin {"ACTIVATION", "GDACS_DETAIL", "EPISODE", "USGS_DETAIL", "HAZARD", "POLYGON", "EXPOSURE_LIST"}
    BY DEF PagedTypes, Singles
<1>4. ItemFits(row)
    BY <1>2, <1>3 DEF ItemFits
<1> QED
    BY <1>1, <1>4

LEMMA PagedInitKeeps ==
    ASSUME source \in Chosen, Paged, PagedInit(source)
    PROVE  Typed /\ AllAttended
<1>1. PICK page : page = Walks[source][1]
    OBVIOUS
<1>2. page \in Items /\ page \in Listing(Walks[source])
    <2>1. Walks[source] \in Seq(Items) /\ Walks[source] # <<>>
        BY WalksAre DEF Paged
    <2>2. 1 \in DOMAIN Walks[source]
        BY <2>1
    <2> QED
        BY <1>1, <2>1, <2>2 DEF Listing
<1>3. source \in TypesOf(source) /\ source \in RowTypes /\ source \notin DOMAIN ParentType
    BY PagedTypesAre, PagedRows
<1>4. ItemFits(Row(source, page, 0))
    BY <1>2, PagedItem DEF Paged
<1>5. InitRows(<<Row(source, page, 0)>>)
    BY <1>1 DEF PagedInit
<1> QED
    BY <1>2, <1>3, <1>4, <1>5, FirstRow

LEMMA PagedNextDayKeeps ==
    ASSUME Typed, AllAttended, Paged, PagedNextDay, UNCHANGED source
    PROVE  Typed' /\ AllAttended'
<1>1. rows \in Seq(RowRecord) /\ rows # <<>> /\ 1 \in DOMAIN rows
    BY DEF Typed, IsTable
<1>2. rows[1] \in RowRecord /\ ItemFits(rows[1]) /\ rows[1].type \in TypesOf(source)
    BY <1>1 DEF Typed, IsTable, Rows
<1>3. PICK type : type = rows[1].type
    OBVIOUS
<1>4. PICK item : item = rows[1].item
    OBVIOUS
<1>5. /\ type \in TypesOf(source) /\ type \in PagedTypes \cup {"CEMS_DETAIL"} /\ item \in Items
      /\ (type \in PagedTypes => item \in Listing(Walks[type]))
    <2>1. type \in TypesOf(source) /\ type \in PagedTypes \cup {"CEMS_DETAIL"}
        BY <1>2, <1>3, PagedTypesAre
    <2>2. item \in Items
        BY <1>2, <1>4 DEF RowRecord
    <2>3. type \in PagedTypes => item \in Listing(Walks[type])
        BY <1>2, <1>3, <1>4 DEF ItemFits
    <2> QED
        BY <2>1, <2>2, <2>3
<1>6. type \in RowTypes /\ type \notin DOMAIN ParentType
    BY <1>5, PagedRows
<1>7. ItemFits(Row(type, item, 0))
    BY <1>5, PagedItem
<1>8. /\ rows' = Append(rows, Row(type, item, 0)) /\ msgs' = NewGroup(1) /\ Quiet
      /\ UNCHANGED <<chords, world, ended, fed, spent>>
    BY <1>3, <1>4 DEF PagedNextDay
<1> QED
    BY <1>5, <1>6, <1>7, <1>8, StartsAgain

LEMMA PagedFetchedStep ==
    ASSUME Typed, Paged, NEW t \in Messages, PagedFetched(t)
    PROVE  Proper(t)
<1>1. PICK r : r = msgs[t].row
    OBVIOUS
<1>2. /\ Received(t) /\ r \in Rows /\ rows \in Seq(RowRecord) /\ IsTable(rows) /\ RowOf(t) = rows[r]
      /\ rows[r] \in RowRecord /\ msgs[t] \in Message /\ msgs[t].kind = "extract" /\ r \in DOMAIN rows
      /\ msgs \in Seq(Message) /\ t \in DOMAIN msgs
    BY <1>1, Delivery DEF PagedFetched, RowOf, Rows
<1>3. PICK held \in {Stored(t), RowOf(t)} :
        /\ UNCHANGED spent \/ Spend("empty")
        /\ rows' = [Started(t) EXCEPT ![r].content = held.content, ![r].valid = held.valid]
    BY <1>1 DEF PagedFetched
<1>4. held \in RowRecord
    <2>1. Stored(t) \in RowRecord
        BY <1>2, StoredRow
    <2> QED
        BY <1>2, <2>1
<1>5. PICK begun : begun = Started(t)
    OBVIOUS
<1>6. /\ begun[r] \in RowRecord /\ begun[r].status = "IN_PROGRESS" /\ Grows(rows, begun)
      /\ DOMAIN begun = DOMAIN rows /\ IsTable(begun)
      /\ begun[r].attempts = rows[r].attempts
      /\ begun = [rows EXCEPT ![r] = begun[r]]
    <2>1. "IN_PROGRESS" \in Status
        BY DEF Status
    <2>2. /\ begun[r] \in RowRecord /\ begun[r].status = "IN_PROGRESS" /\ Grows(rows, begun)
          /\ DOMAIN begun = DOMAIN rows /\ IsTable(begun)
        BY <1>1, <1>2, <1>5, <2>1, MarkedRow DEF Started, SetStatus
    <2>3. begun[r].attempts = rows[r].attempts /\ begun = [rows EXCEPT ![r] = begun[r]]
        BY <1>1, <1>2, <1>5 DEF Started, SetStatus, Mark, RowRecord
    <2> QED
        BY <2>2, <2>3
<1>7. PICK one : one = [begun[r] EXCEPT !.content = held.content]
    OBVIOUS
<1>8. one \in RowRecord
    BY <1>4, <1>6, <1>7 DEF RowRecord
<1>9. PICK row : row = [one EXCEPT !.valid = held.valid]
    OBVIOUS
<1>10. row \in RowRecord
    BY <1>4, <1>8, <1>9 DEF RowRecord
<1>11. /\ row.type = rows[r].type /\ row.item = rows[r].item /\ row.parent = rows[r].parent
       /\ row.attempts = rows[r].attempts /\ row.status = "IN_PROGRESS"
    BY <1>2, <1>6, <1>7, <1>8, <1>9 DEF RowRecord, Grows
<1>12. rows' = [rows EXCEPT ![r] = row]
    <2>1. rows' = [begun EXCEPT ![r] = row]
        BY <1>2, <1>3, <1>5, <1>6, <1>7, <1>9
    <2> QED
        BY <1>6, <2>1
<1>13. PICK m : m = [msgs[t] EXCEPT !.pc = "stored"]
    OBVIOUS
<1>14. m \in Message
    BY <1>2, <1>13 DEF Message, MessageWith, Places
<1>15. /\ m.kind = "extract" /\ m.row = r /\ m.failed = msgs[t].failed /\ m.value = msgs[t].value
       /\ m.retries = msgs[t].retries /\ m.chord = msgs[t].chord /\ m.pc = "stored"
    BY <1>1, <1>2, <1>13, <1>14 DEF Message, MessageWith
<1>16. msgs' = [msgs EXCEPT ![t] = m]
    BY <1>2, <1>13 DEF PagedFetched, Move
<1>17. UNCHANGED <<chords, ended, fed>> /\ WorldGoesOn
    <2>1. UNCHANGED <<chords, world, ended, fed>>
        BY DEF PagedFetched
    <2>2. CASE UNCHANGED spent
        BY <2>1, <2>2, WorldStays DEF Typed
    <2>3. CASE Spend("empty")
        BY <2>1, <2>3, Spending, FanOutAssumption DEF Spend, Faults, Typed
    <2> QED
        BY <1>3, <2>1, <2>2, <2>3
<1>18. rows[r].type # "HAZARD"
    <2>1. rows[r].type \in TypesOf(source)
        BY <1>2 DEF Typed
    <2> QED
        BY <2>1, PagedTypesAre, PagedRows
<1> QED
    BY <1>1, <1>2, <1>10, <1>11, <1>12, <1>14, <1>15, <1>16, <1>17, <1>18, HeldStep

\* A handler that goes on adds rows and publishes.
LEMMA PagedGoesOnStep ==
    ASSUME Typed, NEW t \in Messages, At(t, "extract", "stored"), NEW new \in Seq(RowRecord),
           \A i \in DOMAIN new :
                /\ RowFits(new[i], rows) /\ new[i].type \in TypesOf(source) \ {"EXPOSURE_LIST"}
                /\ Handled(new[i]),
           NEW transforms \in Seq(Plain), \A j \in DOMAIN transforms : Fresh(transforms[j], rows),
           PagedGoesOn(t, new, transforms)
    PROVE  Proper(t)
<1>1. PICK r : r = msgs[t].row
    OBVIOUS
<1>2. /\ r \in Rows /\ rows \in Seq(RowRecord) /\ IsTable(rows) /\ msgs[t].pc = "stored"
      /\ msgs[t] \in Message /\ msgs[t].kind = "extract" /\ MessageFits(msgs[t], rows) /\ Len(rows) \in Nat
      /\ msgs \in Seq(Message) /\ t \in DOMAIN msgs /\ r # 0 /\ DOMAIN rows = Rows
    <2>1. msgs[t].pc = "stored"
        BY DEF At
    <2> QED
        BY <1>1, <2>1, Delivery DEF Rows
<1>3. PICK table : table = rows \o new
    OBVIOUS
<1>4. /\ IsTable(table) /\ Grows(rows, table) /\ Len(table) = Len(rows) + Len(new)
      /\ \A o \in DOMAIN rows : table[o] = rows[o]
      /\ \A o \in DOMAIN table \ DOMAIN rows : \E i \in DOMAIN new : table[o] = new[i]
    <2>1. \A i \in DOMAIN new :
                /\ RowFits(new[i], rows)
                /\ new[i].type = "EXPOSURE_LIST" =>
                        Existing(rows \o new, new[i].parent, "POLYGON", new[i].item) # {}
        OBVIOUS
    <2>2. IsTable(rows) /\ new \in Seq(RowRecord)
        BY <1>2
    <2>3. /\ IsTable(rows \o new) /\ Grows(rows, rows \o new) /\ Len(rows \o new) = Len(rows) + Len(new)
          /\ \A o \in DOMAIN rows : (rows \o new)[o] = rows[o]
          /\ \A o \in DOMAIN (rows \o new) \ DOMAIN rows : \E i \in DOMAIN new : (rows \o new)[o] = new[i]
        BY ONLY <2>1, <2>2, TableMore
    <2> QED
        BY <1>3, <2>3
<1>5. table \in Seq(RowRecord) /\ Len(table) \in Nat /\ DOMAIN table = 1..Len(table) /\ Len(new) \in Nat
    BY <1>4 DEF IsTable
<1>6. PICK n : n = Len(new)
    OBVIOUS
<1>7. PICK group : group = NewGroup(n)
    OBVIOUS
<1>8. group \in Seq(Plain) /\ \A j \in DOMAIN group : Fresh(group[j], table)
    <2>1. n \in Nat /\ Len(rows) + n <= Len(table) /\ rows \in Seq(RowRecord) /\ Len(table) \in Nat
        BY <1>2, <1>4, <1>5, <1>6
    <2> QED
        BY ONLY <1>7, <2>1, NewGroupFits
<1>9. \A j \in DOMAIN transforms : Fresh(transforms[j], table)
    <2>1. ASSUME NEW j \in DOMAIN transforms PROVE Fresh(transforms[j], table)
        <3>1. PICK m : m = transforms[j]
            OBVIOUS
        <3>2. m \in Plain /\ Fresh(m, rows)
            BY <3>1
        <3>3. m \in Message
            BY <3>2, MessageTypes
        <3>4. Fresh(m, table)
            BY <1>2, <1>4, <1>5, <3>2, <3>3, FreshLater
        <3> QED
            BY <3>1, <3>4
    <2> QED
        BY <2>1
<1>10. PICK more : more = transforms \o group
    OBVIOUS
<1>11. more \in Seq(Plain) /\ \A j \in DOMAIN more : Fresh(more[j], table)
    <2>1. transforms \in Seq(Plain) /\ group \in Seq(Plain)
        BY <1>8
    <2>2. more \in Seq(Plain) /\ \A j \in DOMAIN more :
                (\E i \in DOMAIN transforms : more[j] = transforms[i]) \/ (\E i \in DOMAIN group : more[j] = group[i])
        <3>1. /\ Len(transforms) \in Nat /\ Len(group) \in Nat /\ DOMAIN more = 1..(Len(transforms) + Len(group))
              /\ DOMAIN transforms = 1..Len(transforms) /\ DOMAIN group = 1..Len(group) /\ more \in Seq(Plain)
              /\ \A j \in 1..Len(transforms) : more[j] = transforms[j]
              /\ \A j \in (Len(transforms) + 1)..(Len(transforms) + Len(group)) : more[j] = group[j - Len(transforms)]
            BY ONLY <1>10, <2>1
        <3>2. ASSUME NEW j \in DOMAIN more
              PROVE  (\E i \in DOMAIN transforms : more[j] = transforms[i]) \/ (\E i \in DOMAIN group : more[j] = group[i])
            <4>1. CASE j \in 1..Len(transforms)
                BY <3>1, <4>1
            <4>2. CASE j \notin 1..Len(transforms)
                <5>1. /\ j \in (Len(transforms) + 1)..(Len(transforms) + Len(group))
                      /\ j - Len(transforms) \in DOMAIN group
                    BY <3>1, <4>2
                <5> QED
                    BY <3>1, <5>1
            <4> QED
                BY <4>1, <4>2
        <3> QED
            BY <3>1, <3>2
    <2> QED
        BY <1>8, <1>9, <2>2
<1>12. more \in Seq(Message) /\ \A j \in DOMAIN more : MessageFits(more[j], table) /\ more[j].chord = 0
    BY <1>5, <1>11, FreshMessages
<1>13. PICK m : m = [msgs[t] EXCEPT !.pc = "sent"]
    OBVIOUS
<1>14. m \in Message
    BY <1>2, <1>13 DEF Message, MessageWith, Places
<1>15. /\ m.kind = "extract" /\ m.row = r /\ m.failed = msgs[t].failed /\ m.value = msgs[t].value
       /\ m.retries = msgs[t].retries /\ m.chord = msgs[t].chord /\ m.pc = "sent"
    BY <1>1, <1>2, <1>13, <1>14 DEF Message, MessageWith
<1>16. MessageFits(m, table)
    <2>1. MessageFits(msgs[t], table)
        BY <1>2, <1>4, <1>5, MessageLater
    <2> QED
        BY <1>1, <1>2, <1>15, <2>1 DEF MessageFits, Refers
<1>17. PICK moved : moved = [msgs EXCEPT ![t] = m]
    OBVIOUS
<1>18. rows' = table /\ msgs' = moved \o more /\ UNCHANGED <<chords, world, ended, fed, spent>>
    <2>1. /\ rows' = table /\ msgs' = moved \o transforms \o group /\ UNCHANGED <<chords, world, ended, fed, spent>>
        <3>1. moved = Move(t, "sent")
            BY <1>2, <1>13, <1>17 DEF Move
        <3> QED
            BY <1>3, <1>6, <1>7, <3>1 DEF PagedGoesOn
    <2>2. moved \in Seq(Message) /\ transforms \in Seq(Message) /\ group \in Seq(Message)
        BY <1>2, <1>8, <1>14, <1>17, MessageTypes
    <2>3. moved \o transforms \o group = moved \o (transforms \o group)
        BY ONLY <2>2
    <2> QED
        BY <1>10, <2>1, <2>3
<1>19. TableGoesOn
    <2>1. ASSUME NEW o \in DOMAIN table PROVE table[o].type \in TypesOf(source)
        <3>1. CASE o \in DOMAIN rows
            BY <1>2, <1>4, <3>1 DEF Typed
        <3>2. CASE o \notin DOMAIN rows
            BY <1>4, <3>2
        <3> QED
            BY <3>1, <3>2
    <2> QED
        BY <1>4, <1>18, <2>1 DEF TableGoesOn
<1>20. /\ \A o \in Rows : rows'[o] = rows[o]
       /\ \A o \in DOMAIN rows' \ Rows : Handled(rows'[o])
    BY <1>2, <1>4, <1>18
<1>21. MessageFits(m, rows') /\ (\A j \in DOMAIN more : MessageFits(more[j], rows') /\ more[j].chord = 0)
    BY <1>12, <1>16, <1>18
<1>22. msgs[t].pc # "queued" /\ m.pc # "queued"
    BY <1>2, <1>15
<1> QED
    BY <1>1, <1>12, <1>14, <1>15, <1>17, <1>18, <1>19, <1>20, <1>21, <1>22, GoesOnStep

\* The row of the next page.
LEMMA NextPageRowFits ==
    ASSUME Typed, Paged, NEW t \in Messages, At(t, "extract", "stored"), RowOf(t).type \in PagedTypes
    PROVE  /\ NextPageRow(t) \in Seq(RowRecord)
           /\ \A i \in DOMAIN NextPageRow(t) :
                /\ RowFits(NextPageRow(t)[i], rows)
                /\ NextPageRow(t)[i].type \in TypesOf(source) \ {"EXPOSURE_LIST"}
                /\ Handled(NextPageRow(t)[i])
<1>1. PICK type : type = RowOf(t).type
    OBVIOUS
<1>2. /\ type \in PagedTypes /\ type \in TypesOf(source) /\ rows \in Seq(RowRecord)
      /\ type \in RowTypes /\ type \notin DOMAIN ParentType /\ type # "EXPOSURE_LIST"
    <2>1. msgs[t].row \in Rows /\ rows \in Seq(RowRecord)
        BY Delivery DEF At
    <2> QED
        BY <1>1, <2>1, PagedRows DEF RowOf, Typed
<1>3. PICK next : next = Followers(type, RowOf(t).item)
    OBVIOUS
<1>4. \A p \in next : p \in Listing(Walks[type]) /\ p \in Items
    <2>1. PICK walk : walk = Walks[type]
        OBVIOUS
    <2>2. walk \in Seq(Items) /\ Len(walk) \in Nat /\ DOMAIN walk = 1..Len(walk)
        BY <1>2, <2>1, WalksAre
    <2>3. ASSUME NEW p \in next PROVE p \in Listing(walk) /\ p \in Items
        <3>1. PICK j \in 1..(Len(walk) - 1) : p = walk[j + 1]
            BY <1>3, <2>1 DEF Followers
        <3>2. j + 1 \in DOMAIN walk
            BY <2>2
        <3> QED
            BY <2>2, <3>1, <3>2 DEF Listing
    <2> QED
        BY <2>1, <2>3
<1>5. CASE next = {}
    <2>1. NextPageRow(t) = <<>>
        BY <1>1, <1>3, <1>5 DEF NextPageRow
    <2> QED
        BY <2>1
<1>6. CASE next # {}
    <2>1. PICK p : p = CHOOSE q \in next : TRUE
        OBVIOUS
    <2>2. p \in Listing(Walks[type]) /\ p \in Items
        BY <1>4, <1>6, <2>1
    <2>3. PICK row : row = Row(type, p, 0)
        OBVIOUS
    <2>4. row \in RowRecord /\ row.type = type /\ row.parent = 0 /\ Handled(row)
        BY <1>2, <2>2, <2>3, RowNew
    <2>5. ItemFits(row)
        BY <1>2, <2>2, <2>3, PagedItem
    <2>6. 0 \in 0..Len(rows)
        BY <1>2
    <2>7. RowFits(row, rows)
        BY <1>2, <2>4, <2>5, <2>6 DEF RowFits
    <2>8. NextPageRow(t) = <<row>>
        BY <1>1, <1>3, <1>6, <2>1, <2>3 DEF NextPageRow
    <2>9. <<row>> \in Seq(RowRecord) /\ DOMAIN <<row>> = {1} /\ <<row>>[1] = row
        BY <2>4
    <2> QED
        BY <1>2, <2>4, <2>7, <2>8, <2>9
<1> QED
    BY <1>5, <1>6

LEMMA CemsQueryStep ==
    ASSUME Typed, Paged, NEW t \in Messages, CemsQuery(t)
    PROVE  Proper(t)
<1>1. PICK r : r = msgs[t].row
    OBVIOUS
<1>2. /\ At(t, "extract", "stored") /\ RowOf(t) = rows[r] /\ rows[r].type = "CEMS"
      /\ r \in Rows /\ rows \in Seq(RowRecord) /\ IsTable(rows) /\ r \in 0..Len(rows) /\ r \in Nat
    <2>1. At(t, "extract", "stored") /\ RowOf(t) = rows[r] /\ rows[r].type = "CEMS"
        BY <1>1 DEF CemsQuery, RowOf
    <2> QED
        BY <1>1, <2>1, Delivery DEF At, Rows
<1>3. "CEMS_DETAIL" \in TypesOf(source)
    <2>1. "CEMS" \in TypesOf(source)
        BY <1>2 DEF Typed
    <2>2. source = "CEMS"
        BY <2>1 DEF Paged, TypesOf, PagedTypes, Singles
    <2> QED
        BY <2>2 DEF TypesOf
<1>4. PICK codes : codes = Codes[rows[r].item]
    OBVIOUS
<1>5. codes \in Seq(Items)
    <2>1. "CEMS" \in PagedTypes /\ Walks["CEMS"] = CemsPages
        BY DEF PagedTypes, Walks
    <2>2. rows[r].item \in Listing(CemsPages)
        BY <1>2, <2>1 DEF IsTable, ItemFits, Rows
    <2> QED
        BY <1>4, <2>2, PagedAssumption
<1>6. PICK details : details = [i \in DOMAIN codes |-> Row("CEMS_DETAIL", codes[i], r)]
    OBVIOUS
<1>7. /\ details \in Seq(RowRecord) /\ DOMAIN details = DOMAIN codes
      /\ \A i \in DOMAIN codes :
            /\ details[i] \in RowRecord /\ details[i].type = "CEMS_DETAIL" /\ details[i].item = codes[i]
            /\ details[i].parent = r /\ Handled(details[i])
    <2>1. "CEMS_DETAIL" \in RowTypes
        BY PagedRows
    <2> QED
        BY <1>2, <1>5, <1>6, <2>1, RowsOfList
<1>8. ASSUME NEW i \in DOMAIN details
      PROVE  RowFits(details[i], rows) /\ details[i].type \in TypesOf(source) \ {"EXPOSURE_LIST"} /\ Handled(details[i])
    <2>1. ItemFits(details[i]) /\ details[i].type \notin DOMAIN ParentType
        BY <1>7 DEF ItemFits, ParentType, PagedTypes, Singles
    <2> QED
        BY <1>2, <1>3, <1>7, <2>1 DEF RowFits
<1>9. PICK next : next = NextPageRow(t)
    OBVIOUS
<1>10. /\ next \in Seq(RowRecord)
       /\ \A i \in DOMAIN next :
            RowFits(next[i], rows) /\ next[i].type \in TypesOf(source) \ {"EXPOSURE_LIST"} /\ Handled(next[i])
    <2>1. RowOf(t).type \in PagedTypes
        BY <1>2 DEF PagedTypes
    <2> QED
        BY <1>2, <1>9, <2>1, NextPageRowFits
<1>11. PICK new : new = details \o next
    OBVIOUS
<1>12. new \in Seq(RowRecord) /\ \A j \in DOMAIN new :
            (\E i \in DOMAIN details : new[j] = details[i]) \/ (\E i \in DOMAIN next : new[j] = next[i])
    <2>1. details \in Seq(RowRecord) /\ next \in Seq(RowRecord)
        BY <1>7, <1>10
    <2>2. /\ Len(details) \in Nat /\ Len(next) \in Nat /\ DOMAIN new = 1..(Len(details) + Len(next))
          /\ DOMAIN details = 1..Len(details) /\ DOMAIN next = 1..Len(next) /\ new \in Seq(RowRecord)
          /\ \A j \in 1..Len(details) : new[j] = details[j]
          /\ \A j \in (Len(details) + 1)..(Len(details) + Len(next)) : new[j] = next[j - Len(details)]
        BY ONLY <1>11, <2>1
    <2>3. ASSUME NEW j \in DOMAIN new
          PROVE  (\E i \in DOMAIN details : new[j] = details[i]) \/ (\E i \in DOMAIN next : new[j] = next[i])
        <3>1. CASE j \in 1..Len(details)
            BY <2>2, <3>1
        <3>2. CASE j \notin 1..Len(details)
            <4>1. /\ j \in (Len(details) + 1)..(Len(details) + Len(next))
                  /\ j - Len(details) \in DOMAIN next
                BY <2>2, <3>2
            <4> QED
                BY <2>2, <4>1
        <3> QED
            BY <3>1, <3>2
    <2> QED
        BY <2>2, <2>3
<1>13. \A j \in DOMAIN new :
            RowFits(new[j], rows) /\ new[j].type \in TypesOf(source) \ {"EXPOSURE_LIST"} /\ Handled(new[j])
    BY <1>8, <1>10, <1>12
<1>14. PICK none : none = <<>>
    OBVIOUS
<1>15. none \in Seq(Plain) /\ \A j \in DOMAIN none : Fresh(none[j], rows)
    BY <1>14
<1>16. PagedGoesOn(t, new, none)
    BY <1>1, <1>2, <1>4, <1>6, <1>9, <1>11, <1>14 DEF CemsQuery
<1> QED
    BY <1>2, <1>12, <1>13, <1>15, <1>16, PagedGoesOnStep

\* The transform of a row of these sources.
LEMMA PagedTransformFits ==
    ASSUME Typed, Paged, NEW t \in Messages, At(t, "extract", "stored")
    PROVE  /\ <<Transform(msgs[t].row)>> \in Seq(Plain)
           /\ \A j \in DOMAIN <<Transform(msgs[t].row)>> : Fresh(<<Transform(msgs[t].row)>>[j], rows)
<1>1. PICK r : r = msgs[t].row
    OBVIOUS
<1>2. r \in Rows /\ rows \in Seq(RowRecord)
    BY <1>1, Delivery DEF At
<1>3. Len(rows) \in Nat /\ r \in 1..Len(rows)
    BY <1>2 DEF Rows
<1>4. rows[r].type \notin NotRead
    <2>1. rows[r].type \in TypesOf(source)
        BY <1>2 DEF Typed
    <2> QED
        BY <2>1, PagedTypesAre, PagedRows
<1>5. PICK m : m = Transform(r)
    OBVIOUS
<1>6. m \in Plain /\ Fresh(m, rows)
    BY <1>3, <1>4, <1>5, TransformFresh
<1>7. <<m>> \in Seq(Plain) /\ \A j \in DOMAIN <<m>> : Fresh(<<m>>[j], rows)
    BY <1>6
<1> QED
    BY <1>1, <1>5, <1>7

\* A handler that publishes no more than the transform.
LEMMA TransformedStep ==
    ASSUME Typed, Paged, NEW t \in Messages, At(t, "extract", "stored"),
           NEW transforms, transforms = <<>> \/ transforms = <<Transform(msgs[t].row)>>,
           PagedGoesOn(t, <<>>, transforms)
    PROVE  Proper(t)
<1>1. transforms \in Seq(Plain) /\ \A j \in DOMAIN transforms : Fresh(transforms[j], rows)
    <2>1. CASE transforms = <<>>
        BY <2>1
    <2>2. CASE transforms = <<Transform(msgs[t].row)>>
        BY <2>2, PagedTransformFits
    <2> QED
        BY <2>1, <2>2
<1>2. PICK new : new = <<>>
    OBVIOUS
<1>3. /\ new \in Seq(RowRecord)
      /\ \A i \in DOMAIN new :
            RowFits(new[i], rows) /\ new[i].type \in TypesOf(source) \ {"EXPOSURE_LIST"} /\ Handled(new[i])
    BY <1>2
<1>4. PagedGoesOn(t, new, transforms)
    BY <1>2
<1> QED
    BY <1>1, <1>3, <1>4, PagedGoesOnStep

LEMMA IfrcQueryStep ==
    ASSUME Typed, Paged, NEW t \in Messages, IfrcQuery(t)
    PROVE  Proper(t)
<1>1. At(t, "extract", "stored") /\ RowOf(t).type \in PagedTypes
    BY DEF IfrcQuery, PagedTypes
<1>2. PICK new : new = NextPageRow(t)
    OBVIOUS
<1>3. /\ new \in Seq(RowRecord)
      /\ \A i \in DOMAIN new :
            RowFits(new[i], rows) /\ new[i].type \in TypesOf(source) \ {"EXPOSURE_LIST"} /\ Handled(new[i])
    BY <1>1, <1>2, NextPageRowFits
<1>4. PICK transforms : transforms = <<Transform(msgs[t].row)>>
    OBVIOUS
<1>5. transforms \in Seq(Plain) /\ \A j \in DOMAIN transforms : Fresh(transforms[j], rows)
    BY <1>1, <1>4, PagedTransformFits
<1>6. PagedGoesOn(t, new, transforms)
    BY <1>2, <1>4 DEF IfrcQuery
<1> QED
    BY <1>1, <1>3, <1>5, <1>6, PagedGoesOnStep

LEMMA CemsDetailStep ==
    ASSUME Typed, Paged, NEW t \in Messages, CemsDetail(t)
    PROVE  Proper(t)
<1>1. At(t, "extract", "stored") /\ (PagedGoesOn(t, <<>>, <<>>) \/ PagedGoesOn(t, <<>>, <<Transform(msgs[t].row)>>))
    BY DEF CemsDetail
<1> QED
    BY <1>1, TransformedStep

LEMMA SingleQueryStep ==
    ASSUME Typed, Paged, NEW t \in Messages, NEW single, SingleQuery(t, single)
    PROVE  Proper(t)
<1>1. At(t, "extract", "stored") /\ PagedGoesOn(t, <<>>, <<Transform(msgs[t].row)>>)
    BY DEF SingleQuery
<1> QED
    BY <1>1, TransformedStep

LEMMA PagedStepProper ==
    ASSUME Typed, Paged, NEW t \in Messages, PagedStep(t)
    PROVE  Proper(t)
<1>1. CASE Finish(t)
    BY <1>1, FinishStep
<1>2. CASE WorkerLost(t)
    BY <1>2, LostStep
<1>3. CASE PagedFetched(t)
    BY <1>3, PagedFetchedStep
<1>4. CASE CemsQuery(t)
    BY <1>4, CemsQueryStep
<1>5. CASE CemsDetail(t)
    BY <1>5, CemsDetailStep
<1>6. CASE IfrcQuery(t)
    BY <1>6, IfrcQueryStep
<1>7. CASE \E single \in Singles : SingleQuery(t, single)
    BY <1>7, SingleQueryStep
<1>8. CASE PagedGoesWrong(t)
    BY <1>8, FetchGoesWrongStep DEF PagedGoesWrong, FetchGoesWrong
<1>9. CASE RunTransform(t, WithOwn(msgs[t].row, {}))
    BY <1>9, OwnReadable, ReadingStep
<1>10. (GfdQuery(t) \/ EmdatQuery(t) \/ GlideQuery(t) \/ IduQuery(t) \/ GiddQuery(t)
            \/ IbtracsQuery(t) \/ DesinventarQuery(t)) => \E single \in Singles : SingleQuery(t, single)
    BY DEF GfdQuery, EmdatQuery, GlideQuery, IduQuery, GiddQuery, IbtracsQuery, DesinventarQuery, Singles
<1> QED
    BY <1>1, <1>2, <1>3, <1>4, <1>5, <1>6, <1>7, <1>8, <1>9, <1>10 DEF PagedStep

LEMMA PagedKeeps ==
    ASSUME Typed, AllAttended, Paged, PagedNext, UNCHANGED source
    PROVE  Typed' /\ AllAttended'
<1>1. CASE PagedNextDay
    BY <1>1, PagedNextDayKeeps
<1>2. CASE \E t \in Messages : PagedStep(t)
    BY <1>2, PagedStepProper, ProperKeeps, FanOutAssumption
<1>3. CASE \E status \in {"FAILED", "PENDING"} : Retrigger(status, Itself)
    <2>1. PICK target : target = Itself
        OBVIOUS
    <2>2. \A r \in Rows : target[r] \in Plain /\ Fresh(target[r], rows)
        BY <2>1, ItselfFits DEF Typed, IsTable
    <2>3. PICK status \in {"FAILED", "PENDING"} : Retrigger(status, target)
        BY <1>3, <2>1
    <2> QED
        BY <2>2, <2>3, RetriggerKeeps
<1>4. CASE \E i \in Items : Change(i)
    BY <1>4, ChangeKeeps
<1> QED
    BY <1>1, <1>2, <1>3, <1>4 DEF PagedNext

-----------------------------------------------------------------------------
(* The sources together.                                                     *)

LEMMA InitEstablishes == Init => Typed /\ AllAttended
<1> SUFFICES ASSUME Init PROVE Typed /\ AllAttended
    OBVIOUS
<1>1. source \in Chosen
    BY DEF Init
<1>2. CASE source = "DISASTERCHARTER" /\ CharterInit
    BY <1>1, <1>2, CharterInitKeeps DEF Charter
<1>3. CASE source = "GDACS" /\ GdacsInit
    BY <1>1, <1>3, GdacsInitKeeps DEF Gdacs
<1>4. CASE source = "USGS" /\ UsgsInit
    BY <1>1, <1>4, UsgsInitKeeps DEF Usgs
<1>5. CASE source = "PDC" /\ PdcInit
    BY <1>1, <1>5, PdcInitKeeps DEF Pdc
<1>6. CASE source \in PagedTypes /\ PagedInit(source)
    BY <1>1, <1>6, PagedInitKeeps DEF Paged
<1> QED
    BY <1>2, <1>3, <1>4, <1>5, <1>6 DEF Init

LEMMA NextKeeps == Typed /\ AllAttended /\ [Next]_<<source, vars>> => Typed' /\ AllAttended'
<1> SUFFICES ASSUME Typed, AllAttended, [Next]_<<source, vars>> PROVE Typed' /\ AllAttended'
    OBVIOUS
<1>1. CASE source = "DISASTERCHARTER" /\ CharterNext /\ UNCHANGED source
    BY <1>1, CharterKeeps DEF Charter
<1>2. CASE source = "GDACS" /\ GdacsNext /\ UNCHANGED source
    BY <1>2, GdacsKeeps DEF Gdacs
<1>3. CASE source = "USGS" /\ UsgsNext /\ UNCHANGED source
    BY <1>3, UsgsKeeps DEF Usgs
<1>4. CASE source = "PDC" /\ PdcNext /\ UNCHANGED source
    BY <1>4, PdcKeeps DEF Pdc
<1>5. CASE source \in PagedTypes /\ PagedNext /\ UNCHANGED source
    BY <1>5, PagedKeeps DEF Paged
<1>6. CASE UNCHANGED <<source, vars>>
    <2>1. UNCHANGED source /\ UNCHANGED <<rows, msgs, chords, world, ended, fed, spent>>
        BY <1>6 DEF vars
    <2>2. TableGoesOn /\ rows \in Seq(RowRecord) /\ rows' \in Seq(RowRecord) /\ Grows(rows, rows')
        BY <2>1, RowsStay
    <2>3. IsQueue(msgs', chords', rows')
        BY <2>1 DEF Typed
    <2>4. WorldGoesOn /\ HasRead'
        BY <2>1, <2>2, WorldStays, ReadStays DEF Typed
    <2>5. AllAttended'
        BY <2>1 DEF AllAttended, Attended, InCharge, Rows, Messages
    <2> QED
        BY <2>1, <2>2, <2>3, <2>4, <2>5, TypedLater
<1> QED
    BY <1>1, <1>2, <1>3, <1>4, <1>5, <1>6 DEF Next

LEMMA TypedTypes == Typed => FanOutTypeOK
<1> SUFFICES ASSUME Typed PROVE FanOutTypeOK
    OBVIOUS
<1>1. rows \in Seq(RowRecord) /\ Len(rows) \in Nat /\ Rows = 1..Len(rows)
    BY DEF Typed, IsTable, Rows
<1>2. ASSUME NEW r \in Rows
      PROVE  /\ rows[r].item \in Items /\ rows[r].parent \in 0..(r - 1)
             /\ rows[r].status \in Status /\ rows[r].valid \in {"NONE", "NO_CHANGE", "NO_DATA"}
             /\ rows[r].content \in 0..(MaxFaults + 1) /\ rows[r].tag \in 0..(MaxFaults + 1)
    <2>1. rows[r] \in RowRecord /\ ParentFits(rows, r)
        BY <1>1 DEF Typed, IsTable, Rows
    <2> QED
        BY <2>1 DEF RowRecord, Content, ParentFits
<1>3. msgs \in Seq(Message) /\ chords \in Seq(Chord) /\ Len(chords) \in Nat
    BY DEF Typed, IsQueue
<1>4. ASSUME NEW t \in Messages
      PROVE  /\ msgs[t].kind \in {"extract", "transform", "batch", "trigger"}
             /\ {msgs[t].row, msgs[t].failed, msgs[t].value} \subseteq 0..Len(rows)
             /\ msgs[t].pc \in {"queued", "stored", "made", "sent"}
             /\ msgs[t].retries \in 0..CeleryRetries
             /\ msgs[t].chord \in 0..Len(chords)
    <2>1. /\ msgs[t] \in Message /\ MessageFits(msgs[t], rows) /\ msgs[t].chord <= Len(chords)
        BY <1>3 DEF Typed, IsQueue, Messages
    <2>2. /\ msgs[t].kind \in Kinds /\ msgs[t].pc \in Places /\ msgs[t].retries \in Nat /\ msgs[t].chord \in Nat
        BY <2>1 DEF Message, MessageWith
    <2>3. {msgs[t].row, msgs[t].failed, msgs[t].value} \subseteq 0..Len(rows) /\ msgs[t].retries <= CeleryRetries
        BY <2>1 DEF MessageFits, Refers
    <2> QED
        BY <1>3, <2>1, <2>2, <2>3, FanOutAssumption DEF Kinds, Places
<1>5. \A c \in DOMAIN chords : chords[c].left \in Nat
    <2>1. \A c \in DOMAIN chords : chords[c] \in Chord
        BY <1>3
    <2> QED
        BY <2>1 DEF Chord
<1>6. ended \subseteq Rows /\ fed \subseteq Rows \X (1..(MaxFaults + 1))
    BY DEF Typed, HasRead
<1> QED
    BY <1>2, <1>4, <1>5, <1>6 DEF FanOutTypeOK

(* The variables of the sources keep their types: whatever is retried,        *)
(* redelivered, retriggered or found among the rows that are there, rows and   *)
(* messages refer to rows that are there, no message is retried more often    *)
(* than Celery allows, and a chord never counts more parts than it has        *)
(* (BaseExtractionV2 in extraction/sources/base/handler.py).                  *)
THEOREM TypeCorrect == SourcesSpec => []FanOutTypeOK
<1>1. Init => Typed /\ AllAttended
    BY InitEstablishes
<1>2. Typed /\ AllAttended /\ [Next]_<<source, vars>> => (Typed /\ AllAttended)'
    BY NextKeeps
<1>3. Typed /\ AllAttended => FanOutTypeOK
    BY TypedTypes
<1> QED
    BY <1>1, <1>2, <1>3, PTL DEF SourcesSpec

(* No row of any source is left in a status that nothing picks up: when no      *)
(* message is left, a row has ended or is one that the sweep or the retrigger   *)
(* looks for, but for a lost worker, retry() beyond Celery's own limit, and an   *)
(* impact (handle_extract_error, base/handler.py, and retrigger.py).            *)
THEOREM NoRowStuck == SourcesSpec => []NothingStuck
<1>1. Init => Typed /\ AllAttended
    BY InitEstablishes
<1>2. Typed /\ AllAttended /\ [Next]_<<source, vars>> => (Typed /\ AllAttended)'
    BY NextKeeps
<1>3. Typed /\ AllAttended => NothingStuck
    BY DEF AllAttended, Attended, NothingStuck, Quiet, Messages
<1> QED
    BY <1>1, <1>2, <1>3, PTL DEF SourcesSpec
=============================================================================
