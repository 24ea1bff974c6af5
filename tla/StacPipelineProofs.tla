------------------------- MODULE StacPipelineProofs -------------------------
(***************************************************************************)
(* Proofs about StacPipeline, for any transforms, deliveries, chunk sizes  *)
(* and bounds.  Of transforms: no item is dropped, a successful transform   *)
(* has left a row for each of its items, whatever was lost, retriggered or  *)
(* delivered twice.  Of the loader: a run of load_data sends each row once, *)
(* oldest first, within its limit, and to collections the server has; and   *)
(* the server's version of an item is never older than one recorded as      *)
(* loaded, unless it deferred a version of it.                              *)
(***************************************************************************)
EXTENDS StacPipeline, TLAPS, FiniteSetTheorems

Row == [key : Keys, of : Transforms, status : RowStatus]

\* The transforms whose rows handle_transformation may delete.
Refusing == Rejected \ Unrated

\* Item i of a transform has, or had, a row.
Stored(t, i) == \E r \in DOMAIN rows : rows[r].of = t /\ rows[r].key = Produces[t][i]

Types ==
    /\ rows \in Seq(Row)
    /\ tstatus \in [Transforms -> {"PENDING", "IN_PROGRESS", "SUCCESS", "FAILED"}]
    /\ job \in [Jobs -> [pc : JobPC, done : Nat]]

\* What the loader notes is an outcome of sending.
Outcomes ==
    /\ loader = [pc |-> loader.pc, open |-> loader.open, batch |-> loader.batch,
                 sent |-> loader.sent, updates |-> loader.updates]
    /\ \A u \in loader.updates : u[2] \in {"SUCCESS", "FAILED"}

RejectedOfRefusing ==
    \A r \in DOMAIN rows : rows[r].status = "REJECTED" => rows[r].of \in Refusing

\* A delivery that has counted an item has written it, and decides when all are.
JobStores(j) ==
    /\ At(j, "adding") =>
        /\ job[j].done <= Len(Produces[Of[j]])
        /\ \A i \in 1..job[j].done : Stored(Of[j], i)
    /\ At(j, "deciding") => \A i \in DOMAIN Produces[Of[j]] : Stored(Of[j], i)
    /\ At(j, "deleting") => Of[j] \in Refusing

SuccessStored ==
    \A t \in Transforms : tstatus[t] = "SUCCESS" =>
        t \notin Refusing /\ \A i \in DOMAIN Produces[t] : Stored(t, i)

IInv == Types /\ Outcomes /\ RejectedOfRefusing /\ SuccessStored /\ \A j \in Jobs : JobStores(j)

\* What every step does to the rows: none changes its item or its transform.
RowsKept ==
    /\ Len(rows) <= Len(rows')
    /\ \A r \in DOMAIN rows : rows'[r].of = rows[r].of /\ rows'[r].key = rows[r].key

LEMMA KeptStored ==
    ASSUME Types, Types', RowsKept, NEW t \in Transforms, NEW i \in Nat, Stored(t, i)
    PROVE  Stored(t, i)'
<1>1. PICK r \in DOMAIN rows : rows[r].of = t /\ rows[r].key = Produces[t][i]
    BY DEF Stored
<1>2. r \in DOMAIN rows'
    BY DEF Types, RowsKept
<1> QED
    BY <1>1, <1>2 DEF RowsKept, Stored

LEMMA SameRows ==
    ASSUME Types, RejectedOfRefusing, rows' = rows
    PROVE  rows' \in Seq(Row) /\ RowsKept /\ RejectedOfRefusing'
BY DEF Types, RowsKept, RejectedOfRefusing

\* A table in which each row keeps its item and its transform, and is rejected only if
\* it was or is one of a refusing transform.
LEMMA RowByRow ==
    ASSUME Types, RejectedOfRefusing, rows' \in [DOMAIN rows -> Row],
           \A r \in DOMAIN rows :
                /\ rows'[r].of = rows[r].of /\ rows'[r].key = rows[r].key
                /\ rows'[r].status = "REJECTED" => rows[r].status = "REJECTED" \/ rows[r].of \in Refusing
    PROVE  rows' \in Seq(Row) /\ RowsKept /\ RejectedOfRefusing'
<1>1. DOMAIN rows = 1..Len(rows) /\ Len(rows) \in Nat
    BY DEF Types
<1>2. rows' \in Seq(Row) /\ DOMAIN rows' = DOMAIN rows /\ Len(rows') = Len(rows)
    BY <1>1
<1> QED
    BY <1>2 DEF RowsKept, RejectedOfRefusing

LEMMA WrittenKept ==
    ASSUME Types, RejectedOfRefusing, NEW updates, \A u \in updates : u[2] \in {"SUCCESS", "FAILED"},
           rows' = Written(updates)
    PROVE  rows' \in Seq(Row) /\ RowsKept /\ RejectedOfRefusing'
<1> DEFINE f(r) ==
        IF Exists(r) /\ \E s \in RowStatus : <<r, s>> \in updates
        THEN [rows[r] EXCEPT !.status = CHOOSE s \in RowStatus : <<r, s>> \in updates]
        ELSE rows[r]
<1>1. ASSUME NEW r \in DOMAIN rows
      PROVE  /\ f(r) \in Row /\ f(r).of = rows[r].of /\ f(r).key = rows[r].key
             /\ f(r).status = "REJECTED" => rows[r].status = "REJECTED" \/ rows[r].of \in Refusing
    <2>1. rows[r] \in Row
        BY DEF Types
    <2>2. CASE Exists(r) /\ \E s \in RowStatus : <<r, s>> \in updates
        <3>1. PICK s \in RowStatus : s = CHOOSE x \in RowStatus : <<r, x>> \in updates
            BY <2>2
        <3>2. <<r, s>> \in updates
            BY <2>2, <3>1
        <3>3. s # "REJECTED"
            BY <3>2
        <3>4. f(r) = [rows[r] EXCEPT !.status = s]
            BY <2>2, <3>1
        <3> QED
            BY <2>1, <3>3, <3>4 DEF Row
    <2>3. CASE ~(Exists(r) /\ \E s \in RowStatus : <<r, s>> \in updates)
        BY <2>1, <2>3
    <2> QED
        BY <2>2, <2>3
<1>2. rows' = [r \in DOMAIN rows |-> f(r)]
    BY DEF Written
<1> HIDE DEF f
<1>3. rows' \in [DOMAIN rows -> Row]
    BY <1>1, <1>2
<1>4. \A r \in DOMAIN rows : rows'[r] = f(r)
    BY <1>2
<1> QED
    BY <1>1, <1>3, <1>4, RowByRow

-----------------------------------------------------------------------------
\* A step that leaves the transforms alone.
LEMMA RowsOnly ==
    ASSUME IInv, rows' \in Seq(Row), Outcomes', RowsKept, RejectedOfRefusing',
           UNCHANGED <<tstatus, job>>
    PROVE  IInv'
<1> USE PipelineAssumption
<1>1. Types'
    BY DEF IInv, Types
<1>2. SuccessStored'
    <2> SUFFICES ASSUME NEW t \in Transforms, tstatus[t] = "SUCCESS"
                 PROVE  t \notin Refusing /\ \A i \in DOMAIN Produces[t] : Stored(t, i)'
        BY DEF SuccessStored
    <2>1. t \notin Refusing /\ \A i \in DOMAIN Produces[t] : Stored(t, i)
        BY DEF IInv, SuccessStored
    <2>2. Produces[t] \in Seq(Keys) /\ DOMAIN Produces[t] \subseteq Nat
        OBVIOUS
    <2> QED
        BY <2>1, <2>2, <1>1, KeptStored DEF IInv
<1>3. ASSUME NEW j \in Jobs PROVE JobStores(j)'
    <2>1. JobStores(j) /\ Of[j] \in Transforms /\ DOMAIN Produces[Of[j]] \subseteq Nat /\ 1..job[j].done \subseteq Nat
        BY DEF IInv
    <2>2. \A i \in Nat : Stored(Of[j], i) => Stored(Of[j], i)'
        BY <2>1, <1>1, KeptStored DEF IInv
    <2> QED
        BY <2>1, <2>2 DEF JobStores, At
<1> QED
    BY <1>1, <1>2, <1>3 DEF IInv

\* The statuses a loader holds may be written at once, or later.
LEMMA NoteKept ==
    ASSUME IInv, NEW r, NEW updates, \A u \in updates : u[2] \in {"SUCCESS", "FAILED"}, Note(r, updates)
    PROVE  rows' \in Seq(Row) /\ RowsKept /\ RejectedOfRefusing' /\ Outcomes'
<1> DEFINE full == Cardinality(updates) >= UpdateChunk
<1>1. rows' \in Seq(Row) /\ RowsKept /\ RejectedOfRefusing'
    <2>1. CASE full
        BY <2>1, WrittenKept DEF Note, IInv
    <2>2. CASE ~full
        BY <2>2, SameRows DEF Note, IInv
    <2> QED
        BY <2>1, <2>2
<1>2. Outcomes'
    <2> HIDE DEF full
    <2>1. loader' = [loader EXCEPT !.pc = IF loader.batch = {r} THEN "asking" ELSE "sending",
                                   !.batch = @ \ {r},
                                   !.sent = @ \cup {r},
                                   !.updates = IF full THEN {} ELSE updates]
        BY DEF Note, full
    <2> QED
        BY <2>1 DEF IInv, Outcomes
<1> QED
    BY <1>1, <1>2

LEMMA LoadStep ==
    ASSUME IInv, LoadWork \/ LoaderLost
    PROVE  IInv'
<1>1. Types /\ Outcomes /\ RejectedOfRefusing
    BY DEF IInv
<1>2. CASE StartLoad \/ LoaderLost
    BY <1>1, <1>2, SameRows, RowsOnly DEF StartLoad, LoaderLost, Outcomes, NoLoader
<1>3. CASE OpenCollections
    <2>1. Outcomes'
        <3>1. PICK open : loader' = IF open = {} THEN NoLoader
                                    ELSE [loader EXCEPT !.pc = "asking", !.open = open]
            BY <1>3 DEF OpenCollections
        <3>2. CASE open = {}
            BY <3>1, <3>2 DEF Outcomes, NoLoader
        <3>3. CASE open # {}
            BY <1>1, <3>1, <3>3 DEF Outcomes
        <3> QED
            BY <3>2, <3>3
    <2> QED
        BY <1>1, <1>3, <2>1, SameRows, RowsOnly DEF OpenCollections
<1>4. CASE ReadBatch
    <2>1. Outcomes'
        BY <1>1, <1>4 DEF ReadBatch, Outcomes
    <2> QED
        BY <1>1, <1>4, <2>1, SameRows, RowsOnly DEF ReadBatch
<1>5. ASSUME NEW r \in loader.batch, SendAccepted(r) PROVE IInv'
    <2>1. \A u \in loader.updates \cup {<<r, "SUCCESS">>} : u[2] \in {"SUCCESS", "FAILED"}
        BY <1>1 DEF Outcomes
    <2> QED
        BY <1>5, <2>1, NoteKept, RowsOnly DEF SendAccepted
<1>6. ASSUME NEW r \in loader.batch, SendRefused(r) PROVE IInv'
    <2>1. \A u \in loader.updates \cup {<<r, "FAILED">>} : u[2] \in {"SUCCESS", "FAILED"}
        BY <1>1 DEF Outcomes
    <2> QED
        BY <1>6, <2>1, NoteKept, RowsOnly DEF SendRefused
<1>7. ASSUME NEW r \in loader.batch, SendDeferred(r) PROVE IInv'
    <2>1. \A u \in loader.updates : u[2] \in {"SUCCESS", "FAILED"}
        BY <1>1 DEF Outcomes
    <2> QED
        BY <1>7, <2>1, NoteKept, RowsOnly DEF SendDeferred
<1>8. ASSUME NEW r \in loader.batch, SendRaised(r) PROVE IInv'
    <2>1. Outcomes'
        BY <1>1, <1>8 DEF SendRaised, Outcomes
    <2> QED
        BY <1>1, <1>8, <2>1, SameRows, RowsOnly DEF SendRaised
<1>9. CASE Flush
    <2>1. rows' \in Seq(Row) /\ RowsKept /\ RejectedOfRefusing'
        BY <1>1, <1>9, WrittenKept DEF Flush, Outcomes
    <2>2. Outcomes'
        BY <1>9 DEF Flush, Outcomes, NoLoader
    <2> QED
        BY <1>9, <2>1, <2>2, RowsOnly DEF Flush
<1> QED
    BY <1>2, <1>3, <1>4, <1>5, <1>6, <1>7, <1>8, <1>9 DEF LoadWork

LEMMA CleanupStep ==
    ASSUME IInv, NEW r \in DOMAIN rows, Cleanup(r)
    PROVE  IInv'
<1>1. rows' = [rows EXCEPT ![r].status = "CLEANED"]
    BY DEF Cleanup
<1>2. rows \in [DOMAIN rows -> Row]
    BY DEF IInv, Types
<1>3. rows' \in [DOMAIN rows -> Row]
    BY <1>1, <1>2 DEF Row, RowStatus
<1>4. \A q \in DOMAIN rows :
        /\ rows'[q].of = rows[q].of /\ rows'[q].key = rows[q].key
        /\ rows'[q].status = "REJECTED" => rows[q].status = "REJECTED"
    BY <1>1, <1>2 DEF Row
<1> QED
    BY <1>3, <1>4, RowByRow, RowsOnly DEF IInv, Cleanup, Outcomes

-----------------------------------------------------------------------------
\* A step of one delivery that leaves the rows alone, or adds some.
LEMMA DeliveryStep ==
    ASSUME IInv, NEW j \in Jobs, NEW pc \in JobPC, NEW n \in Nat, GoOn(j, pc, n), JobStores(j)',
           tstatus' \in [Transforms -> {"PENDING", "IN_PROGRESS", "SUCCESS", "FAILED"}],
           \A t \in Transforms : tstatus'[t] = "SUCCESS" =>
                \/ tstatus[t] = "SUCCESS"
                \/ t \notin Refusing /\ \A i \in DOMAIN Produces[t] : Stored(t, i),
           rows' \in Seq(Row), RowsKept, RejectedOfRefusing', UNCHANGED loader
    PROVE  IInv'
<1> USE PipelineAssumption
<1>1. Types' /\ Outcomes'
    BY DEF IInv, Types, Outcomes, GoOn
<1>2. ASSUME NEW t \in Transforms, NEW i \in Nat, Stored(t, i) PROVE Stored(t, i)'
    BY <1>1, <1>2, KeptStored DEF IInv
<1>3. SuccessStored'
    <2> SUFFICES ASSUME NEW t \in Transforms, tstatus'[t] = "SUCCESS"
                 PROVE  t \notin Refusing /\ \A i \in DOMAIN Produces[t] : Stored(t, i)'
        BY DEF SuccessStored
    <2>1. t \notin Refusing /\ \A i \in DOMAIN Produces[t] : Stored(t, i)
        BY DEF IInv, SuccessStored
    <2>2. Produces[t] \in Seq(Keys) /\ DOMAIN Produces[t] \subseteq Nat
        OBVIOUS
    <2> QED
        BY <2>1, <2>2, <1>2
<1>4. ASSUME NEW k \in Jobs, k # j PROVE JobStores(k)'
    <2>1. JobStores(k) /\ Of[k] \in Transforms /\ DOMAIN Produces[Of[k]] \subseteq Nat /\ 1..job[k].done \subseteq Nat
        BY DEF IInv
    <2>2. job'[k] = job[k]
        BY <1>4 DEF GoOn, IInv, Types
    <2> QED
        BY <2>1, <2>2, <1>2 DEF JobStores, At
<1> QED
    BY <1>1, <1>3, <1>4 DEF IInv

LEMMA FunctionIsSequence ==
    ASSUME NEW S, NEW m \in Nat, NEW s \in [1..m -> S]
    PROVE  s \in Seq(S) /\ Len(s) = m
OBVIOUS

LEMMA CreateStep ==
    ASSUME IInv, NEW j \in Jobs, CreateRows(j)
    PROVE  IInv'
<1> USE PipelineAssumption
<1> DEFINE t == Of[j]
           done == job[j].done
           left == Len(Produces[t]) - done
           n == Least(left, CreateChunk)
           pc == IF left < CreateChunk THEN "deciding" ELSE "adding"
<1>1. /\ Types /\ At(j, "adding") /\ rows' = rows \o NewRows(j, n) /\ GoOn(j, pc, done + n)
      /\ UNCHANGED <<tstatus, loader>>
    BY DEF CreateRows, IInv
<1>2. t \in Transforms /\ Produces[t] \in Seq(Keys) /\ done \in Nat /\ done <= Len(Produces[t])
    BY <1>1 DEF IInv, Types, JobStores
<1>3. n \in Nat /\ n <= left /\ (left < CreateChunk => n = left)
    BY <1>2 DEF Least
<1>4. NewRows(j, n) \in Seq(Row) /\ Len(NewRows(j, n)) = n
    <2>1. \A i \in 1..n : Produces[t][done + i] \in Keys
        BY <1>2, <1>3
    <2>2. NewRows(j, n) \in [1..n -> Row]
        BY <1>2, <2>1 DEF NewRows, Row, RowStatus
    <2>3. n \in Nat
        BY <1>3
    <2> HIDE DEF n
    <2> QED
        BY <2>2, <2>3, FunctionIsSequence, Zenon
<1>5. rows' \in Seq(Row) /\ Len(rows') = Len(rows) + n
    <2>1. \A s \in Seq(Row) : rows \o s \in Seq(Row) /\ Len(rows \o s) = Len(rows) + Len(s)
        BY <1>1 DEF Types
    <2> QED
        BY <1>1, <1>4, <2>1
<1>6. \A r \in DOMAIN rows : r \in DOMAIN rows' /\ rows'[r] = rows[r]
    BY <1>1, <1>3, <1>4 DEF Types
<1>7. \A i \in 1..n : Len(rows) + i \in DOMAIN rows' /\ rows'[Len(rows) + i] =
            [key |-> Produces[t][done + i], of |-> t, status |-> "PENDING"]
    <2> SUFFICES ASSUME NEW i \in 1..n
                 PROVE  Len(rows) + i \in DOMAIN rows' /\ rows'[Len(rows) + i] =
                            [key |-> Produces[t][done + i], of |-> t, status |-> "PENDING"]
        OBVIOUS
    <2>1. NewRows(j, n)[i] = [key |-> Produces[t][done + i], of |-> t, status |-> "PENDING"]
        BY <1>3 DEF NewRows
    <2>2. rows'[Len(rows) + i] = NewRows(j, n)[i]
        BY <1>1, <1>3, <1>4 DEF Types
    <2> QED
        BY <1>3, <1>5, <2>1, <2>2 DEF Types
<1>8. RowsKept
    BY <1>3, <1>5, <1>6 DEF RowsKept, Types
<1>9. RejectedOfRefusing'
    <2> SUFFICES ASSUME NEW r \in DOMAIN rows', rows'[r].status = "REJECTED"
                 PROVE  rows'[r].of \in Refusing
        BY DEF RejectedOfRefusing
    <2>1. r \in DOMAIN rows \/ \E i \in 1..n : r = Len(rows) + i
        <3>1. r \in 1..(Len(rows) + n) /\ Len(rows) \in Nat /\ DOMAIN rows = 1..Len(rows)
            BY <1>1, <1>3, <1>5 DEF Types
        <3>2. CASE r > Len(rows)
            <4>1. r - Len(rows) \in 1..n /\ r = Len(rows) + (r - Len(rows))
                BY <1>3, <3>1, <3>2
            <4> QED
                BY <4>1
        <3> QED
            BY <3>1, <3>2
    <2>2. CASE r \in DOMAIN rows
        BY <1>6, <2>2 DEF IInv, RejectedOfRefusing
    <2>3. CASE \E i \in 1..n : r = Len(rows) + i
        <3>1. PICK i \in 1..n : r = Len(rows) + i
            BY <2>3
        <3>2. rows'[r] = [key |-> Produces[t][done + i], of |-> t, status |-> "PENDING"]
            BY <1>7, <3>1
        <3> QED
            BY <3>2
    <2> QED
        BY <2>1, <2>2, <2>3
<1>10. \A i \in 1..(done + n) : Stored(t, i)'
    <2> SUFFICES ASSUME NEW i \in 1..(done + n) PROVE Stored(t, i)'
        OBVIOUS
    <2>1. CASE i <= done
        <3>1. Stored(t, i)
            BY <1>1, <1>2, <2>1 DEF IInv, JobStores
        <3>2. PICK r \in DOMAIN rows : rows[r].of = t /\ rows[r].key = Produces[t][i]
            BY <3>1 DEF Stored
        <3>3. r \in DOMAIN rows' /\ rows'[r].of = t /\ rows'[r].key = Produces[t][i]
            BY <1>6, <3>2
        <3> QED
            BY <3>3 DEF Stored
    <2>2. CASE i > done
        <3>1. i - done \in 1..n /\ i = done + (i - done)
            BY <1>2, <1>3, <2>2
        <3> DEFINE r == Len(rows) + (i - done)
        <3>2. r \in DOMAIN rows' /\ rows'[r] = [key |-> Produces[t][i], of |-> t, status |-> "PENDING"]
            BY <1>7, <3>1
        <3>3. rows'[r].of = t /\ rows'[r].key = Produces[t][i]
            BY <3>2
        <3> HIDE DEF r
        <3> QED
            BY <3>2, <3>3 DEF Stored
    <2> QED
        BY <1>2, <1>3, <2>1, <2>2
<1>11. job'[j] = [pc |-> pc, done |-> done + n]
    BY <1>1 DEF GoOn, Types
<1>12. JobStores(j)'
    BY <1>2, <1>3, <1>10, <1>11 DEF JobStores, At
<1>13. Outcomes /\ pc \in JobPC /\ done + n \in Nat
    BY <1>2, <1>3 DEF IInv, JobPC
<1> HIDE DEF n, pc, done, left, t
<1> QED
    BY <1>1, <1>5, <1>8, <1>9, <1>12, <1>13, DeliveryStep DEF Types

LEMMA DeleteStep ==
    ASSUME IInv, NEW j \in Jobs, DeleteRows(j)
    PROVE  IInv'
<1>1. Of[j] \in Refusing
    BY DEF DeleteRows, IInv, JobStores
<1>2. \A r \in DOMAIN rows : rows[r] \in Row
    BY DEF IInv, Types
<1>3. rows' \in [DOMAIN rows -> Row]
    BY <1>2 DEF DeleteRows, Row, RowStatus
<1>4. \A r \in DOMAIN rows :
        /\ rows'[r].of = rows[r].of /\ rows'[r].key = rows[r].key
        /\ rows'[r].status = "REJECTED" => rows[r].status = "REJECTED" \/ rows[r].of \in Refusing
    BY <1>1, <1>2 DEF DeleteRows, Row
<1>5. rows' \in Seq(Row) /\ RowsKept /\ RejectedOfRefusing'
    BY <1>3, <1>4, RowByRow DEF IInv
<1>6. GoOn(j, "clearing", 0) /\ UNCHANGED <<tstatus, loader>>
    BY DEF DeleteRows
<1>7. JobStores(j)'
    BY <1>6 DEF GoOn, JobStores, At, IInv, Types
<1> QED
    BY <1>5, <1>6, <1>7, DeliveryStep DEF IInv, Types, JobPC

\* A step of a delivery that changes its transform at most to something else than SUCCESS.
LEMMA OtherStatus ==
    ASSUME IInv, NEW j \in Jobs, NEW pc \in JobPC, GoOn(j, pc, 0), pc # "deciding",
           pc = "deleting" => Of[j] \in Refusing,
           UNCHANGED <<rows, loader>>,
           \/ UNCHANGED tstatus
           \/ SetStatus(j, "PENDING") \/ SetStatus(j, "IN_PROGRESS") \/ SetStatus(j, "FAILED")
    PROVE  IInv'
<1> USE PipelineAssumption
<1>1. job'[j] = [pc |-> pc, done |-> 0]
    BY DEF GoOn, IInv, Types
<1>2. JobStores(j)'
    <2>1. Len(Produces[Of[j]]) \in Nat
        OBVIOUS
    <2> QED
        BY <1>1, <2>1 DEF JobStores, At
<1>3. tstatus' \in [Transforms -> {"PENDING", "IN_PROGRESS", "SUCCESS", "FAILED"}]
    BY DEF IInv, Types, SetStatus
<1>4. \A t \in Transforms : tstatus'[t] = "SUCCESS" => tstatus[t] = "SUCCESS"
    BY DEF IInv, Types, SetStatus
<1>5. rows' \in Seq(Row) /\ RowsKept /\ RejectedOfRefusing'
    BY SameRows DEF IInv
<1> QED
    BY <1>2, <1>3, <1>4, <1>5, DeliveryStep

\* All items of a delivery are written, and its transform succeeds.
LEMMA Succeeds ==
    ASSUME IInv, NEW j \in Jobs, At(j, "deciding"), Of[j] \notin Refusing,
           SetStatus(j, "SUCCESS"), GoOn(j, "clearing", 0), UNCHANGED <<rows, loader>>
    PROVE  IInv'
<1> USE PipelineAssumption
<1>1. JobStores(j)'
    BY DEF GoOn, IInv, Types, JobStores, At
<1>2. tstatus' \in [Transforms -> {"PENDING", "IN_PROGRESS", "SUCCESS", "FAILED"}]
    BY DEF IInv, Types, SetStatus
<1>3. \A i \in DOMAIN Produces[Of[j]] : Stored(Of[j], i)
    BY DEF IInv, JobStores
<1>4. ASSUME NEW t \in Transforms, tstatus'[t] = "SUCCESS", tstatus[t] # "SUCCESS" PROVE t = Of[j]
    BY <1>4 DEF IInv, Types, SetStatus
<1>5. rows' \in Seq(Row) /\ RowsKept /\ RejectedOfRefusing'
    BY SameRows DEF IInv
<1>6. "clearing" \in JobPC /\ 0 \in Nat
    BY DEF JobPC
<1> QED
    BY <1>1, <1>2, <1>3, <1>4, <1>5, <1>6, DeliveryStep

LEMMA TransformStep ==
    ASSUME IInv, NEW j \in Jobs,
           TransformWork(j) \/ Queue(j) \/ AskRetrigger(j) \/ FailTransform(j) \/ TransformLost(j)
    PROVE  IInv'
<1> USE DEF JobPC
<1>1. CASE Queue(j)
    BY <1>1, OtherStatus DEF Queue
<1>2. CASE AskRetrigger(j)
    BY <1>2, OtherStatus DEF AskRetrigger
<1>3. CASE Retrigger(j)
    BY <1>3, OtherStatus DEF Retrigger
<1>4. CASE StartTransform(j)
    BY <1>4, OtherStatus DEF StartTransform
<1>5. CASE Decide(j)
    <2>1. CASE Of[j] \notin Rejected
        BY <1>5, <2>1, Succeeds DEF Decide, Refusing
    <2>2. CASE Of[j] \in Rejected
        BY <1>5, <2>2, OtherStatus DEF Decide, Refusing
    <2> QED
        BY <2>1, <2>2
<1>6. CASE EndUnrated(j)
    BY <1>6, Succeeds DEF EndUnrated, Refusing
<1>7. CASE EndTransform(j)
    BY <1>7, OtherStatus DEF EndTransform
<1>8. CASE FailTransform(j)
    BY <1>8, OtherStatus DEF FailTransform
<1>9. CASE TransformLost(j)
    BY <1>9, OtherStatus DEF TransformLost
<1> QED
    BY <1>1, <1>2, <1>3, <1>4, <1>5, <1>6, <1>7, <1>8, <1>9, CreateStep, DeleteStep
    DEF TransformWork

-----------------------------------------------------------------------------
LEMMA InitIInv == Init => IInv
<1> SUFFICES ASSUME Init PROVE IInv
    OBVIOUS
<1>1. Types /\ Outcomes
    BY DEF Init, Types, Outcomes, NoLoader, JobPC
<1>2. RejectedOfRefusing /\ SuccessStored
    BY DEF Init, RejectedOfRefusing, SuccessStored
<1>3. \A j \in Jobs : JobStores(j)
    BY DEF Init, JobStores, At
<1> QED
    BY <1>1, <1>2, <1>3 DEF IInv

LEMMA InductiveInvariant == Spec => []IInv
<1>1. IInv /\ [Next]_vars => IInv'
    <2> SUFFICES ASSUME IInv, [Next]_vars PROVE IInv'
        OBVIOUS
    <2>1. CASE Next
        BY <2>1, TransformStep, LoadStep, CleanupStep DEF Next
    <2>2. CASE UNCHANGED vars
        <3>1. rows' \in Seq(Row) /\ RowsKept /\ RejectedOfRefusing'
            BY <2>2, SameRows DEF vars, IInv
        <3> QED
            BY <2>2, <3>1, RowsOnly DEF vars, IInv, Outcomes
    <2> QED
        BY <2>1, <2>2
<1> QED
    BY <1>1, InitIInv, PTL DEF Spec

\* A successful transform has left a row for each of its items, whatever was lost,
\* retriggered or delivered twice (transform/sources/handler.py 86-184): rows are only
\* deleted of transforms that are then not successful.
THEOREM NoItemDropped == Spec => []NothingDropped
<1>1. IInv => NothingDropped
    <2> SUFFICES ASSUME IInv, NEW t \in Transforms, tstatus[t] = "SUCCESS",
                        NEW i \in DOMAIN Produces[t]
                 PROVE  \E r \in DOMAIN rows :
                            rows[r].of = t /\ rows[r].key = Produces[t][i] /\ rows[r].status # "REJECTED"
        BY DEF NothingDropped
    <2>1. t \notin Refusing /\ Stored(t, i)
        BY DEF IInv, SuccessStored
    <2> QED
        BY <2>1 DEF Stored, IInv, RejectedOfRefusing
<1> QED
    BY <1>1, InductiveInvariant, PTL

-----------------------------------------------------------------------------
(* The loader.                                                               *)

\* No row of the item was deferred by the server.
Undeferred(k) == \A q \in errors.rows : rows[q].key # k

SameItem(q, r) == rows[q].key = rows[r].key
Loaded(r) == rows[r].status \in {"SUCCESS", "CLEANED"}
Taken == loader.sent \cup loader.batch

LoaderLists ==
    /\ loader.pc = "sending" <=> loader.batch # {}
    /\ loader.pc \in {"idle", "listing"} => loader.sent = {} /\ loader.updates = {}
    /\ \A u \in loader.updates : u[1] \in loader.sent
    /\ \A r \in loader.sent : \A q \in loader.batch : r < q
    /\ Cardinality(loader.sent) + Cardinality(loader.batch) <= Limit

CollectionsOpen ==
    /\ loader.open \subseteq held
    /\ \A r \in Taken : InOpen(r)

NoneLeftBehind ==
    \A r \in Taken : \A q \in DOMAIN rows : q < r /\ InOpen(q) /\ Pending(q) => q \in Taken

SentIsNoted ==
    \A r \in loader.sent :
        Pending(r) => r \in errors.rows \/ \E s \in RowStatus : <<r, s>> \in loader.updates

NoneOvertaken ==
    \A r, q \in DOMAIN rows :
        Loaded(r) /\ q < r /\ SameItem(q, r) /\ Undeferred(rows[r].key) => ~Pending(q)

BatchIsNewer ==
    \A q \in loader.batch : \A r \in DOMAIN rows :
        Loaded(r) /\ SameItem(q, r) /\ Undeferred(rows[r].key) => r < q

NotedStands ==
    \A r \in loader.sent :
        <<r, "SUCCESS">> \in loader.updates /\ Undeferred(rows[r].key) => stac[rows[r].key] >= r

LoadInv ==
    /\ LoaderLists /\ CollectionsOpen /\ NoneLeftBehind /\ SentIsNoted
    /\ NoneOvertaken /\ BatchIsNewer /\ NotedStands /\ NewestStands

\* What the transforms and the cleanup leave alone: they only add pending rows, delete
\* rows, and never make a row pending again.
OthersStep ==
    /\ RowsKept /\ Len(rows') <= MaxRows
    /\ \A r \in DOMAIN rows : (Pending(r)' => Pending(r)) /\ (Loaded(r)' => Loaded(r))
    /\ \A r \in DOMAIN rows' \ DOMAIN rows : Pending(r)'
    /\ UNCHANGED <<stac, held, loader, errors>>

JobsTyped ==
    /\ tstatus \in [Transforms -> {"PENDING", "IN_PROGRESS", "SUCCESS", "FAILED"}]
    /\ DOMAIN job = Jobs
    /\ \A j \in Jobs : job[j] \in [pc : JobPC, done : 0..Len(Produces[Of[j]])]

LoadTyped ==
    /\ rows \in Seq(Row) /\ Len(rows) <= MaxRows
    /\ stac \in [Keys -> 0..Len(rows)]
    /\ HeldAtFirst \subseteq held /\ held \subseteq Collections
    /\ loader.pc \in LoadPC /\ loader.open \subseteq Collections
    /\ loader.batch \subseteq DOMAIN rows /\ loader.sent \subseteq DOMAIN rows
    /\ loader.updates \subseteq (DOMAIN rows) \X {"SUCCESS", "FAILED"}
    /\ errors.count \in 0..MaxErrors /\ errors.rows \subseteq DOMAIN rows

LEMMA TypeOKParts == TypeOK <=> JobsTyped /\ LoadTyped /\ losses \in 0..MaxLosses
BY DEF TypeOK, JobsTyped, LoadTyped, Row

LEMMA TypeOKKept ==
    ASSUME JobsTyped', LoadTyped', losses' \in 0..MaxLosses
    PROVE  TypeOK'
BY DEF TypeOK, JobsTyped, LoadTyped, Row

\* A step keeps the type correctness of the loader if it leaves the loader alone.
LEMMA RowsInRange ==
    ASSUME LoadTyped
    PROVE  /\ DOMAIN rows = 1..Len(rows) /\ Len(rows) \in Nat
           /\ DOMAIN rows \in SUBSET Nat /\ IsFiniteSet(DOMAIN rows)
           /\ \A r \in DOMAIN rows : rows[r] \in Row
<1>1. DOMAIN rows = 1..Len(rows) /\ Len(rows) \in Nat /\ \A r \in DOMAIN rows : rows[r] \in Row
    BY DEF LoadTyped
<1> QED
    BY <1>1, FS_Interval

-----------------------------------------------------------------------------
(* The n oldest rows of a set.                                              *)

LEMMA OldestOfSet ==
    ASSUME NEW S \in SUBSET Nat, IsFiniteSet(S), NEW n \in Nat
    PROVE  /\ Oldest(S, n) \subseteq S
           /\ IsFiniteSet(Oldest(S, n)) /\ Cardinality(Oldest(S, n)) <= n
           /\ \A r \in Oldest(S, n) : \A q \in S : q < r => q \in Oldest(S, n)
<1> DEFINE older(r) == {q \in S : q < r}
           rank(r) == Cardinality(older(r))
<1>1. ASSUME NEW r \in S
      PROVE  IsFiniteSet(older(r)) /\ rank(r) \in Nat
    BY FS_Subset, FS_CardinalityType
<1>2. ASSUME NEW r \in S, NEW q \in S, q < r
      PROVE  rank(q) < rank(r)
    <2>1. older(q) \subseteq older(r) /\ q \in older(r) /\ q \notin older(q)
        <3>1. ~(q < q) /\ \A p \in S : p < q => p < r
            BY <1>2
        <3> QED
            BY <1>2, <3>1
    <2>2. IsFiniteSet(older(r)) /\ older(q) \in SUBSET older(r) /\ older(q) # older(r)
        BY <1>1, <2>1
    <2> HIDE DEF older
    <2>3. rank(q) <= rank(r) /\ rank(r) # rank(q)
        BY <2>2, FS_Subset
    <2> QED
        BY <1>1, <2>3
<1>3. Oldest(S, n) = {r \in S : rank(r) < n}
    BY DEF Oldest
<1> HIDE DEF older, rank
<1> DEFINE f == [r \in Oldest(S, n) |-> rank(r)]
<1>4. f \in Injection(Oldest(S, n), 0..(n - 1))
    <2>1. ASSUME NEW r \in Oldest(S, n) PROVE r \in S /\ r \in Nat /\ rank(r) \in 0..(n - 1)
        <3>1. r \in S /\ rank(r) < n
            BY <1>3
        <3> QED
            BY <1>1, <3>1
    <2>2. f \in [Oldest(S, n) -> 0..(n - 1)]
        BY <2>1
    <2>3. \A q, r \in Oldest(S, n) : rank(q) = rank(r) => q = r
        <3> SUFFICES ASSUME NEW q \in Oldest(S, n), NEW r \in Oldest(S, n), rank(q) = rank(r), q # r
                     PROVE  FALSE
            OBVIOUS
        <3>1. q < r \/ r < q
            BY <2>1
        <3> QED
            BY <1>1, <1>2, <2>1, <3>1
    <2> QED
        BY <2>2, <2>3 DEF Injection, IsInjective
<1>5. IsFiniteSet(0..(n - 1)) /\ Cardinality(0..(n - 1)) = n
    BY FS_Interval
<1>6. IsFiniteSet(Oldest(S, n)) /\ Cardinality(Oldest(S, n)) <= n
    BY <1>4, <1>5, FS_Injection
<1>7. ASSUME NEW r \in Oldest(S, n), NEW q \in S, q < r PROVE q \in Oldest(S, n)
    <2>1. r \in S /\ rank(r) < n /\ rank(q) < rank(r)
        BY <1>2, <1>3, <1>7
    <2>2. rank(q) \in Nat /\ rank(r) \in Nat
        BY <1>1, <2>1
    <2> QED
        BY <1>3, <2>1, <2>2
<1> QED
    BY <1>3, <1>6, <1>7

-----------------------------------------------------------------------------
(* The transforms and the cleanup.                                          *)

LEMMA JobMoves ==
    ASSUME JobsTyped, NEW j \in Jobs, NEW pc \in JobPC, NEW n \in 0..Len(Produces[Of[j]]),
           GoOn(j, pc, n), UNCHANGED tstatus \/ \E s \in {"PENDING", "IN_PROGRESS", "SUCCESS", "FAILED"} : SetStatus(j, s)
    PROVE  JobsTyped'
BY DEF JobsTyped, GoOn, SetStatus

LEMMA SameRowsByOthers ==
    ASSUME IInv, LoadTyped, UNCHANGED <<rows, stac, held, loader, errors>>
    PROVE  OthersStep
BY SameRows DEF IInv, OthersStep, LoadTyped, Pending, Loaded

LEMMA Appended ==
    ASSUME NEW s \in Seq(Row), NEW t \in Seq(Row)
    PROVE  /\ Len(s \o t) = Len(s) + Len(t)
           /\ \A r \in DOMAIN s : (s \o t)[r] = s[r]
           /\ \A r \in DOMAIN (s \o t) \ DOMAIN s :
                r - Len(s) \in 1..Len(t) /\ (s \o t)[r] = t[r - Len(s)]
OBVIOUS

LEMMA TransformMoves ==
    ASSUME IInv, JobsTyped, LoadTyped, losses \in 0..MaxLosses, NEW j \in Jobs,
           TransformWork(j) \/ Queue(j) \/ AskRetrigger(j) \/ FailTransform(j) \/ TransformLost(j)
    PROVE  OthersStep /\ JobsTyped' /\ losses' \in 0..MaxLosses
<1> USE PipelineAssumption DEF JobPC
<1>1. Of[j] \in Transforms /\ Produces[Of[j]] \in Seq(Keys) /\ 0 \in 0..Len(Produces[Of[j]])
    <2>1. Len(Produces[Of[j]]) \in Nat
        OBVIOUS
    <2> QED
        BY <2>1
<1>2. CASE Queue(j) \/ AskRetrigger(j) \/ Retrigger(j) \/ StartTransform(j) \/ Decide(j)
            \/ EndUnrated(j) \/ EndTransform(j) \/ FailTransform(j)
    <2>1. OthersStep
        BY <1>2, SameRowsByOthers DEF Queue, AskRetrigger, Retrigger, StartTransform, Decide,
            EndUnrated, EndTransform, FailTransform
    <2>2. JobsTyped' /\ losses' = losses
        BY <1>1, <1>2, JobMoves DEF Queue, AskRetrigger, Retrigger, StartTransform, Decide,
            EndUnrated, EndTransform, FailTransform
    <2> QED
        BY <2>1, <2>2
<1>3. CASE TransformLost(j)
    <2>1. OthersStep
        BY <1>3, SameRowsByOthers DEF TransformLost
    <2>2. JobsTyped'
        BY <1>1, <1>3, JobMoves DEF TransformLost
    <2>3. losses' \in 0..MaxLosses
        BY <1>3 DEF TransformLost
    <2> QED
        BY <2>1, <2>2, <2>3
<1>4. CASE CreateRows(j)
    <2> DEFINE done == job[j].done
               left == Len(Produces[Of[j]]) - done
               n == Least(left, CreateChunk)
    <2>1. done \in Nat /\ n \in Nat /\ done + n \in 0..Len(Produces[Of[j]])
        BY <1>1 DEF JobsTyped, Least
    <2>2. JobsTyped'
        <3>1. GoOn(j, IF left < CreateChunk THEN "deciding" ELSE "adding", done + n) /\ UNCHANGED tstatus
            BY <1>4 DEF CreateRows
        <3> HIDE DEF n, left, done
        <3> QED
            BY <2>1, <3>1, JobMoves
    <2>3. rows' = rows \o NewRows(j, n) /\ Len(rows) + n <= MaxRows
          /\ UNCHANGED <<stac, held, loader, errors, losses>>
        BY <1>4 DEF CreateRows
    <2>4. NewRows(j, n) \in Seq(Row) /\ Len(NewRows(j, n)) = n /\ \A i \in 1..n : NewRows(j, n)[i].status = "PENDING"
        <3>1. \A i \in 1..n : Produces[Of[j]][done + i] \in Keys
            BY <1>1, <2>1
        <3>2. NewRows(j, n) \in [1..n -> Row] /\ \A i \in 1..n : NewRows(j, n)[i].status = "PENDING"
            BY <1>1, <3>1 DEF NewRows, Row, RowStatus
        <3> HIDE DEF n
        <3> QED
            BY <2>1, <3>2, FunctionIsSequence, Zenon
    <2> HIDE DEF n
    <2>5. /\ Len(rows') = Len(rows) + n
          /\ \A r \in DOMAIN rows : rows'[r] = rows[r]
          /\ \A r \in DOMAIN rows' \ DOMAIN rows :
                r - Len(rows) \in 1..n /\ rows'[r] = NewRows(j, n)[r - Len(rows)]
        <3> HIDE DEF NewRows
        <3>1. NewRows(j, n) \in Seq(Row) /\ Len(NewRows(j, n)) = n /\ rows' = rows \o NewRows(j, n)
            BY <2>3, <2>4
        <3>2. rows \in Seq(Row)
            BY DEF LoadTyped
        <3>3. /\ Len(rows \o NewRows(j, n)) = Len(rows) + Len(NewRows(j, n))
              /\ \A r \in DOMAIN rows : (rows \o NewRows(j, n))[r] = rows[r]
              /\ \A r \in DOMAIN (rows \o NewRows(j, n)) \ DOMAIN rows :
                    /\ r - Len(rows) \in 1..Len(NewRows(j, n))
                    /\ (rows \o NewRows(j, n))[r] = NewRows(j, n)[r - Len(rows)]
            BY <3>1, <3>2, Appended
        <3> QED
            BY <3>1, <3>3, Zenon
    <2>6. \A r \in DOMAIN rows' \ DOMAIN rows : rows'[r].status = "PENDING"
        BY <2>4, <2>5
    <2>7. OthersStep
        BY <2>1, <2>3, <2>5, <2>6, RowsInRange DEF OthersStep, RowsKept, Pending, Loaded
    <2> QED
        BY <2>2, <2>3, <2>7
<1>5. CASE DeleteRows(j)
    <2>1. JobsTyped' /\ losses' = losses
        BY <1>1, <1>5, JobMoves DEF DeleteRows
    <2>2. rows' = [r \in DOMAIN rows |->
            IF rows[r].of = Of[j] /\ Exists(r) THEN [rows[r] EXCEPT !.status = "REJECTED"] ELSE rows[r]]
          /\ UNCHANGED <<stac, held, loader, errors>>
        BY <1>5 DEF DeleteRows
    <2>3. DOMAIN rows' = DOMAIN rows /\ \A r \in DOMAIN rows :
            /\ rows'[r].of = rows[r].of /\ rows'[r].key = rows[r].key
            /\ rows'[r].status \in {"REJECTED", rows[r].status}
        BY <2>2, RowsInRange DEF Row
    <2>4. Len(rows') = Len(rows)
        <3>1. rows' \in [1..Len(rows) -> {rows'[r] : r \in DOMAIN rows}]
            BY <2>2, <2>3, RowsInRange
        <3> QED
            BY <3>1, RowsInRange, FunctionIsSequence
    <2>5. OthersStep
        BY <2>2, <2>3, <2>4, RowsInRange DEF OthersStep, RowsKept, Pending, Loaded, LoadTyped
    <2> QED
        BY <2>1, <2>5
<1> QED
    BY <1>2, <1>3, <1>4, <1>5 DEF TransformWork

LEMMA CleanupMoves ==
    ASSUME LoadTyped, NEW r \in DOMAIN rows, Cleanup(r)
    PROVE  OthersStep
<1>1. rows' = [rows EXCEPT ![r].status = "CLEANED"] /\ rows[r].status = "SUCCESS"
      /\ UNCHANGED <<stac, held, loader, errors>>
    BY DEF Cleanup
<1>2. Len(rows') = Len(rows) /\ DOMAIN rows' = DOMAIN rows
    BY <1>1 DEF LoadTyped
<1>3. ASSUME NEW q \in DOMAIN rows
      PROVE  /\ rows'[q].of = rows[q].of /\ rows'[q].key = rows[q].key
             /\ \/ rows'[q].status = rows[q].status
                \/ rows[q].status = "SUCCESS" /\ rows'[q].status = "CLEANED"
    <2>1. rows[q] \in Row
        BY RowsInRange
    <2>2. rows'[q] = IF q = r THEN [rows[q] EXCEPT !.status = "CLEANED"] ELSE rows[q]
        BY <1>1
    <2> QED
        BY <1>1, <2>1, <2>2 DEF Row
<1> QED
    BY <1>1, <1>2, <1>3, RowsInRange DEF OthersStep, RowsKept, Pending, Loaded, LoadTyped

\* They keep what the loader relies on.
LEMMA OthersKeep ==
    ASSUME LoadTyped, LoadInv, OthersStep, rows' \in Seq(Row)
    PROVE  LoadTyped' /\ LoadInv'
<1>1. DOMAIN rows = 1..Len(rows) /\ DOMAIN rows' = 1..Len(rows') /\ DOMAIN rows \subseteq DOMAIN rows'
      /\ Len(rows) \in Nat /\ Len(rows') \in Nat /\ Len(rows) <= Len(rows')
    BY RowsInRange DEF OthersStep, RowsKept
<1>2. /\ \A r \in DOMAIN rows : rows'[r].key = rows[r].key
      /\ \A r \in DOMAIN rows : (Pending(r)' => Pending(r)) /\ (Loaded(r)' => Loaded(r))
      /\ \A r \in DOMAIN rows' \ DOMAIN rows : Pending(r)' /\ ~Loaded(r)'
      /\ UNCHANGED <<stac, held, loader, errors>>
    BY DEF OthersStep, RowsKept, Pending, Loaded
<1>3. LoadTyped'
    BY <1>1, <1>2 DEF LoadTyped, OthersStep
<1>4. Taken \subseteq DOMAIN rows /\ errors.rows \subseteq DOMAIN rows /\ loader.sent \subseteq DOMAIN rows
      /\ loader.batch \subseteq DOMAIN rows /\ Taken' = Taken
    BY <1>2 DEF LoadTyped, Taken
<1>5. \A r \in DOMAIN rows : Undeferred(rows[r].key)' => Undeferred(rows[r].key)
    BY <1>2, <1>4 DEF Undeferred
<1>6. \A q, r \in DOMAIN rows : SameItem(q, r)' <=> SameItem(q, r)
    BY <1>2 DEF SameItem
<1>7. \A r \in DOMAIN rows : \A q \in DOMAIN rows' : q < r => q \in DOMAIN rows
    BY <1>1
<1>8. LoaderLists' /\ CollectionsOpen'
    <2>1. LoaderLists'
        <3>1. loader' = loader
            BY <1>2
        <3> QED
            BY <3>1 DEF LoadInv, LoaderLists
    <2>2. CollectionsOpen'
        <3>1. loader' = loader /\ held' = held /\ Taken' = Taken /\ \A r \in Taken : rows'[r].key = rows[r].key
            BY <1>2, <1>4
        <3> QED
            BY <3>1 DEF LoadInv, CollectionsOpen, InOpen
    <2> QED
        BY <2>1, <2>2
<1>9. NoneLeftBehind' /\ SentIsNoted'
    <2>1. NoneLeftBehind'
        <3> SUFFICES ASSUME NEW r \in Taken, NEW q \in DOMAIN rows', q < r, InOpen(q)', Pending(q)'
                     PROVE  q \in Taken
            BY <1>4 DEF NoneLeftBehind
        <3>1. r \in DOMAIN rows /\ q \in DOMAIN rows
            BY <1>4, <1>7
        <3>2. InOpen(q) /\ Pending(q)
            BY <1>2, <3>1 DEF InOpen
        <3> QED
            BY <3>1, <3>2 DEF LoadInv, NoneLeftBehind
    <2>2. SentIsNoted'
        <3> SUFFICES ASSUME NEW r \in loader.sent, Pending(r)'
                     PROVE  r \in errors.rows \/ \E s \in RowStatus : <<r, s>> \in loader.updates
            BY <1>2 DEF SentIsNoted
        <3>1. Pending(r)
            BY <1>2, <1>4
        <3> QED
            BY <3>1 DEF LoadInv, SentIsNoted
    <2> QED
        BY <2>1, <2>2
<1>10. NoneOvertaken'
    BY <1>2, <1>5, <1>6, <1>7 DEF LoadInv, NoneOvertaken
<1>11. BatchIsNewer'
    BY <1>2, <1>4, <1>5, <1>6 DEF LoadInv, BatchIsNewer
<1>12. NotedStands'
    BY <1>2, <1>4, <1>5 DEF LoadInv, NotedStands
<1>13. NewestStands'
    BY <1>2, <1>5 DEF LoadInv, NewestStands, Loaded, Undeferred
<1> QED
    BY <1>3, <1>8, <1>9, <1>10, <1>11, <1>12, <1>13 DEF LoadInv

-----------------------------------------------------------------------------
(* The loader.                                                              *)

\* What bulk_update does to a row that it names.
LEMMA WrittenRows ==
    ASSUME LoadTyped, NEW updates, updates \subseteq (DOMAIN rows) \X {"SUCCESS", "FAILED"},
           rows' = Written(updates)
    PROVE  /\ Len(rows') = Len(rows) /\ DOMAIN rows' = DOMAIN rows
           /\ \A r \in DOMAIN rows :
                /\ rows'[r].key = rows[r].key
                /\ Pending(r)' => Pending(r) /\ ~\E s \in RowStatus : <<r, s>> \in updates
                /\ Loaded(r)' => Loaded(r) \/ <<r, "SUCCESS">> \in updates
<1> DEFINE named(r) == Exists(r) /\ \E s \in RowStatus : <<r, s>> \in updates
           written(r) == CHOOSE s \in RowStatus : <<r, s>> \in updates
<1>1. rows' = [r \in DOMAIN rows |-> IF named(r) THEN [rows[r] EXCEPT !.status = written(r)] ELSE rows[r]]
    BY DEF Written
<1>2. ASSUME NEW r \in DOMAIN rows, named(r)
      PROVE  <<r, written(r)>> \in updates /\ written(r) \in {"SUCCESS", "FAILED"}
    BY <1>2
<1>3. DOMAIN rows' = DOMAIN rows /\ Len(rows') = Len(rows)
    <2> HIDE DEF named, written
    <2>1. rows' \in [1..Len(rows) -> {rows'[r] : r \in DOMAIN rows}]
        BY <1>1, RowsInRange
    <2> QED
        BY <2>1, RowsInRange, FunctionIsSequence
<1>4. ASSUME NEW r \in DOMAIN rows
      PROVE  /\ rows'[r].key = rows[r].key
             /\ Pending(r)' => Pending(r) /\ ~named(r)
             /\ Loaded(r)' => Loaded(r) \/ <<r, "SUCCESS">> \in updates
    <2> HIDE DEF named, written
    <2>1. CASE named(r)
        <3>1. rows'[r] = [rows[r] EXCEPT !.status = written(r)] /\ rows[r] \in Row
            BY <1>1, <2>1, RowsInRange
        <3>2. rows'[r].status = written(r) /\ rows'[r].key = rows[r].key
            BY <3>1 DEF Row
        <3> QED
            BY <1>2, <2>1, <3>2 DEF Pending, Loaded
    <2>2. CASE ~named(r)
        <3>1. rows'[r] = rows[r]
            BY <1>1, <2>2
        <3> QED
            BY <2>2, <3>1 DEF Pending, Loaded
    <2> QED
        BY <2>1, <2>2
<1> QED
    BY <1>3, <1>4 DEF Pending, Exists

\* Statuses are written of rows that were sent together with every older pending
\* version of their item: no version is overtaken, and the server's is the newest.
LEMMA WriteKeeps ==
    ASSUME LoadTyped, NoneOvertaken, NEW S \in SUBSET DOMAIN rows, NEW updates,
           \A u \in updates : u[1] \in S,
           rows' = Written(updates), updates \subseteq (DOMAIN rows) \X {"SUCCESS", "FAILED"},
           errors.rows \subseteq errors'.rows, errors'.rows \subseteq DOMAIN rows,
           \A r \in S : \A q \in DOMAIN rows : q < r /\ SameItem(q, r) /\ Pending(q) => q \in S,
           \A r \in S : Pending(r) => r \in errors'.rows \/ \E s \in RowStatus : <<r, s>> \in updates,
           \A r \in DOMAIN rows :
                (Loaded(r) \/ <<r, "SUCCESS">> \in updates) /\ (\A q \in errors'.rows : ~SameItem(q, r))
                    => stac'[rows[r].key] >= r
    PROVE  NoneOvertaken' /\ NewestStands'
<1>1. /\ DOMAIN rows' = DOMAIN rows
      /\ \A r \in DOMAIN rows :
            /\ rows'[r].key = rows[r].key
            /\ Pending(r)' => Pending(r) /\ ~\E s \in RowStatus : <<r, s>> \in updates
            /\ Loaded(r)' => Loaded(r) \/ <<r, "SUCCESS">> \in updates
    BY WrittenRows
<1>2. ASSUME NEW r \in DOMAIN rows, Undeferred(rows[r].key)'
      PROVE  \A q \in errors'.rows : ~SameItem(q, r)
    BY <1>1, <1>2 DEF Undeferred, SameItem
<1>3. ASSUME NEW r \in DOMAIN rows, Undeferred(rows[r].key)'
      PROVE  Undeferred(rows[r].key)
    BY <1>2, <1>3 DEF Undeferred, SameItem
<1>4. ASSUME NEW r \in DOMAIN rows, NEW q \in DOMAIN rows, Loaded(r)', q < r, SameItem(q, r)',
             Undeferred(rows[r].key)', Pending(q)'
      PROVE  FALSE
    <2>1. SameItem(q, r) /\ Pending(q) /\ Undeferred(rows[r].key)
        BY <1>1, <1>3, <1>4 DEF SameItem
    <2>2. CASE Loaded(r)
        BY <1>4, <2>1, <2>2 DEF NoneOvertaken
    <2>3. CASE <<r, "SUCCESS">> \in updates
        <3>1. r \in S
            BY <2>3
        <3>2. q \in S
            BY <1>4, <2>1, <3>1
        <3>3. q \notin errors'.rows
            BY <1>2, <1>4, <2>1
        <3> QED
            BY <1>1, <1>4, <2>1, <3>2, <3>3
    <2> QED
        BY <1>1, <1>4, <2>2, <2>3
<1>5. ASSUME NEW r \in DOMAIN rows, Loaded(r)', Undeferred(rows[r].key)'
      PROVE  stac'[rows'[r].key] >= r
    BY <1>1, <1>2, <1>5
<1> QED
    BY <1>1, <1>4, <1>5 DEF NoneOvertaken, NewestStands, Loaded, Undeferred

\* A loader that holds no rows and no statuses.
LEMMA EmptyHanded ==
    ASSUME loader'.batch = {}, loader'.sent = {}, loader'.updates = {}, loader'.pc # "sending",
           loader'.open \subseteq held', NoneOvertaken', NewestStands'
    PROVE  LoadInv'
<1>1. Cardinality({}) = 0 /\ Limit \in Nat
    BY FS_EmptySet, PipelineAssumption
<1>2. LoaderLists'
    BY <1>1 DEF LoaderLists
<1> QED
    BY <1>2 DEF LoadInv, CollectionsOpen, NoneLeftBehind, SentIsNoted, BatchIsNewer, NotedStands, Taken

LEMMA SameRowsBySender ==
    ASSUME LoadTyped, LoadInv, UNCHANGED <<rows, stac>>, errors.rows \subseteq errors'.rows
    PROVE  NoneOvertaken' /\ NewestStands'
BY DEF LoadInv, NoneOvertaken, NewestStands, Undeferred, Loaded, Pending, SameItem

LEMMA StartMoves ==
    ASSUME LoadTyped, LoadInv, StartLoad \/ LoaderLost
    PROVE  LoadTyped' /\ LoadInv'
<1>1. /\ loader'.batch = {} /\ loader'.sent = {} /\ loader'.updates = {} /\ loader'.open = {}
      /\ loader'.pc \in {"idle", "listing"} /\ UNCHANGED <<rows, stac, held, errors>>
    BY DEF StartLoad, LoaderLost, NoLoader
<1>2. LoadTyped'
    BY <1>1 DEF LoadTyped, LoadPC
<1> QED
    BY <1>1, <1>2, SameRowsBySender, EmptyHanded

LEMMA OpenMoves ==
    ASSUME LoadTyped, LoadInv, Outcomes, OpenCollections
    PROVE  LoadTyped' /\ LoadInv'
<1>1. PICK listed \in SUBSET held, made \in SUBSET (Collections \ held) :
        \E said \in SUBSET made :
            LET open == listed \cup said IN
            /\ held' = held \cup made
            /\ loader' = IF open = {} THEN NoLoader
                         ELSE [loader EXCEPT !.pc = "asking", !.open = open]
            /\ IF open = Collections THEN UNCHANGED errors ELSE CountError({})
    BY DEF OpenCollections
<1>2. PICK said \in SUBSET made :
        /\ held' = held \cup made
        /\ loader' = IF listed \cup said = {} THEN NoLoader
                     ELSE [loader EXCEPT !.pc = "asking", !.open = listed \cup said]
        /\ IF listed \cup said = Collections THEN UNCHANGED errors ELSE CountError({})
    BY <1>1
<1>3. loader.pc = "listing" /\ UNCHANGED <<rows, stac>>
    BY DEF OpenCollections
<1>4. loader.batch = {} /\ loader.sent = {} /\ loader.updates = {}
    BY <1>3 DEF LoadInv, LoaderLists
<1>5. /\ loader'.batch = {} /\ loader'.sent = {} /\ loader'.updates = {}
      /\ loader'.pc \in {"idle", "asking"} /\ loader'.open \subseteq listed \cup said
    <2> DEFINE open == listed \cup said
    <2>1. CASE open = {}
        BY <1>2, <2>1 DEF NoLoader
    <2>2. CASE open # {}
        BY <1>2, <1>4, <2>2 DEF Outcomes
    <2> QED
        BY <2>1, <2>2
<1>6. errors'.rows = errors.rows /\ errors'.count \in 0..MaxErrors
    BY <1>2, PipelineAssumption DEF CountError, LoadTyped
<1>7. LoadTyped'
    BY <1>2, <1>3, <1>5, <1>6 DEF LoadTyped, LoadPC
<1> QED
    BY <1>2, <1>3, <1>5, <1>6, <1>7, SameRowsBySender, EmptyHanded

LEMMA ReadMoves ==
    ASSUME LoadTyped, LoadInv, Outcomes, ReadBatch
    PROVE  LoadTyped' /\ LoadInv'
<1> DEFINE found == {r \in DOMAIN rows : Pending(r) /\ InOpen(r) /\ After(r)}
           n == Least(Batch, Limit - Cardinality(loader.sent))
           batch == Oldest(found, n)
<1>1. /\ loader.pc = "asking" /\ UNCHANGED <<rows, stac, held, errors>>
      /\ loader' = [loader EXCEPT !.batch = batch, !.pc = IF batch = {} THEN "flushing" ELSE "sending"]
    BY DEF ReadBatch
<1>2. loader.batch = {}
    BY <1>1 DEF LoadInv, LoaderLists
<1>3. Cardinality(loader.sent) \in Nat /\ Cardinality(loader.sent) <= Limit /\ Limit \in Nat /\ Batch \in Nat
    <2>1. IsFiniteSet(loader.sent) /\ Cardinality(loader.sent) \in Nat
        BY RowsInRange, FS_Subset, FS_CardinalityType DEF LoadTyped
    <2> QED
        BY <1>2, <2>1, FS_EmptySet, PipelineAssumption DEF LoadInv, LoaderLists
<1>4. n \in Nat /\ n <= Limit - Cardinality(loader.sent)
    BY <1>3 DEF Least
<1>5. found \in SUBSET Nat /\ IsFiniteSet(found)
    BY RowsInRange, FS_Subset
<1> HIDE DEF found, n
<1>6. /\ batch \subseteq found /\ IsFiniteSet(batch) /\ Cardinality(batch) <= n /\ Cardinality(batch) \in Nat
      /\ \A r \in batch : \A q \in found : q < r => q \in batch
    BY <1>4, <1>5, OldestOfSet, FS_CardinalityType
<1> HIDE DEF batch
<1>7. /\ loader'.pc = (IF batch = {} THEN "flushing" ELSE "sending") /\ loader'.batch = batch
      /\ loader'.sent = loader.sent /\ loader'.updates = loader.updates /\ loader'.open = loader.open
    BY <1>1 DEF Outcomes
<1>8. \A r \in batch : r \in DOMAIN rows /\ Pending(r) /\ InOpen(r) /\ After(r)
    BY <1>6 DEF found
<1>9. LoadTyped'
    BY <1>1, <1>7, <1>8 DEF LoadTyped, LoadPC
<1>10. LoaderLists'
    BY <1>2, <1>3, <1>4, <1>6, <1>7, <1>8 DEF LoadInv, LoaderLists, After
<1>11. CollectionsOpen'
    BY <1>1, <1>2, <1>7, <1>8 DEF LoadInv, CollectionsOpen, Taken, InOpen
<1>12. NoneLeftBehind'
    <2> SUFFICES ASSUME NEW r \in loader.sent \cup batch, NEW q \in DOMAIN rows, q < r, InOpen(q), Pending(q)
                 PROVE  q \in loader.sent \cup batch
        BY <1>1, <1>7 DEF NoneLeftBehind, Taken, InOpen, Pending
    <2>1. CASE After(q)
        <3>1. q \in found
            BY <2>1 DEF found
        <3>2. r \in batch
            BY <2>1, RowsInRange DEF After, LoadTyped
        <3> QED
            BY <1>6, <3>1, <3>2
    <2>2. CASE ~After(q)
        <3>1. PICK p \in loader.sent : ~(p < q)
            BY <2>2 DEF After
        <3>2. q = p \/ q < p
            BY <3>1, RowsInRange DEF LoadTyped
        <3> QED
            BY <1>2, <3>1, <3>2 DEF LoadInv, NoneLeftBehind, Taken
    <2> QED
        BY <2>1, <2>2
<1>13. SentIsNoted' /\ NotedStands'
    BY <1>1, <1>7 DEF LoadInv, SentIsNoted, NotedStands, Pending, Undeferred
<1>14. BatchIsNewer'
    <2> SUFFICES ASSUME NEW q \in batch, NEW r \in DOMAIN rows, Loaded(r), SameItem(q, r),
                        Undeferred(rows[r].key)
                 PROVE  r < q
        BY <1>1, <1>7 DEF BatchIsNewer, Loaded, SameItem, Undeferred
    <2>1. q \in DOMAIN rows /\ Pending(q) /\ ~(q < r)
        BY <1>8 DEF LoadInv, NoneOvertaken
    <2>2. q # r
        BY <2>1 DEF Pending, Loaded
    <2> QED
        BY <2>1, <2>2, RowsInRange
<1>15. NoneOvertaken' /\ NewestStands'
    BY <1>1, SameRowsBySender
<1> QED
    BY <1>9, <1>10, <1>11, <1>12, <1>13, <1>14, <1>15 DEF LoadInv

LEMMA FlushMoves ==
    ASSUME LoadTyped, LoadInv, Flush, rows' \in Seq(Row)
    PROVE  LoadTyped' /\ LoadInv'
<1>1. /\ rows' = Written(loader.updates) /\ UNCHANGED <<stac, held, errors>>
      /\ loader'.batch = {} /\ loader'.sent = {} /\ loader'.updates = {} /\ loader'.open = {}
      /\ loader'.pc = "idle" /\ loader.pc = "flushing"
    BY DEF Flush, NoLoader
<1>2. DOMAIN rows' = DOMAIN rows /\ Len(rows') = Len(rows)
    BY <1>1, WrittenRows DEF LoadTyped
<1>3. LoadTyped'
    BY <1>1, <1>2 DEF LoadTyped, LoadPC
<1>4. loader.batch = {} /\ Taken = loader.sent /\ loader.sent \in SUBSET DOMAIN rows
      /\ \A u \in loader.updates : u[1] \in loader.sent
    BY <1>1 DEF LoadInv, LoaderLists, Taken, LoadTyped
<1>5. \A r \in loader.sent : \A q \in DOMAIN rows : q < r /\ SameItem(q, r) /\ Pending(q) => q \in loader.sent
    BY <1>4 DEF LoadInv, NoneLeftBehind, CollectionsOpen, InOpen, SameItem
<1>6. ASSUME NEW r \in DOMAIN rows, Loaded(r) \/ <<r, "SUCCESS">> \in loader.updates,
             \A q \in errors'.rows : ~SameItem(q, r)
      PROVE  stac'[rows[r].key] >= r
    <2>1. Undeferred(rows[r].key)
        BY <1>1, <1>6 DEF Undeferred, SameItem
    <2>2. CASE Loaded(r)
        BY <1>1, <2>1, <2>2 DEF LoadInv, NewestStands, Loaded, Undeferred
    <2>3. CASE <<r, "SUCCESS">> \in loader.updates
        BY <1>1, <1>4, <2>1, <2>3 DEF LoadInv, NotedStands
    <2> QED
        BY <1>6, <2>2, <2>3
<1>7. NoneOvertaken' /\ NewestStands'
    <2>1. NoneOvertaken /\ \A r \in loader.sent : Pending(r) =>
                r \in errors'.rows \/ \E s \in RowStatus : <<r, s>> \in loader.updates
        BY <1>1 DEF LoadInv, SentIsNoted
    <2>2. errors.rows \subseteq errors'.rows /\ errors'.rows \subseteq DOMAIN rows
          /\ loader.updates \subseteq (DOMAIN rows) \X {"SUCCESS", "FAILED"}
        BY <1>1 DEF LoadTyped
    <2> QED
        BY <1>1, <1>4, <1>5, <1>6, <2>1, <2>2, WriteKeeps
<1> QED
    BY <1>1, <1>3, <1>7, EmptyHanded

\* The request for the oldest row of the batch raises: nothing is noted of it.
LEMMA RaisedMoves ==
    ASSUME LoadTyped, LoadInv, Outcomes, NEW r \in loader.batch, SendRaised(r)
    PROVE  LoadTyped' /\ LoadInv'
<1>1. /\ UNCHANGED <<rows, held>> /\ errors'.rows = errors.rows /\ errors'.count \in 0..MaxErrors
      /\ \A q \in loader.batch : r <= q
      /\ stac' = [stac EXCEPT ![rows[r].key] = r] \/ stac' = stac
    <2>1. errors.count \in 0..MaxErrors /\ MaxErrors \in Nat
        BY PipelineAssumption DEF LoadTyped
    <2>2. Sends(r) /\ CountError({}) /\ (Publish(r) \/ UNCHANGED stac) /\ UNCHANGED <<rows, held>>
        BY DEF SendRaised
    <2>3. errors'.rows = errors.rows /\ errors'.count \in 0..MaxErrors
        BY <2>1, <2>2 DEF CountError
    <2> QED
        BY <2>2, <2>3 DEF Sends, Publish
<1>2. /\ loader'.pc = "flushing" /\ loader'.batch = {} /\ loader'.sent = loader.sent
      /\ loader'.updates = loader.updates /\ loader'.open = loader.open
    BY DEF SendRaised, Outcomes
<1>3. r \in DOMAIN rows /\ loader.sent \subseteq DOMAIN rows /\ rows[r].key \in Keys /\ r \in 0..Len(rows)
      /\ errors.rows \subseteq DOMAIN rows
    BY RowsInRange DEF LoadTyped, Row
<1>4. ASSUME NEW q \in DOMAIN rows, stac[rows[q].key] >= q, SameItem(r, q) => q < r
      PROVE  stac'[rows[q].key] >= q
    <2>1. q \in Nat /\ r \in Nat /\ rows[q].key \in Keys /\ stac \in [Keys -> 0..Len(rows)]
        BY <1>3, RowsInRange DEF LoadTyped, Row
    <2>2. CASE rows[r].key = rows[q].key
        <3>1. q < r
            BY <1>4, <2>2 DEF SameItem
        <3>2. stac'[rows[q].key] = r \/ stac'[rows[q].key] = stac[rows[q].key]
            BY <1>1, <2>1, <2>2
        <3> QED
            BY <1>4, <2>1, <3>1, <3>2
    <2>3. CASE rows[r].key # rows[q].key
        <3>1. stac'[rows[q].key] = stac[rows[q].key]
            BY <1>1, <2>1, <2>3
        <3> QED
            BY <1>4, <3>1
    <2> QED
        BY <2>2, <2>3
<1>5. LoadTyped'
    BY <1>1, <1>2, <1>3 DEF LoadTyped, LoadPC
<1>6. LoaderLists'
    <2>1. Cardinality(loader.sent) \in Nat /\ Cardinality(loader.batch) \in Nat
        BY RowsInRange, FS_Subset, FS_CardinalityType DEF LoadTyped
    <2>2. Cardinality({}) = 0 /\ Limit \in Nat
        BY FS_EmptySet, PipelineAssumption
    <2> QED
        BY <1>2, <2>1, <2>2 DEF LoadInv, LoaderLists
<1>7. CollectionsOpen' /\ BatchIsNewer'
    BY <1>1, <1>2 DEF LoadInv, CollectionsOpen, BatchIsNewer, Taken, InOpen
<1>8. NoneLeftBehind'
    <2> SUFFICES ASSUME NEW q \in loader.sent, NEW p \in DOMAIN rows, p < q, InOpen(p), Pending(p)
                 PROVE  p \in loader.sent
        BY <1>1, <1>2 DEF NoneLeftBehind, Taken, InOpen, Pending
    <2>1. p \in Taken
        BY DEF LoadInv, NoneLeftBehind, Taken
    <2>2. p \notin loader.batch
        <3>1. p \in loader.batch => q < p
            BY DEF LoadInv, LoaderLists
        <3> QED
            BY <1>3, <3>1, RowsInRange
    <2> QED
        BY <2>1, <2>2 DEF Taken
<1>9. SentIsNoted'
    BY <1>1, <1>2 DEF LoadInv, SentIsNoted, Pending
<1>10. NotedStands'
    <2> SUFFICES ASSUME NEW q \in loader.sent, <<q, "SUCCESS">> \in loader.updates, Undeferred(rows[q].key)
                 PROVE  stac'[rows[q].key] >= q
        BY <1>1, <1>2 DEF NotedStands, Undeferred
    <2>1. stac[rows[q].key] >= q
        BY DEF LoadInv, NotedStands
    <2>2. q < r /\ q \in DOMAIN rows
        BY <1>3 DEF LoadInv, LoaderLists
    <2> QED
        BY <1>4, <2>1, <2>2
<1>11. NoneOvertaken'
    BY <1>1 DEF LoadInv, NoneOvertaken, Undeferred, Loaded, Pending, SameItem
<1>12. NewestStands'
    <2> SUFFICES ASSUME NEW q \in DOMAIN rows, Loaded(q), Undeferred(rows[q].key)
                 PROVE  stac'[rows[q].key] >= q
        BY <1>1 DEF NewestStands, Undeferred, Loaded
    <2>1. stac[rows[q].key] >= q
        BY DEF LoadInv, NewestStands, Loaded, Undeferred
    <2>2. SameItem(r, q) => q < r
        BY DEF LoadInv, BatchIsNewer
    <2> QED
        BY <1>4, <2>1, <2>2
<1> QED
    BY <1>5, <1>6, <1>7, <1>8, <1>9, <1>10, <1>11, <1>12 DEF LoadInv

\* The oldest row of the batch has been sent, whatever the answer: it is noted, or deferred.
LEMMA NoteMoves ==
    ASSUME LoadTyped, LoadInv, Outcomes, NEW r \in loader.batch, Sends(r), NEW updates, Note(r, updates),
           UNCHANGED held, rows' \in Seq(Row),
           \/ updates = loader.updates /\ r \in errors'.rows
           \/ \E s \in {"SUCCESS", "FAILED"} : updates = loader.updates \cup {<<r, s>>},
           \/ Publish(r)
           \/ UNCHANGED stac /\ <<r, "SUCCESS">> \notin updates,
           errors.rows \subseteq errors'.rows, errors'.rows \subseteq DOMAIN rows, errors'.count \in 0..MaxErrors
    PROVE  LoadTyped' /\ LoadInv'
<1> DEFINE S == loader.sent \cup {r}
           full == Cardinality(updates) >= UpdateChunk
<1>1. /\ r \in DOMAIN rows /\ loader.sent \subseteq DOMAIN rows /\ loader.batch \subseteq DOMAIN rows
      /\ rows[r].key \in Keys /\ r \in 0..Len(rows)
    <2>1. r \in DOMAIN rows /\ loader.sent \subseteq DOMAIN rows /\ loader.batch \subseteq DOMAIN rows
        BY DEF LoadTyped
    <2> QED
        BY <2>1, RowsInRange DEF Row
<1>2. \A q \in DOMAIN rows : q \in Nat /\ rows[q].key \in Keys
    BY RowsInRange DEF Row
<1>3. \A q \in loader.batch : r <= q /\ (q # r => r < q)
    BY <1>1, <1>2 DEF Sends
<1>4. \A q \in loader.sent : q < r /\ (\A p \in loader.batch : q < p)
    BY DEF LoadInv, LoaderLists
<1>5. /\ loader'.pc = (IF loader.batch = {r} THEN "asking" ELSE "sending")
      /\ loader'.batch = loader.batch \ {r} /\ loader'.sent = S
      /\ loader'.updates = (IF full THEN {} ELSE updates) /\ loader'.open = loader.open
      /\ rows' = IF full THEN Written(updates) ELSE rows
    <2> HIDE DEF full
    <2>1. loader' = [loader EXCEPT !.pc = IF loader.batch = {r} THEN "asking" ELSE "sending",
                                   !.batch = @ \ {r},
                                   !.sent = @ \cup {r},
                                   !.updates = IF full THEN {} ELSE updates]
          /\ rows' = IF full THEN Written(updates) ELSE rows
        BY DEF Note, full
    <2> QED
        BY <2>1 DEF Outcomes
<1>6. updates \subseteq (DOMAIN rows) \X {"SUCCESS", "FAILED"} /\ \A u \in updates : u[1] \in S
    <2>1. loader.updates \subseteq (DOMAIN rows) \X {"SUCCESS", "FAILED"}
          /\ \A u \in loader.updates : u[1] \in loader.sent
        BY DEF LoadTyped, LoadInv, LoaderLists
    <2> QED
        BY <1>1, <2>1
<1> HIDE DEF full
<1>7. /\ DOMAIN rows' = DOMAIN rows /\ Len(rows') = Len(rows)
      /\ \A q \in DOMAIN rows :
            /\ rows'[q].key = rows[q].key
            /\ Pending(q)' => Pending(q) /\ (full => ~\E s \in RowStatus : <<q, s>> \in updates)
            /\ Loaded(q)' => Loaded(q) \/ (full /\ <<q, "SUCCESS">> \in updates)
    <2>1. CASE full
        <3>1. rows' = Written(updates)
            BY <1>5, <2>1
        <3> QED
            BY <1>6, <2>1, <3>1, WrittenRows
    <2>2. CASE ~full
        <3>1. rows' = rows
            BY <1>5, <2>2
        <3> QED
            BY <2>2, <3>1 DEF Pending, Loaded
    <2> QED
        BY <2>1, <2>2
<1>8. stac' \in [Keys -> 0..Len(rows)]
    BY <1>1 DEF LoadTyped, Publish
<1>9. LoadTyped'
    <2>1. rows' \in Seq(Row) /\ Len(rows') <= MaxRows /\ stac' \in [Keys -> 0..Len(rows')]
        BY <1>7, <1>8 DEF LoadTyped
    <2>2. loader'.updates \subseteq (DOMAIN rows') \X {"SUCCESS", "FAILED"}
        BY <1>5, <1>6, <1>7
    <2>3. /\ loader'.pc \in LoadPC /\ loader'.open \subseteq Collections
          /\ loader'.batch \subseteq DOMAIN rows' /\ loader'.sent \subseteq DOMAIN rows'
        BY <1>1, <1>5, <1>7 DEF LoadTyped, LoadPC
    <2>4. HeldAtFirst \subseteq held' /\ held' \subseteq Collections
          /\ errors'.count \in 0..MaxErrors /\ errors'.rows \subseteq DOMAIN rows'
        BY <1>7 DEF LoadTyped
    <2> QED
        BY <2>1, <2>2, <2>3, <2>4 DEF LoadTyped
<1>10. LoaderLists'
    <2>1. IsFiniteSet(loader.sent) /\ IsFiniteSet(loader.batch)
        BY <1>1, RowsInRange, FS_Subset
    <2>2. r \notin loader.sent
        BY <1>1, <1>2, <1>4
    <2>3. Cardinality(S) = Cardinality(loader.sent) + 1
          /\ Cardinality(loader.batch \ {r}) = Cardinality(loader.batch) - 1
        BY <2>1, <2>2, FS_AddElement, FS_RemoveElement
    <2>4. Cardinality(loader.sent) + Cardinality(loader.batch) <= Limit /\ Limit \in Nat
          /\ Cardinality(loader.sent) \in Nat /\ Cardinality(loader.batch) \in Nat
        BY <2>1, FS_CardinalityType, PipelineAssumption DEF LoadInv, LoaderLists
    <2>5. Cardinality(loader'.sent) + Cardinality(loader'.batch) <= Limit
        BY <1>5, <2>3, <2>4
    <2>6. loader'.pc = "sending" <=> loader'.batch # {}
        BY <1>5
    <2>7. \A u \in loader'.updates : u[1] \in loader'.sent
        BY <1>5, <1>6
    <2>8. \A q \in loader'.sent : \A p \in loader'.batch : q < p
        BY <1>3, <1>4, <1>5
    <2>9. loader'.pc \notin {"idle", "listing"}
        BY <1>5
    <2> QED
        BY <2>5, <2>6, <2>7, <2>8, <2>9 DEF LoaderLists
<1>11. Taken' = Taken
    BY <1>5 DEF Taken
<1>12. CollectionsOpen'
    <2>1. Taken \subseteq DOMAIN rows
        BY <1>1 DEF Taken
    <2> QED
        BY <1>5, <1>7, <1>11, <2>1 DEF LoadInv, CollectionsOpen, InOpen
<1>13. NoneLeftBehind'
    <2> SUFFICES ASSUME NEW q \in Taken, NEW p \in DOMAIN rows, p < q, InOpen(p)', Pending(p)'
                 PROVE  p \in Taken
        BY <1>7, <1>11 DEF NoneLeftBehind
    <2>1. InOpen(p) /\ Pending(p)
        BY <1>5, <1>7 DEF InOpen
    <2> QED
        BY <2>1 DEF LoadInv, NoneLeftBehind
<1>14. ASSUME NEW q \in S, Pending(q)
       PROVE  q \in errors'.rows \/ \E s \in RowStatus : <<q, s>> \in updates
    <2>1. CASE q = r
        BY <2>1 DEF RowStatus
    <2>2. CASE q \in loader.sent
        <3>1. q \in errors.rows \/ \E s \in RowStatus : <<q, s>> \in loader.updates
            BY <1>14, <2>2 DEF LoadInv, SentIsNoted
        <3> QED
            BY <3>1
    <2> QED
        BY <2>1, <2>2
<1>15. SentIsNoted'
    <2> SUFFICES ASSUME NEW q \in S, Pending(q)'
                 PROVE  q \in errors'.rows \/ \E s \in RowStatus : <<q, s>> \in loader'.updates
        BY <1>5 DEF SentIsNoted
    <2>1. q \in DOMAIN rows
        BY <1>1
    <2> QED
        BY <1>5, <1>7, <1>14, <2>1
<1>16. ASSUME NEW q \in S, NEW p \in DOMAIN rows, p < q, SameItem(p, q), Pending(p)
       PROVE  p \in S
    <2>1. q \in Taken /\ InOpen(q)
        BY DEF LoadInv, CollectionsOpen, Taken
    <2>2. InOpen(p)
        BY <1>16, <2>1 DEF InOpen, SameItem
    <2>3. p \in Taken
        BY <1>16, <2>1, <2>2 DEF LoadInv, NoneLeftBehind
    <2>4. p \in loader.batch => r <= p
        BY <1>3
    <2>5. q <= r
        BY <1>1, <1>2, <1>4
    <2> QED
        BY <1>1, <1>2, <1>16, <2>3, <2>4, <2>5 DEF Taken
<1>17. ASSUME NEW q \in DOMAIN rows, Loaded(q) \/ <<q, "SUCCESS">> \in updates,
              \A p \in errors'.rows : ~SameItem(p, q)
       PROVE  stac'[rows[q].key] >= q
    <2>1. Undeferred(rows[q].key) /\ rows[q].key \in Keys /\ stac \in [Keys -> 0..Len(rows)]
        BY <1>2, <1>17 DEF Undeferred, SameItem, LoadTyped
    <2>2. CASE q = r
        <3>1. ~Loaded(q)
            BY <1>1, <1>2, <2>1, <2>2 DEF LoadInv, BatchIsNewer, SameItem
        <3>2. Publish(r)
            BY <1>17, <2>2, <3>1
        <3> QED
            BY <1>1, <1>2, <2>1, <2>2, <3>2 DEF Publish
    <2>3. CASE q # r
        <3>1. stac[rows[q].key] >= q
            <4>1. CASE Loaded(q)
                BY <2>1, <4>1 DEF LoadInv, NewestStands, Loaded, Undeferred
            <4>2. CASE <<q, "SUCCESS">> \in updates
                <5>1. <<q, "SUCCESS">> \in loader.updates
                    BY <2>3, <4>2
                <5>2. q \in loader.sent
                    BY <5>1 DEF LoadInv, LoaderLists
                <5> QED
                    BY <2>1, <5>1, <5>2 DEF LoadInv, NotedStands
            <4> QED
                BY <1>17, <4>1, <4>2
        <3>2. SameItem(r, q) => q < r
            <4>1. CASE Loaded(q)
                BY <2>1, <4>1 DEF LoadInv, BatchIsNewer
            <4>2. CASE <<q, "SUCCESS">> \in updates
                BY <1>4, <1>6, <2>3, <4>2
            <4> QED
                BY <1>17, <4>1, <4>2
        <3> QED
            BY <1>1, <1>2, <2>1, <3>1, <3>2 DEF Publish, SameItem
    <2> QED
        BY <2>2, <2>3
<1>18. BatchIsNewer'
    <2> SUFFICES ASSUME NEW q \in loader.batch \ {r}, NEW p \in DOMAIN rows, Loaded(p)', SameItem(q, p)',
                        Undeferred(rows[p].key)'
                 PROVE  p < q
        BY <1>5, <1>7 DEF BatchIsNewer
    <2>1. q \in DOMAIN rows /\ SameItem(q, p)
        BY <1>1, <1>7 DEF SameItem
    <2>2. Undeferred(rows[p].key)
        BY <1>7 DEF Undeferred, LoadTyped
    <2>3. CASE Loaded(p)
        BY <2>1, <2>2, <2>3 DEF LoadInv, BatchIsNewer
    <2>4. CASE <<p, "SUCCESS">> \in updates
        BY <1>3, <1>4, <1>6, <2>4
    <2> QED
        BY <1>7, <2>3, <2>4
<1>19. NotedStands'
    <2> SUFFICES ASSUME NEW q \in S, <<q, "SUCCESS">> \in updates, Undeferred(rows[q].key)'
                 PROVE  stac'[rows[q].key] >= q
        BY <1>1, <1>5, <1>7 DEF NotedStands
    <2>1. q \in DOMAIN rows /\ \A p \in errors'.rows : ~SameItem(p, q)
        BY <1>1, <1>7 DEF Undeferred, SameItem
    <2> QED
        BY <1>17, <2>1
<1>20. NoneOvertaken' /\ NewestStands'
    <2>1. CASE full
        <3>1. S \in SUBSET DOMAIN rows /\ NoneOvertaken /\ rows' = Written(updates)
            BY <1>1, <1>5, <2>1 DEF LoadInv
        <3> HIDE DEF S
        <3> QED
            BY <1>6, <1>14, <1>16, <1>17, <3>1, WriteKeeps
    <2>2. CASE ~full
        <3>1. rows' = rows
            BY <1>5, <2>2
        <3>2. NoneOvertaken'
            BY <3>1 DEF LoadInv, NoneOvertaken, Undeferred, Loaded, Pending, SameItem
        <3>3. NewestStands'
            BY <1>17, <3>1 DEF NewestStands, Undeferred, Loaded, SameItem
        <3> QED
            BY <3>2, <3>3
    <2> QED
        BY <2>1, <2>2
<1> QED
    BY <1>9, <1>10, <1>12, <1>13, <1>15, <1>18, <1>19, <1>20 DEF LoadInv

LEMMA SendMoves ==
    ASSUME LoadTyped, LoadInv, Outcomes, rows' \in Seq(Row), NEW r \in loader.batch,
           SendAccepted(r) \/ SendRefused(r) \/ SendDeferred(r)
    PROVE  LoadTyped' /\ LoadInv'
<1>1. /\ \A u \in loader.updates : u[1] \in loader.sent /\ u[1] # r
      /\ r \in DOMAIN rows /\ errors.rows \subseteq DOMAIN rows /\ errors.count \in 0..MaxErrors
    BY RowsInRange DEF LoadInv, LoaderLists, LoadTyped
<1>2. <<r, "SUCCESS">> \notin loader.updates
    BY <1>1
<1>3. CASE SendAccepted(r)
    <2>1. /\ Sends(r) /\ Publish(r) /\ UNCHANGED <<held, errors>>
          /\ Note(r, loader.updates \cup {<<r, "SUCCESS">>})
        BY <1>3 DEF SendAccepted
    <2> QED
        BY <1>1, <2>1, NoteMoves
<1>4. CASE SendRefused(r)
    <2>1. /\ Sends(r) /\ CountError({}) /\ UNCHANGED <<held, stac>>
          /\ Note(r, loader.updates \cup {<<r, "FAILED">>})
        BY <1>4 DEF SendRefused
    <2>2. errors'.rows = errors.rows /\ errors'.count \in 0..MaxErrors
        BY <1>1, <2>1, PipelineAssumption DEF CountError
    <2>3. <<r, "SUCCESS">> \notin loader.updates \cup {<<r, "FAILED">>}
        BY <1>2
    <2> QED
        BY <1>1, <2>1, <2>2, <2>3, NoteMoves
<1>5. CASE SendDeferred(r)
    <2>1. Sends(r) /\ CountError({r}) /\ UNCHANGED <<held, stac>> /\ Note(r, loader.updates)
        BY <1>5 DEF SendDeferred
    <2>2. errors'.rows = errors.rows \cup {r} /\ errors'.count \in 0..MaxErrors
        BY <1>1, <2>1, PipelineAssumption DEF CountError
    <2> QED
        BY <1>1, <1>2, <2>1, <2>2, NoteMoves
<1> QED
    BY <1>3, <1>4, <1>5

-----------------------------------------------------------------------------
LEMMA InitLoad == Init => TypeOK /\ LoadInv
<1> SUFFICES ASSUME Init PROVE TypeOK /\ LoadInv
    OBVIOUS
<1> USE PipelineAssumption
<1>1. rows = <<>> /\ Len(rows) = 0 /\ DOMAIN rows = {} /\ rows \in Seq(Row)
    BY DEF Init
<1>2. LoadTyped
    BY <1>1 DEF Init, LoadTyped, NoLoader, LoadPC
<1>3. JobsTyped /\ losses \in 0..MaxLosses
    <2>1. \A j \in Jobs : Len(Produces[Of[j]]) \in Nat
        OBVIOUS
    <2> QED
        BY <2>1 DEF Init, JobsTyped, JobPC
<1>4. LoaderLists
    BY FS_EmptySet DEF Init, NoLoader, LoaderLists
<1>5. LoadInv
    BY <1>1, <1>4 DEF Init, NoLoader, LoadInv, CollectionsOpen, NoneLeftBehind, SentIsNoted,
        NoneOvertaken, BatchIsNewer, NotedStands, NewestStands, Taken
<1> QED
    BY <1>2, <1>3, <1>5, TypeOKParts

LEMMA LoadInductive ==
    ASSUME IInv, IInv', TypeOK, LoadInv, [Next]_vars
    PROVE  TypeOK' /\ LoadInv'
<1>1. JobsTyped /\ LoadTyped /\ losses \in 0..MaxLosses /\ Outcomes /\ rows' \in Seq(Row)
    BY TypeOKParts DEF IInv, Types
<1>2. ASSUME OthersStep PROVE LoadTyped' /\ LoadInv'
    BY <1>1, <1>2, OthersKeep
<1>3. CASE \E j \in Jobs :
            TransformWork(j) \/ Queue(j) \/ AskRetrigger(j) \/ FailTransform(j) \/ TransformLost(j)
    <2>1. OthersStep /\ JobsTyped' /\ losses' \in 0..MaxLosses
        BY <1>1, <1>3, TransformMoves
    <2> QED
        BY <1>2, <2>1, TypeOKKept
<1>4. CASE LoadWork \/ LoaderLost
    <2>1. LoadTyped' /\ LoadInv'
        BY <1>1, <1>4, StartMoves, OpenMoves, ReadMoves, SendMoves, RaisedMoves, FlushMoves DEF LoadWork
    <2>2. UNCHANGED <<tstatus, job>> /\ losses' \in 0..MaxLosses
        <3>1. CASE LoaderLost
            BY <1>1, <3>1, PipelineAssumption DEF LoaderLost
        <3>2. CASE LoadWork
            BY <1>1, <3>2 DEF LoadWork, StartLoad, OpenCollections, ReadBatch,
                SendAccepted, SendRefused, SendDeferred, SendRaised, Flush
        <3> QED
            BY <1>4, <3>1, <3>2
    <2>3. JobsTyped'
        BY <1>1, <2>2 DEF JobsTyped
    <2> QED
        BY <2>1, <2>2, <2>3, TypeOKKept
<1>5. CASE \E r \in DOMAIN rows : Cleanup(r)
    <2>1. OthersStep /\ UNCHANGED <<tstatus, job, losses>>
        BY <1>1, <1>5, CleanupMoves DEF Cleanup
    <2>2. JobsTyped'
        BY <1>1, <2>1 DEF JobsTyped
    <2> QED
        BY <1>1, <1>2, <2>1, <2>2, TypeOKKept
<1>6. CASE UNCHANGED vars
    <2>1. OthersStep /\ UNCHANGED <<tstatus, job, losses>>
        BY <1>1, <1>6, SameRowsByOthers DEF vars
    <2>2. JobsTyped'
        BY <1>1, <2>1 DEF JobsTyped
    <2> QED
        BY <1>1, <1>2, <2>1, <2>2, TypeOKKept
<1> QED
    BY <1>3, <1>4, <1>5, <1>6 DEF Next

LEMMA LoadInvariant == Spec => [](TypeOK /\ LoadInv)
<1>1. IInv /\ IInv' /\ TypeOK /\ LoadInv /\ [Next]_vars => TypeOK' /\ LoadInv'
    BY LoadInductive
<1> QED
    BY <1>1, InitLoad, InductiveInvariant, PTL DEF Spec

\* Every variable keeps its type, whatever the transforms, chunks, limits and losses.
THEOREM TypeCorrect == Spec => []TypeOK
BY LoadInvariant, PTL

\* One run of load_data sends no row twice and none before an older one, and no more
\* rows than its limit (load/sources/base.py 122-137), although rows are added and
\* deleted, and statuses not written back, while it runs.
THEOREM SendsOldestFirstOnce == Spec => []OldestFirstOnce
<1>1. TypeOK /\ LoadInv => OldestFirstOnce
    <2> SUFFICES ASSUME LoadTyped, LoadInv, loader.pc = "sending"
                 PROVE  /\ Cardinality(loader.sent) < Limit
                        /\ \A r \in loader.sent : \A q \in loader.batch : r < q
        BY TypeOKParts DEF OldestFirstOnce
    <2>1. loader.batch # {} /\ Cardinality(loader.sent) + Cardinality(loader.batch) <= Limit
        BY DEF LoadInv, LoaderLists
    <2>2. IsFiniteSet(loader.batch) /\ Cardinality(loader.sent) \in Nat /\ Cardinality(loader.batch) \in Nat
        BY RowsInRange, FS_Subset, FS_CardinalityType DEF LoadTyped
    <2>3. Cardinality(loader.batch) # 0
        BY <2>1, <2>2, FS_EmptySet
    <2>4. Cardinality(loader.sent) < Limit
        BY <2>1, <2>2, <2>3, PipelineAssumption
    <2> QED
        BY <2>4 DEF LoadInv, LoaderLists
<1> QED
    BY <1>1, LoadInvariant, PTL

\* A row is sent only to a collection that the server has, also when the server lists
\* or makes only some of them (load/sources/base.py 40-72, 159-163).
THEOREM SendsToHeldCollections == Spec => []OnlyToHeldCollections
<1>1. LoadInv => OnlyToHeldCollections
    BY DEF LoadInv, CollectionsOpen, OnlyToHeldCollections, InOpen, Taken
<1> QED
    BY <1>1, LoadInvariant, PTL

\* Whatever is lost, sent again, refused, rejected or cleaned up, the server's version of
\* an item is at least as new as every version recorded as loaded, unless it deferred a
\* version of the item (load/sources/base.py 74-181).
THEOREM ServerKeepsNewest == Spec => []NewestStands
<1>1. LoadInv => NewestStands
    BY DEF LoadInv
<1> QED
    BY <1>1, LoadInvariant, PTL
=============================================================================
