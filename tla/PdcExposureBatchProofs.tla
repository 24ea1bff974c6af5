----------------------- MODULE PdcExposureBatchProofs -----------------------
(***************************************************************************)
(* Proofs about PdcExposureBatch, for a batch of any length and any number *)
(* of overlapping runs and restarts: a row that says NO_CHANGE names a row *)
(* with the same impact; and no change escapes the runs, if none of them   *)
(* is lost or fails and the storage finds the files it has just stored.    *)
(*                                                                         *)
(* What makes the first inductive: every hash that is stored, or carried by*)
(* a run, is one of the two hashes of the item it is kept for, and every   *)
(* copy of a row that a run may still write back is as true as the row.    *)
(* The second rests on what an impact's hash stands for: wherever one is   *)
(* stored or carried, a transform of that impact was queued or is about to *)
(* be.  A storage that may miss a new file breaks it: the run that misses  *)
(* the file has nothing to judge, while a retry of another run writes its  *)
(* older copy, with the file, over the row.                                *)
(***************************************************************************)
EXTENDS PdcExposureBatch, TLAPS

\* h is the hash of what the service holds for item i, with or without timestamp.
HashOf(h, i) == content[i] \in Contents /\ h \in {content[i], Impact[content[i]]}

SameImpact(i, j) ==
    content[i] \in Contents /\ content[j] \in Contents /\ Impact[content[i]] = Impact[content[j]]

\* What holds of item i's row, and of every copy of it.
RowTrue(i, rw) ==
    /\ rw \in Row
    /\ rw.hash # NoHash => HashOf(rw.hash, i)
    /\ rw.data => content[i] \in Contents
    /\ rw.nochange => rw.revision \in Items /\ SameImpact(i, rw.revision)

\* What a run may compare the next item with.
PrevTrue(h, j) ==
    /\ h \in Hashes /\ j \in Items \cup {NoItem}
    /\ h # NoHash => j \in Items /\ HashOf(h, j)

\* The places that a run reaches only with a body in its hands.
HasBody == {"comparing", "saving", "sending"}

RunTrue(r) ==
    /\ r \in Run
    /\ RowTrue(r.item, r.copy)
    /\ PrevTrue(r.prevHash, r.prev)
    /\ r.pc \in HasBody => content[r.item] \in Contents

RowsTrue == row \in [Items -> Row] /\ \A i \in Items : RowTrue(i, row[i])
RunsTrue == run \in [Runs -> Run] /\ \A w \in Runs : RunTrue(run[w])

RestTyped ==
    /\ content \in [Items -> Contents \cup {NoBody}]
    /\ status \in [Items -> Status]
    /\ transformed \subseteq Items
    /\ starts \in 0..MaxStarts /\ failures \in 0..MaxFailures
    /\ losses \in 0..MaxLosses /\ twins \in 0..MaxLosses

IInv == RestTyped /\ RowsTrue /\ RunsTrue

-----------------------------------------------------------------------------
(* What is true of a row or of a run stays so, since the content is fixed.  *)

LEMMA NewRowTrue ==
    ASSUME NEW i \in Items
    PROVE  RowTrue(i, NewRow)
BY DEF RowTrue, NewRow, Row, Hashes

LEMMA StepTrue ==
    ASSUME NEW pc \in PC, NEW i \in Items, NEW n \in 0..MaxRetries, NEW copy, NEW h, NEW j,
           RowTrue(i, copy), PrevTrue(h, j), pc \in HasBody => content[i] \in Contents
    PROVE  RunTrue(Step(pc, i, n, copy, h, j))
<1>1. copy \in Row
    BY DEF RowTrue
<1>2. Step(pc, i, n, copy, h, j) \in Run
    BY <1>1 DEF Step, Run, PrevTrue
<1> QED
    BY <1>2 DEF RunTrue, Step

LEMMA FreshTrue ==
    ASSUME NEW pc \in PC \ HasBody
    PROVE  RunTrue(Fresh(pc))
<1>1. 1 \in Items /\ 0 \in 0..MaxRetries
    BY BatchAssumption DEF Items
<1>2. PrevTrue(NoHash, NoItem)
    BY DEF PrevTrue, Hashes
<1> QED
    BY <1>1, <1>2, NewRowTrue, StepTrue DEF Fresh

LEMMA RunUpdate ==
    ASSUME RunsTrue, content' = content, NEW w \in Runs, NEW r, RunTrue(r),
           run' = [run EXCEPT ![w] = r]
    PROVE  RunsTrue'
<1>1. run' \in [Runs -> Run]
    BY DEF RunsTrue, RunTrue
<1>2. \A v \in Runs : RunTrue(run'[v])
    BY DEF RunsTrue
<1>3. ASSUME NEW v \in Runs PROVE RunTrue(run[v])'
    <2>1. PICK q : q = run'[v]
        OBVIOUS
    <2>2. RunTrue(q)
        BY <1>2, <2>1
    <2>3. RowTrue(q.item, q.copy)'
        BY <2>2 DEF RunTrue, RowTrue, HashOf, SameImpact
    <2>4. PrevTrue(q.prevHash, q.prev)'
        BY <2>2 DEF RunTrue, PrevTrue, HashOf
    <2> QED
        BY <2>1, <2>2, <2>3, <2>4 DEF RunTrue
<1> QED
    BY <1>1, <1>3 DEF RunsTrue

LEMMA RowUpdate ==
    ASSUME RowsTrue, content' = content, NEW i \in Items, NEW rw, RowTrue(i, rw),
           row' = [row EXCEPT ![i] = rw]
    PROVE  RowsTrue'
<1>1. row' \in [Items -> Row]
    BY DEF RowsTrue, RowTrue
<1>2. \A k \in Items : RowTrue(k, row'[k])
    BY DEF RowsTrue
<1>3. \A k \in Items : RowTrue(k, row[k])'
    BY <1>2 DEF RowTrue, HashOf, SameImpact
<1> QED
    BY <1>1, <1>3 DEF RowsTrue

LEMMA RowsKept ==
    ASSUME RowsTrue, UNCHANGED <<content, row>>
    PROVE  RowsTrue'
BY DEF RowsTrue, RowTrue, HashOf, SameImpact

LEMMA RunFields ==
    ASSUME RunsTrue, NEW w \in Runs
    PROVE  /\ run[w].pc \in PC /\ run[w].item \in Items /\ run[w].tries \in 0..MaxRetries
           /\ RowTrue(run[w].item, run[w].copy)
           /\ PrevTrue(run[w].prevHash, run[w].prev)
           /\ run[w].pc \in HasBody => content[run[w].item] \in Contents
<1>1. run[w] \in Run /\ RunTrue(run[w])
    BY DEF RunsTrue
<1> QED
    BY <1>1 DEF RunTrue, Run

-----------------------------------------------------------------------------
(* The ways in which an action moves its run.                               *)

LEMMA BecomeTrue ==
    ASSUME RunsTrue, content' = content, NEW w \in Runs,
           NEW pc \in PC, NEW n \in 0..MaxRetries, NEW copy, RowTrue(run[w].item, copy),
           pc \in HasBody => content[run[w].item] \in Contents,
           Become(w, pc, n, copy)
    PROVE  RunsTrue'
<1>1. RunTrue(Step(pc, run[w].item, n, copy, run[w].prevHash, run[w].prev))
    BY RunFields, StepTrue
<1> QED
    BY <1>1, RunUpdate DEF Become

LEMMA GotoTrue ==
    ASSUME RunsTrue, content' = content, NEW w \in Runs, NEW pc \in PC,
           pc \in HasBody => content[run[w].item] \in Contents,
           Goto(w, pc)
    PROVE  RunsTrue'
BY RunFields, BecomeTrue DEF Goto

LEMMA FetchedTrue ==
    ASSUME RunsTrue, content' = content, NEW w \in Runs, NEW d \in BOOLEAN,
           d => content[run[w].item] \in Contents,
           Fetched(w, d)
    PROVE  RunsTrue'
<1>1. RowTrue(run[w].item, [NewRow EXCEPT !.data = d])
    BY RunFields DEF RowTrue, NewRow, Row, Hashes
<1>2. "marking" \in PC \ HasBody /\ 0 \in 0..MaxRetries
    BY BatchAssumption DEF PC, Working, HasBody
<1> QED
    BY <1>1, <1>2, BecomeTrue DEF Fetched

LEMMA AdvanceTrue ==
    ASSUME RunsTrue, content' = content, NEW w \in Runs, NEW h, NEW j, PrevTrue(h, j),
           Advance(w, h, j)
    PROVE  RunsTrue'
<1> DEFINE r == IF run[w].item < N THEN Step("looking", run[w].item + 1, 0, NewRow, h, j)
                                   ELSE Step("done", N, 0, NewRow, h, j)
<1>1. /\ run[w].item < N => run[w].item + 1 \in Items
      /\ N \in Items /\ 0 \in 0..MaxRetries
    BY RunFields, BatchAssumption DEF Items
<1>2. {"looking", "done"} \subseteq PC \ HasBody
    BY DEF PC, Working, HasBody
<1>3. CASE run[w].item < N
    <2>1. RunTrue(Step("looking", run[w].item + 1, 0, NewRow, h, j))
        BY <1>1, <1>2, <1>3, NewRowTrue, StepTrue
    <2> QED
        BY <1>3, <2>1, RunUpdate DEF Advance
<1>4. CASE ~(run[w].item < N)
    <2>1. RunTrue(Step("done", N, 0, NewRow, h, j))
        BY <1>1, <1>2, NewRowTrue, StepTrue
    <2> QED
        BY <1>4, <2>1, RunUpdate DEF Advance
<1> QED
    BY <1>3, <1>4

LEMMA RestartTrue ==
    ASSUME RunsTrue, content' = content, NEW w \in Runs, NEW pc \in {"looking", "idle"},
           run' = [run EXCEPT ![w] = Fresh(pc)]
    PROVE  RunsTrue'
<1>1. pc \in PC \ HasBody
    BY DEF PC, Working, HasBody
<1> QED
    BY <1>1, FreshTrue, RunUpdate

LEMMA FullSaveTrue ==
    ASSUME IInv, content' = content, NEW w \in Runs, NEW copy, RowTrue(run[w].item, copy),
           FullSave(w, copy)
    PROVE  RowsTrue' /\ status' \in [Items -> Status]
<1>1. run[w].item \in Items
    BY RunFields DEF IInv
<1>2. RowsTrue'
    BY <1>1, RowUpdate DEF IInv, FullSave
<1>3. status' \in [Items -> Status]
    BY <1>1 DEF IInv, RestTyped, FullSave, Status
<1> QED
    BY <1>2, <1>3

-----------------------------------------------------------------------------
(* The two decisions that set NO_CHANGE.                                    *)

\* A row with the same file_hash has the same body: an impact is not a body.
LEMMA SharedTrue ==
    ASSUME RowsTrue, NEW i \in Items, NEW j \in Duplicates(i), content[i] \in Contents
    PROVE  RowTrue(i, Shared(i, j))
<1>1. j \in Items /\ row[j].hash = content[i] /\ RowTrue(j, row[j]) /\ row[j] \in Row
    BY DEF RowsTrue, Duplicates
<1>2. HashOf(content[i], j)
    BY <1>1, BatchAssumption DEF RowTrue
<1>3. content[j] = content[i]
    BY <1>2, BatchAssumption DEF HashOf
<1>4. Shared(i, j) \in Row
    BY <1>1 DEF Shared, Row, Hashes
<1> QED
    BY <1>1, <1>3, <1>4 DEF RowTrue, Shared, HashOf, SameImpact

LEMMA StoredTrue ==
    ASSUME NEW i \in Items, NEW copy, RowTrue(i, copy), content[i] \in Contents
    PROVE  RowTrue(i, Stored(i, copy))
<1>1. copy \in Row
    BY DEF RowTrue
<1>2. Stored(i, copy) \in Row
    BY <1>1 DEF Stored, Row, Hashes
<1>3. /\ Stored(i, copy).hash = content[i]
      /\ Stored(i, copy).nochange = copy.nochange
      /\ Stored(i, copy).revision = copy.revision
    BY <1>1 DEF Stored, Row
<1> QED
    BY <1>2, <1>3 DEF RowTrue, HashOf

\* The item compared with has the same impact if its hash is that of an impact.
LEMMA JudgedSame ==
    ASSUME NEW i \in Items, content[i] \in Contents, NEW h, NEW j, PrevTrue(h, j),
           h = Impact[content[i]]
    PROVE  j \in Items /\ SameImpact(i, j)
<1>1. h \in Impacts
    BY BatchAssumption
<1>2. h # NoHash
    BY <1>1, BatchAssumption
<1>3. j \in Items /\ HashOf(h, j)
    BY <1>2 DEF PrevTrue
<1>4. h = Impact[content[j]] /\ content[j] \in Contents
    BY <1>1, <1>3, BatchAssumption DEF HashOf
<1> QED
    BY <1>3, <1>4 DEF SameImpact

\* What the next item is compared with after an item that has been fetched.
LEMMA CurrentTrue ==
    ASSUME NEW i \in Items, content[i] \in Contents
    PROVE  PrevTrue(Impact[content[i]], i)
BY BatchAssumption DEF PrevTrue, HashOf, Hashes

-----------------------------------------------------------------------------

LEMMA WorkStep ==
    ASSUME IInv, NEW w \in Runs, Work(w)
    PROVE  IInv'
<1> DEFINE i == run[w].item
<1> USE DEF IInv
<1>0. /\ i \in Items /\ run[w].tries \in 0..MaxRetries /\ RowTrue(i, run[w].copy)
      /\ PrevTrue(run[w].prevHash, run[w].prev)
      /\ run[w].pc \in HasBody => content[i] \in Contents
      /\ RowTrue(i, row[i])
      /\ run[w].copy.data \in BOOLEAN
      /\ run[w].copy.data => content[i] \in Contents
    <2>1. /\ i \in Items /\ run[w].tries \in 0..MaxRetries /\ RowTrue(i, run[w].copy)
          /\ PrevTrue(run[w].prevHash, run[w].prev)
          /\ run[w].pc \in HasBody => content[i] \in Contents
        BY RunFields
    <2>2. RowTrue(i, row[i])
        BY <2>1 DEF RowsTrue
    <2> QED
        BY <2>1, <2>2 DEF RowTrue, Row
<1>a. /\ {"loading", "starting", "fetching", "judging"} \subseteq PC \ HasBody
      /\ {"comparing", "saving", "sending"} \subseteq PC
      /\ 0 \in 0..MaxRetries
    BY BatchAssumption DEF PC, Working, Fetching, HasBody
<1>b. ASSUME UNCHANGED <<content, transformed, bounds>>, status' \in [Items -> Status],
             RowsTrue', RunsTrue'
      PROVE  IInv'
    BY <1>b DEF RestTyped, bounds
<1>1. CASE Look(w)
    <2>1. RunsTrue'
        <3>1. CASE status[i] = "SUCCESS" /\ Advance(w, row[i].hash, i)
            <4>1. PrevTrue(row[i].hash, i)
                BY <1>0 DEF PrevTrue, RowTrue, Row
            <4> QED
                BY <1>1, <3>1, <4>1, <1>0, AdvanceTrue DEF Look
        <3>2. CASE Goto(w, "loading")
            BY <1>1, <3>2, <1>a, GotoTrue DEF Look
        <3> QED
            BY <1>1, <3>1, <3>2 DEF Look
    <2> QED
        BY <1>1, <2>1, <1>b, RowsKept DEF Look, RestTyped
<1>2. CASE Load(w)
    <2>1. RunsTrue'
        BY <1>2, <1>0, <1>a, BecomeTrue DEF Load
    <2> QED
        BY <1>2, <2>1, <1>b, RowsKept DEF Load, RestTyped
<1>3. CASE MarkAsStarted(w)
    <2>1. RunsTrue'
        BY <1>3, <1>a, GotoTrue DEF MarkAsStarted
    <2> QED
        BY <1>0, <1>3, <2>1, <1>b, RowsKept DEF MarkAsStarted, RestTyped, Status
<1>4. CASE FetchBody(w)
    <2>1. RunsTrue'
        BY <1>4, <1>a, GotoTrue DEF FetchBody
    <2>2. RowsTrue' /\ status' \in [Items -> Status]
        BY <1>0, <1>4, FullSaveTrue DEF FetchBody
    <2> QED
        BY <1>4, <2>1, <2>2, <1>b DEF FetchBody
<1>5. CASE FetchNothing(w)
    <2>1. RunsTrue'
        BY <1>0, <1>5, FetchedTrue DEF FetchNothing
    <2>2. RowsTrue' /\ status' \in [Items -> Status]
        <3>1. CASE FullSave(w, run[w].copy)
            BY <1>0, <1>5, <3>1, FullSaveTrue DEF FetchNothing
        <3>2. CASE UNCHANGED <<status, row>>
            BY <1>5, <3>2, RowsKept DEF FetchNothing, RestTyped
        <3> QED
            BY <1>5, <3>1, <3>2 DEF FetchNothing
    <2> QED
        BY <1>5, <2>1, <2>2, <1>b DEF FetchNothing
<1>6. CASE CompareContent(w)
    <2>1. content[i] \in Contents
        BY <1>0, <1>6 DEF CompareContent, At, HasBody
    <2>2. RunsTrue'
        <3>1. CASE Become(w, "saving", run[w].tries, Stored(i, run[w].copy))
            BY <1>0, <1>6, <1>a, <2>1, <3>1, StoredTrue, BecomeTrue DEF CompareContent
        <3>2. ASSUME NEW j \in Items, IsFirst(j, Duplicates(i)),
                     Become(w, "saving", run[w].tries, Shared(i, j))
              PROVE  RunsTrue'
            <4>1. RowTrue(i, Shared(i, j))
                BY <1>0, <2>1, <3>2, SharedTrue DEF IsFirst
            <4> QED
                BY <1>0, <1>6, <1>a, <2>1, <3>2, <4>1, BecomeTrue DEF CompareContent
        <3> QED
            BY <1>6, <3>1, <3>2 DEF CompareContent
    <2> QED
        BY <1>6, <2>2, <1>b, RowsKept DEF CompareContent, RestTyped
<1>7. ASSUME NEW kept \in Found, SaveContent(w, kept) PROVE IInv'
    <2>1. content[i] \in Contents /\ kept \in BOOLEAN
        BY <1>0, <1>7, BatchAssumption DEF SaveContent
    <2>2. RowTrue(i, [run[w].copy EXCEPT !.data = kept])
        BY <1>0, <2>1 DEF RowTrue, Row
    <2>3. RowsTrue' /\ status' \in [Items -> Status]
        BY <1>7, <2>2, FullSaveTrue DEF SaveContent
    <2>4. RunsTrue'
        BY <1>7, <2>1, FetchedTrue DEF SaveContent
    <2> QED
        BY <1>7, <2>3, <2>4, <1>b DEF SaveContent
<1>8. CASE FetchFailed(w)
    <2>1. status' \in [Items -> Status]
        BY <1>0, <1>8 DEF FetchFailed, RestTyped, Status
    <2>2. RunsTrue'
        <3>1. CASE run[w].tries < MaxRetries /\ Become(w, "fetching", run[w].tries + 1, run[w].copy)
            <4>1. run[w].tries + 1 \in 0..MaxRetries
                BY <1>0, <3>1, BatchAssumption
            <4> QED
                BY <1>0, <1>8, <1>a, <3>1, <4>1, BecomeTrue DEF FetchFailed
        <3>2. CASE Advance(w, run[w].prevHash, run[w].prev)
            BY <1>0, <1>8, <3>2, AdvanceTrue DEF FetchFailed
        <3> QED
            BY <1>8, <3>1, <3>2 DEF FetchFailed
    <2> QED
        BY <1>8, <2>1, <2>2, <1>b, RowsKept DEF FetchFailed
<1>9. CASE MarkSuccess(w)
    <2>1. RunsTrue'
        BY <1>9, <1>a, GotoTrue DEF MarkSuccess
    <2> QED
        BY <1>0, <1>9, <2>1, <1>b, RowsKept DEF MarkSuccess, RestTyped, Status
<1>10. CASE JudgeNothing(w)
    <2>1. PrevTrue(NoHash, NoItem)
        BY DEF PrevTrue, Hashes
    <2>2. RunsTrue'
        BY <1>10, <2>1, AdvanceTrue DEF JudgeNothing
    <2> QED
        BY <1>10, <2>2, <1>b, RowsKept DEF JudgeNothing, RestTyped
<1>11. CASE JudgeUnchanged(w)
    <2>1. content[i] \in Contents /\ run[w].prevHash = Impact[content[i]]
        BY <1>0, <1>11 DEF JudgeUnchanged, Current
    <2> DEFINE rw == [row[i] EXCEPT !.hash = Impact[content[i]], !.nochange = TRUE,
                                    !.revision = run[w].prev]
    <2>2. run[w].prev \in Items /\ SameImpact(i, run[w].prev)
        BY <1>0, <2>1, JudgedSame
    <2>3. RowTrue(i, rw)
        <3>1. row[i] \in Row
            BY <1>0 DEF RowTrue
        <3>2. Impact[content[i]] \in Hashes
            BY <2>1, BatchAssumption DEF Hashes
        <3>3. rw \in Row
            BY <2>2, <3>1, <3>2 DEF Row
        <3>4. /\ rw.hash = Impact[content[i]] /\ rw.revision = run[w].prev
              /\ rw.data = row[i].data
            BY <3>1 DEF Row
        <3> QED
            BY <1>0, <2>1, <2>2, <3>3, <3>4 DEF RowTrue, HashOf
    <2>4. row' = [row EXCEPT ![i] = rw]
        BY <1>0, <1>11 DEF JudgeUnchanged, Current, RowsTrue
    <2>5. RowsTrue'
        BY <1>0, <1>11, <2>3, <2>4, RowUpdate DEF JudgeUnchanged
    <2>6. RunsTrue'
        BY <1>0, <1>11, <2>1, CurrentTrue, AdvanceTrue DEF JudgeUnchanged, Current
    <2> QED
        BY <1>11, <2>5, <2>6, <1>b DEF JudgeUnchanged, RestTyped
<1>12. CASE JudgeChanged(w)
    <2>1. content[i] \in Contents
        BY <1>0, <1>12 DEF JudgeChanged
    <2> DEFINE rw == [row[i] EXCEPT !.hash = Impact[content[i]]]
    <2>2. RowTrue(i, rw)
        <3>1. row[i] \in Row
            BY <1>0 DEF RowTrue
        <3>2. Impact[content[i]] \in Hashes
            BY <2>1, BatchAssumption DEF Hashes
        <3>3. rw \in Row
            BY <3>1, <3>2 DEF Row
        <3>4. /\ rw.hash = Impact[content[i]] /\ rw.revision = row[i].revision
              /\ rw.data = row[i].data /\ rw.nochange = row[i].nochange
            BY <3>1 DEF Row
        <3> QED
            BY <1>0, <2>1, <3>3, <3>4 DEF RowTrue, HashOf
    <2>3. row' = [row EXCEPT ![i] = rw]
        BY <1>0, <1>12 DEF JudgeChanged, Current, RowsTrue
    <2>4. RowsTrue'
        BY <1>0, <1>12, <2>2, <2>3, RowUpdate DEF JudgeChanged
    <2>5. RunsTrue'
        BY <1>12, <1>a, <2>1, GotoTrue DEF JudgeChanged
    <2> QED
        BY <1>12, <2>4, <2>5, <1>b DEF JudgeChanged, RestTyped
<1>13. CASE QueueTransform(w)
    <2>1. content[i] \in Contents
        BY <1>0, <1>13 DEF QueueTransform, At, HasBody
    <2>2. RunsTrue'
        BY <1>0, <1>13, <2>1, CurrentTrue, AdvanceTrue DEF QueueTransform, Current
    <2>3. RowsTrue'
        BY <1>13, RowsKept DEF QueueTransform
    <2>4. RestTyped'
        BY <1>0, <1>13 DEF QueueTransform, RestTyped, bounds
    <2> QED
        BY <2>2, <2>3, <2>4
<1>14. CASE Ack(w)
    <2>1. RunsTrue'
        BY <1>14, RestartTrue DEF Ack
    <2> QED
        BY <1>14, <2>1, <1>b, RowsKept DEF Ack, RestTyped
<1> QED
    BY <1>1, <1>2, <1>3, <1>4, <1>5, <1>6, <1>7, <1>8, <1>9, <1>10, <1>11, <1>12, <1>13, <1>14
    DEF Work

\* A batch that is queued, lost or failed changes no row.
LEMMA RestartStep ==
    ASSUME IInv, NEW w \in Runs, NEW v \in Runs,
           \/ QueueBatch(w) \/ WorkerLost(w) \/ ConnectionLost(w, v) \/ TaskFailure(w)
    PROVE  IInv'
<1> USE DEF QueueBatch, WorkerLost, ConnectionLost, TaskFailure, IInv
<1>1. RowsTrue'
    BY RowsKept
<1>2. RunsTrue'
    BY RestartTrue
<1>3. RestTyped'
    BY BatchAssumption DEF RestTyped
<1> QED
    BY <1>1, <1>2, <1>3

LEMMA InitIInv == Init => IInv
<1> SUFFICES ASSUME Init PROVE IInv
    OBVIOUS
<1>1. RestTyped
    BY BatchAssumption DEF Init, RestTyped, Status
<1>2. RowsTrue
    BY NewRowTrue DEF Init, RowsTrue, RowTrue
<1>3. RunsTrue
    <2>1. "idle" \in PC \ HasBody
        BY DEF PC, HasBody
    <2>2. RunTrue(Fresh("idle")) /\ Fresh("idle") \in Run
        BY <2>1, FreshTrue DEF RunTrue
    <2> QED
        BY <2>2 DEF Init, RunsTrue
<1> QED
    BY <1>1, <1>2, <1>3 DEF IInv

LEMMA InductiveInvariant == Spec => []IInv
<1>1. IInv /\ [Next]_vars => IInv'
    <2> SUFFICES ASSUME IInv, [Next]_vars PROVE IInv'
        OBVIOUS
    <2>1. CASE UNCHANGED vars
        BY <2>1 DEF vars, IInv, RestTyped, RowsTrue, RunsTrue, RunTrue, RowTrue, PrevTrue, HashOf,
                    SameImpact
    <2> QED
        BY <2>1, WorkStep, RestartStep DEF Next
<1> QED
    BY <1>1, InitIInv, PTL DEF Spec

\* PdcExposureBatch's type invariant, for a batch of any length, any runs and any
\* bounds (pdc/extract.py 328-441).
THEOREM TypeCorrect == Spec => []TypeOK
<1>1. IInv => TypeOK
    BY DEF IInv, RestTyped, RowsTrue, RunsTrue, TypeOK
<1> QED
    BY <1>1, InductiveInvariant, PTL

\* A row that PDCExposureBatchTask or manage_duplicate_file_content marks NO_CHANGE
\* names, as its revision, a row that holds the same impact (pdc/extract.py 331-337).
THEOREM NoChangeCorrect == Spec => []NoChangeIsTrue
<1>1. IInv => NoChangeIsTrue
    BY DEF IInv, RowsTrue, RowTrue, SameImpact, NoChangeIsTrue
<1> QED
    BY <1>1, InductiveInvariant, PTL

-----------------------------------------------------------------------------
(* No change escapes the runs of a batch, as long as none of them is lost or*)
(* fails: what a run compares an item with is the impact of an item whose   *)
(* transform has been queued, or is about to be.                            *)

Covered(a) ==
    \/ \E j \in transformed : Impact[content[j]] = a
    \/ \E v \in Runs : At(v, "sending") /\ Current(v) = a

HashCovered(h) == h \in Impacts => Covered(h)

\* A run that has got a body goes on to judge it.
HasData(r) == r.pc \in {"marking", "judging"} /\ content[r.item] \in Contents => r.copy.data

Judged(i) ==
    status[i] = "SUCCESS" /\ content[i] \in Contents =>
        \/ Covered(Impact[content[i]])
        \/ \E w \in Runs : At(w, "judging") /\ run[w].item = i

Covering ==
    /\ \A i \in Items : HashCovered(row[i].hash) /\ Judged(i)
    /\ \A w \in Runs :
        HashCovered(run[w].copy.hash) /\ HashCovered(run[w].prevHash) /\ HasData(run[w])

Clean == losses = 0 /\ failures = 0

LEMMA CoverKept ==
    ASSUME RunsTrue, content' = content, NEW w \in Runs, NEW r, run' = [run EXCEPT ![w] = r],
           transformed \subseteq transformed', At(w, "sending") => run[w].item \in transformed',
           NEW a, Covered(a)
    PROVE  Covered(a)'
<1>1. \A v \in Runs : v # w => run'[v] = run[v]
    BY DEF RunsTrue
<1>2. CASE \E j \in transformed : Impact[content[j]] = a
    BY <1>2 DEF Covered
<1>3. ASSUME NEW v \in Runs, At(v, "sending"), Current(v) = a PROVE Covered(a)'
    <2>1. CASE v = w
        BY <1>3, <2>1 DEF Covered, Current
    <2>2. CASE v # w
        BY <1>1, <1>3, <2>2 DEF Covered, Current, At
    <2> QED
        BY <2>1, <2>2
<1> QED
    BY <1>2, <1>3 DEF Covered

\* A step of one run keeps Covering if what it writes and carries is covered.
LEMMA CoverStep ==
    ASSUME RunsTrue, Covering, content' = content, NEW w \in Runs, NEW r, run' = [run EXCEPT ![w] = r],
           transformed \subseteq transformed', At(w, "sending") => run[w].item \in transformed',
           HashCovered(r.copy.hash)', HashCovered(r.prevHash)', HasData(r),
           \A i \in Items : row'[i].hash = row[i].hash \/ HashCovered(row[i].hash)',
           \A i \in Items : status'[i] = "SUCCESS" /\ content[i] \in Contents =>
                \/ Covered(Impact[content[i]])'
                \/ r.pc = "judging" /\ r.item = i
                \/ status[i] = "SUCCESS" /\ ~(At(w, "judging") /\ run[w].item = i)
    PROVE  Covering'
<1>1. run'[w] = r /\ \A v \in Runs : v # w => run'[v] = run[v]
    BY DEF RunsTrue
<1>2. \A a : Covered(a) => Covered(a)'
    BY CoverKept
<1>3. \A h : HashCovered(h) => HashCovered(h)'
    BY <1>2 DEF HashCovered
<1>4. ASSUME NEW i \in Items PROVE HashCovered(row[i].hash)'
    <2>1. HashCovered(row[i].hash)
        BY DEF Covering
    <2>2. CASE row'[i].hash = row[i].hash
        BY <1>3, <2>1, <2>2 DEF HashCovered
    <2> QED
        BY <2>2
<1>5. ASSUME NEW i \in Items PROVE Judged(i)'
    <2> SUFFICES ASSUME status'[i] = "SUCCESS", content[i] \in Contents, ~Covered(Impact[content[i]])'
                 PROVE  \E v \in Runs : run'[v].pc = "judging" /\ run'[v].item = i
        BY DEF Judged, At
    <2>1. CASE r.pc = "judging" /\ r.item = i
        BY <1>1, <2>1
    <2>2. CASE status[i] = "SUCCESS" /\ ~(At(w, "judging") /\ run[w].item = i)
        <3>1. ~Covered(Impact[content[i]])
            BY <1>2
        <3>2. PICK v \in Runs : At(v, "judging") /\ run[v].item = i
            BY <2>2, <3>1 DEF Covering, Judged
        <3> QED
            BY <1>1, <2>2, <3>2 DEF At
    <2> QED
        BY <2>1, <2>2
<1>6. ASSUME NEW v \in Runs
      PROVE  (HashCovered(run[v].copy.hash) /\ HashCovered(run[v].prevHash) /\ HasData(run[v]))'
    <2>1. CASE v = w
        BY <1>1, <2>1 DEF HashCovered, HasData
    <2>2. CASE v # w
        <3>1. HashCovered(run[v].copy.hash) /\ HashCovered(run[v].prevHash) /\ HasData(run[v])
            BY DEF Covering
        <3> QED
            BY <1>1, <1>3, <2>2, <3>1 DEF HashCovered, HasData
    <2> QED
        BY <2>1, <2>2
<1> QED
    BY <1>4, <1>5, <1>6 DEF Covering

LEMMA NotImpacts == NoHash \notin Impacts /\ NewRow.hash \notin Impacts /\ \A c \in Contents : c \notin Impacts
BY BatchAssumption DEF NewRow

\* The cases of CoverStep: the run stays with its item, goes on, or starts.
LEMMA BecomeCovers ==
    ASSUME RunsTrue, Covering, NEW w \in Runs, UNCHANGED <<content, transformed>>, ~At(w, "sending"),
           NEW pc, NEW n, NEW copy, Become(w, pc, n, copy), HashCovered(copy.hash)',
           pc \in {"marking", "judging"} /\ content[run[w].item] \in Contents => copy.data,
           \A i \in Items : row'[i].hash = row[i].hash \/ HashCovered(row[i].hash)',
           \A i \in Items : status'[i] = "SUCCESS" /\ content[i] \in Contents =>
                \/ Covered(Impact[content[i]])'
                \/ pc = "judging" /\ run[w].item = i
                \/ status[i] = "SUCCESS" /\ ~(At(w, "judging") /\ run[w].item = i)
    PROVE  Covering'
<1>1. PICK r : r = Step(pc, run[w].item, n, copy, run[w].prevHash, run[w].prev) /\ run' = [run EXCEPT ![w] = r]
    BY DEF Become
<1>2. r.pc = pc /\ r.item = run[w].item /\ r.copy = copy /\ r.prevHash = run[w].prevHash
    BY <1>1 DEF Step
<1>3. \A a : Covered(a) => Covered(a)'
    BY <1>1, CoverKept
<1>4. run[w].prevHash \in Impacts => Covered(run[w].prevHash)
    BY DEF Covering, HashCovered
<1>5. HashCovered(r.copy.hash)' /\ HashCovered(r.prevHash)' /\ HasData(r)
    BY <1>2, <1>3, <1>4 DEF HashCovered, HasData
<1>6. \A i \in Items : status'[i] = "SUCCESS" /\ content[i] \in Contents =>
                \/ Covered(Impact[content[i]])'
                \/ r.pc = "judging" /\ r.item = i
                \/ status[i] = "SUCCESS" /\ ~(At(w, "judging") /\ run[w].item = i)
    BY <1>2
<1> QED
    BY <1>1, <1>5, <1>6, CoverStep

LEMMA AdvanceCovers ==
    ASSUME RunsTrue, Covering, NEW w \in Runs, content' = content, transformed \subseteq transformed',
           At(w, "sending") => run[w].item \in transformed',
           NEW h, NEW j, Advance(w, h, j), HashCovered(h)',
           \A i \in Items : row'[i].hash = row[i].hash \/ HashCovered(row[i].hash)',
           \A i \in Items : status'[i] = "SUCCESS" /\ content[i] \in Contents =>
                \/ Covered(Impact[content[i]])'
                \/ status[i] = "SUCCESS" /\ ~(At(w, "judging") /\ run[w].item = i)
    PROVE  Covering'
<1>1. PICK r :
        /\ r = IF run[w].item < N THEN Step("looking", run[w].item + 1, 0, NewRow, h, j)
                                  ELSE Step("done", N, 0, NewRow, h, j)
        /\ run' = [run EXCEPT ![w] = r]
    BY DEF Advance
<1>2. r.pc \notin {"marking", "judging"} /\ r.copy.hash \notin Impacts /\ r.prevHash = h
    BY <1>1, NotImpacts DEF Step
<1>3. HashCovered(r.copy.hash)' /\ HashCovered(r.prevHash)' /\ HasData(r)
    BY <1>2 DEF HashCovered, HasData
<1> QED
    BY <1>1, <1>3, CoverStep

LEMMA FreshCovers ==
    ASSUME RunsTrue, Covering, NEW w \in Runs, UNCHANGED <<content, row, status, transformed>>,
           ~At(w, "sending") /\ ~At(w, "judging"),
           NEW pc \in {"idle", "looking"}, run' = [run EXCEPT ![w] = Fresh(pc)]
    PROVE  Covering'
<1> DEFINE r == Fresh(pc)
<1>1. r.pc \notin {"marking", "judging"} /\ r.copy.hash \notin Impacts /\ r.prevHash \notin Impacts
    BY NotImpacts DEF Fresh, Step
<1> HIDE DEF r
<1>2. HashCovered(r.copy.hash)' /\ HashCovered(r.prevHash)' /\ HasData(r)
    BY <1>1 DEF HashCovered, HasData
<1>3. run' = [run EXCEPT ![w] = r]
    BY DEF r
<1> QED
    BY <1>2, <1>3, CoverStep

\* The full save of a copy whose hash is covered, by a run that is not judging.
LEMMA SaveCovers ==
    ASSUME IInv, NEW w \in Runs, NEW copy, FullSave(w, copy), HashCovered(copy.hash)'
    PROVE  /\ \A i \in Items : row'[i].hash = row[i].hash \/ HashCovered(row[i].hash)'
           /\ \A i \in Items : status'[i] = "SUCCESS" => status[i] = "SUCCESS"
<1>1. \A i \in Items : row'[i] = IF i = run[w].item THEN copy ELSE row[i]
    BY DEF FullSave, IInv, RowsTrue
<1>2. \A i \in Items : status'[i] = IF i = run[w].item THEN "IN_PROGRESS" ELSE status[i]
    BY DEF FullSave, IInv, RestTyped
<1> QED
    BY <1>1, <1>2 DEF HashCovered

LEMMA WorkKeepsCovered ==
    ASSUME IInv, NEW w \in Runs, Work(w)
    PROVE  \A a : Covered(a) => Covered(a)'
<1>1. \E r : run' = [run EXCEPT ![w] = r]
    BY DEF Work, Look, Load, MarkAsStarted, FetchBody, FetchNothing, CompareContent, SaveContent,
        FetchFailed, MarkSuccess, JudgeNothing, JudgeUnchanged, JudgeChanged, QueueTransform, Ack,
        Advance, Goto, Become, Fetched
<1>2. content' = content
    BY DEF Work, Look, Load, MarkAsStarted, FetchBody, FetchNothing, CompareContent, SaveContent,
        FetchFailed, MarkSuccess, JudgeNothing, JudgeUnchanged, JudgeChanged, QueueTransform, Ack
<1>3. transformed \subseteq transformed' /\ (At(w, "sending") => run[w].item \in transformed')
    BY DEF Work, Look, Load, MarkAsStarted, FetchBody, FetchNothing, CompareContent, SaveContent,
        FetchFailed, MarkSuccess, JudgeNothing, JudgeUnchanged, JudgeChanged, QueueTransform, Ack,
        At, Fetching
<1> QED
    BY <1>1, <1>2, <1>3, CoverKept DEF IInv

LEMMA CoverWork ==
    ASSUME IInv, Covering, FALSE \notin Found, NEW w \in Runs, Work(w)
    PROVE  Covering'
<1> DEFINE i == run[w].item
<1>1. RunsTrue /\ RowsTrue /\ status \in [Items -> Status] /\ i \in Items
      /\ (run[w].pc \in HasBody => content[i] \in Contents)
      /\ (run[w].copy.data => content[i] \in Contents)
    BY RunFields DEF IInv, RestTyped, RowTrue
<1>2. HashCovered(run[w].copy.hash) /\ HashCovered(run[w].prevHash) /\ HashCovered(row[i].hash)
      /\ HasData(run[w])
    BY <1>1 DEF Covering
<1>3. \A a : Covered(a) => Covered(a)'
    BY WorkKeepsCovered
<1>4. \A h : HashCovered(h) => HashCovered(h)'
    BY <1>3 DEF HashCovered
<1>5. CASE Look(w)
    <2>1. UNCHANGED <<content, row, status, transformed>> /\ ~At(w, "sending") /\ ~At(w, "judging")
        BY <1>5 DEF Look, At
    <2>2. CASE Advance(w, row[i].hash, i)
        BY <1>1, <1>2, <1>4, <2>1, <2>2, AdvanceCovers
    <2>3. CASE Goto(w, "loading")
        BY <1>1, <1>2, <1>4, <2>1, <2>3, BecomeCovers DEF Goto
    <2> QED
        BY <1>5, <2>2, <2>3 DEF Look
<1>6. CASE Load(w)
    <2>1. UNCHANGED <<content, row, status, transformed>> /\ ~At(w, "sending") /\ ~At(w, "judging")
        BY <1>6 DEF Load, At
    <2> QED
        BY <1>1, <1>2, <1>4, <1>6, <2>1, BecomeCovers DEF Load
<1>7. CASE MarkAsStarted(w)
    <2>1. UNCHANGED <<content, row, transformed>> /\ ~At(w, "sending") /\ ~At(w, "judging")
        BY <1>7 DEF MarkAsStarted, At
    <2>2. \A k \in Items : status'[k] = "SUCCESS" => status[k] = "SUCCESS"
        BY <1>1, <1>7 DEF MarkAsStarted
    <2> QED
        BY <1>1, <1>2, <1>4, <1>7, <2>1, <2>2, BecomeCovers DEF MarkAsStarted, Goto
<1>8. CASE FetchBody(w)
    <2>1. UNCHANGED <<content, transformed>> /\ ~At(w, "sending") /\ ~At(w, "judging")
        BY <1>8 DEF FetchBody, At
    <2>2. /\ \A k \in Items : row'[k].hash = row[k].hash \/ HashCovered(row[k].hash)'
          /\ \A k \in Items : status'[k] = "SUCCESS" => status[k] = "SUCCESS"
        BY <1>2, <1>4, <1>8, SaveCovers DEF FetchBody
    <2> QED
        BY <1>1, <1>2, <1>4, <1>8, <2>1, <2>2, BecomeCovers DEF FetchBody, Goto
<1>9. CASE FetchNothing(w)
    <2>1. UNCHANGED <<content, transformed>> /\ ~At(w, "sending") /\ ~At(w, "judging")
          /\ content[i] \notin Contents
        BY <1>9, BatchAssumption DEF FetchNothing, At
    <2>2. /\ \A k \in Items : row'[k].hash = row[k].hash \/ HashCovered(row[k].hash)'
          /\ \A k \in Items : status'[k] = "SUCCESS" => status[k] = "SUCCESS"
        <3>1. CASE FullSave(w, run[w].copy)
            BY <1>2, <1>4, <3>1, SaveCovers
        <3>2. CASE UNCHANGED <<status, row>>
            BY <3>2
        <3> QED
            BY <1>9, <3>1, <3>2 DEF FetchNothing
    <2>3. PICK copy : copy.hash \notin Impacts /\ Become(w, "marking", 0, copy)
        BY <1>9, NotImpacts DEF FetchNothing, Fetched, NewRow
    <2>4. HashCovered(copy.hash)'
        BY <2>3 DEF HashCovered
    <2> QED
        BY <1>1, <2>1, <2>2, <2>3, <2>4, BecomeCovers
<1>10. CASE CompareContent(w)
    <2>1. UNCHANGED <<content, row, status, transformed>> /\ ~At(w, "sending") /\ ~At(w, "judging")
          /\ content[i] \in Contents
        BY <1>1, <1>10 DEF CompareContent, At, HasBody
    <2>2. ASSUME NEW copy, copy.hash = content[i], Become(w, "saving", run[w].tries, copy)
          PROVE  Covering'
        <3>1. copy.hash \notin Impacts
            BY <2>1, <2>2, NotImpacts
        <3>2. HashCovered(copy.hash)'
            BY <3>1 DEF HashCovered
        <3> QED
            BY <1>1, <2>1, <2>2, <3>2, BecomeCovers
    <2>3. Stored(i, run[w].copy).hash = content[i] /\ \A j : Shared(i, j).hash = content[i]
        <3>1. run[w].copy \in Row
            BY <1>1, RunFields DEF RowTrue
        <3> QED
            BY <3>1 DEF Stored, Shared, Row
    <2> QED
        BY <1>10, <2>2, <2>3 DEF CompareContent
<1>11. ASSUME NEW kept \in Found, SaveContent(w, kept) PROVE Covering'
    <2>1. UNCHANGED <<content, transformed>> /\ ~At(w, "sending") /\ ~At(w, "judging") /\ kept
        BY <1>11, BatchAssumption DEF SaveContent, At
    <2>2. [run[w].copy EXCEPT !.data = kept].hash = run[w].copy.hash
        <3>1. run[w].copy \in Row
            BY <1>1, RunFields DEF RowTrue
        <3> QED
            BY <3>1 DEF Row
    <2>3. /\ \A k \in Items : row'[k].hash = row[k].hash \/ HashCovered(row[k].hash)'
          /\ \A k \in Items : status'[k] = "SUCCESS" => status[k] = "SUCCESS"
        BY <1>2, <1>4, <1>11, <2>2, SaveCovers DEF SaveContent
    <2> DEFINE copy == [NewRow EXCEPT !.data = kept]
    <2>4. copy.hash \notin Impacts /\ copy.data /\ Become(w, "marking", 0, copy)
        BY <1>11, <2>1, NotImpacts DEF SaveContent, Fetched, NewRow
    <2> HIDE DEF copy
    <2>5. HashCovered(copy.hash)'
        BY <2>4 DEF HashCovered
    <2> QED
        BY <1>1, <2>1, <2>3, <2>4, <2>5, BecomeCovers
<1>12. CASE FetchFailed(w)
    <2>1. UNCHANGED <<content, row, transformed>> /\ ~At(w, "sending") /\ ~At(w, "judging")
        BY <1>12 DEF FetchFailed, At, Fetching
    <2>2. \A k \in Items : status'[k] = "SUCCESS" => status[k] = "SUCCESS"
        BY <1>1, <1>12 DEF FetchFailed
    <2>3. CASE Become(w, "fetching", run[w].tries + 1, run[w].copy)
        BY <1>1, <1>2, <1>4, <2>1, <2>2, <2>3, BecomeCovers
    <2>4. CASE Advance(w, run[w].prevHash, run[w].prev)
        BY <1>1, <1>2, <1>4, <2>1, <2>2, <2>4, AdvanceCovers
    <2> QED
        BY <1>12, <2>3, <2>4 DEF FetchFailed
<1>13. CASE MarkSuccess(w)
    <2>1. UNCHANGED <<content, row, transformed>> /\ ~At(w, "sending") /\ ~At(w, "judging")
        BY <1>13 DEF MarkSuccess, At
    <2>2. \A k \in Items : status'[k] = "SUCCESS" => k = i \/ status[k] = "SUCCESS"
        BY <1>1, <1>13 DEF MarkSuccess
    <2>3. content[i] \in Contents => run[w].copy.data
        BY <1>2, <1>13 DEF HasData, MarkSuccess, At
    <2> QED
        BY <1>1, <1>2, <1>4, <1>13, <2>1, <2>2, <2>3, BecomeCovers DEF MarkSuccess, Goto
<1>14. CASE JudgeNothing(w)
    <2>1. UNCHANGED <<content, row, status, transformed>> /\ ~At(w, "sending") /\ content[i] \notin Contents
        BY <1>2, <1>14 DEF JudgeNothing, At, HasData
    <2>2. HashCovered(NoHash)'
        BY NotImpacts DEF HashCovered
    <2> QED
        BY <1>1, <1>14, <2>1, <2>2, AdvanceCovers DEF JudgeNothing
<1>15. CASE JudgeUnchanged(w)
    <2>1. UNCHANGED <<content, status, transformed>> /\ ~At(w, "sending")
          /\ Current(w) = Impact[content[i]] /\ content[i] \in Contents
          /\ run[w].prevHash = Current(w) /\ Advance(w, Current(w), i)
        BY <1>1, <1>15 DEF JudgeUnchanged, At, Current
    <2>2. Covered(Current(w))
        BY <1>2, <2>1, BatchAssumption DEF HashCovered
    <2>3. \A k \in Items : row'[k].hash = IF k = i THEN Current(w) ELSE row[k].hash
        <3>1. \A k \in Items : row[k] \in Row
            BY <1>1 DEF RowsTrue
        <3> QED
            BY <1>1, <1>15, <3>1 DEF JudgeUnchanged, RowsTrue, Row
    <2>4. /\ \A k \in Items : row'[k].hash = row[k].hash \/ HashCovered(row[k].hash)'
          /\ \A k \in Items : status'[k] = "SUCCESS" /\ content[k] \in Contents =>
                Covered(Impact[content[k]])' \/ (status[k] = "SUCCESS" /\ k # i)
        BY <1>3, <2>1, <2>2, <2>3 DEF HashCovered
    <2>5. HashCovered(Current(w)) => \A h : h = Current(w) => HashCovered(h)'
        BY <1>4
    <2> QED
        BY <1>1, <2>1, <2>2, <2>4, <2>5, AdvanceCovers DEF HashCovered
<1>16. CASE JudgeChanged(w)
    <2>1. UNCHANGED <<content, status, transformed>> /\ ~At(w, "sending")
          /\ Current(w) = Impact[content[i]] /\ Become(w, "sending", run[w].tries, run[w].copy)
        BY <1>16 DEF JudgeChanged, At, Current, Goto
    <2>2. run'[w].pc = "sending" /\ run'[w].item = i
        BY <1>1, <2>1 DEF Become, Step, RunsTrue
    <2>3. \A a : a = Impact[content[i]] => Covered(a)'
        BY <2>1, <2>2 DEF Covered, At, Current
    <2>4. \A k \in Items : row'[k].hash = IF k = i THEN Current(w) ELSE row[k].hash
        <3>1. \A k \in Items : row[k] \in Row
            BY <1>1 DEF RowsTrue
        <3> QED
            BY <1>1, <1>16, <3>1 DEF JudgeChanged, RowsTrue, Row
    <2>5. \A k \in Items : row'[k].hash = row[k].hash \/ HashCovered(row[k].hash)'
        BY <2>1, <2>3, <2>4 DEF HashCovered
    <2>6. \A k \in Items : status'[k] = "SUCCESS" /\ content[k] \in Contents =>
                Covered(Impact[content[k]])' \/ (status[k] = "SUCCESS" /\ k # i)
        BY <2>1, <2>3
    <2> QED
        BY <1>1, <1>2, <1>4, <2>1, <2>5, <2>6, BecomeCovers
<1>17. CASE QueueTransform(w)
    <2>1. UNCHANGED <<content, status, row>> /\ transformed' = transformed \cup {i} /\ ~At(w, "judging")
          /\ Current(w) = Impact[content[i]] /\ Advance(w, Current(w), i)
        BY <1>17 DEF QueueTransform, At, Current
    <2>2. \A a : a = Current(w) => HashCovered(a)'
        BY <2>1 DEF HashCovered, Covered
    <2> QED
        BY <1>1, <2>1, <2>2, AdvanceCovers
<1>18. CASE Ack(w)
    BY <1>1, <1>18, FreshCovers DEF Ack, At
<1> QED
    BY <1>5, <1>6, <1>7, <1>8, <1>9, <1>10, <1>11, <1>12, <1>13, <1>14, <1>15, <1>16, <1>17, <1>18
    DEF Work

-----------------------------------------------------------------------------

\* Nothing is lost when the batch is queued again or delivered twice: the new run
\* starts in an idle slot.
LEMMA CoverStart ==
    ASSUME IInv, Covering, NEW w \in Runs, NEW v \in Runs, QueueBatch(w) \/ ConnectionLost(v, w)
    PROVE  Covering'
<1>1. /\ UNCHANGED <<content, row, status, transformed>>
      /\ ~At(w, "sending") /\ ~At(w, "judging")
      /\ run' = [run EXCEPT ![w] = Fresh("looking")]
    BY DEF QueueBatch, ConnectionLost, At
<1> QED
    BY <1>1, FreshCovers DEF IInv

\* A clean state follows only clean states, and no loss or failure of a run.
LEMMA StayedClean ==
    ASSUME IInv, [Next]_vars, Clean'
    PROVE  Clean /\ \A w \in Runs : ~WorkerLost(w) /\ ~TaskFailure(w)
<1>1. losses \in Nat /\ failures \in Nat
    BY BatchAssumption DEF IInv, RestTyped
<1>2. losses' \in {losses, losses + 1} /\ failures' \in {failures, failures + 1}
    <2>1. ASSUME NEW w \in Runs, Work(w) PROVE UNCHANGED <<losses, failures>>
        BY <2>1 DEF bounds, Work, Look, Load, MarkAsStarted, FetchBody, FetchNothing,
            CompareContent, SaveContent, FetchFailed, MarkSuccess, JudgeNothing, JudgeUnchanged,
            JudgeChanged, QueueTransform, Ack
    <2> QED
        BY <2>1 DEF Next, vars, QueueBatch, WorkerLost, ConnectionLost, TaskFailure
<1> QED
    BY <1>1, <1>2 DEF Clean, WorkerLost, TaskFailure

LEMMA CleanInvariant ==
    ASSUME FALSE \notin Found
    PROVE  Spec => [](Clean => Covering)
<1>1. Init => Covering
    BY NotImpacts DEF Init, Covering, HashCovered, Judged, HasData, Fresh, Step
<1>2. IInv /\ (Clean => Covering) /\ [Next]_vars => (Clean => Covering)'
    <2> SUFFICES ASSUME IInv, Clean => Covering, [Next]_vars, Clean' PROVE Covering'
        OBVIOUS
    <2>1. Covering /\ \A w \in Runs : ~WorkerLost(w) /\ ~TaskFailure(w)
        BY StayedClean
    <2>2. CASE UNCHANGED vars
        BY <2>1, <2>2 DEF vars, Covering, Covered, HashCovered, Judged, HasData, At, Current
    <2>3. CASE \E w \in Runs : Work(w)
        BY <2>1, <2>3, CoverWork
    <2>4. CASE \E w, v \in Runs : QueueBatch(w) \/ ConnectionLost(v, w)
        BY <2>1, <2>4, CoverStart
    <2> QED
        BY <2>1, <2>2, <2>3, <2>4 DEF Next
<1> QED
    BY <1>1, <1>2, InductiveInvariant, PTL DEF Spec

\* Without lost workers and failed tasks, and with a storage that finds the files it
\* has just stored, no change escapes the overlapping runs of a batch (pdc/extract.py
\* 356-431): once they are over, every impact that was fetched has been sent.
THEOREM CleanRunsTransform ==
    ASSUME FALSE \notin Found
    PROVE  Spec => []CleanlyTransformed
<1>1. IInv /\ (Clean => Covering) => CleanlyTransformed
    <2> SUFFICES ASSUME IInv, Covering, \A w \in Runs : At(w, "idle"),
                        NEW i \in Items, status[i] = "SUCCESS", row[i].data
                 PROVE  \E j \in transformed : Impact[content[j]] = Impact[content[i]]
        BY DEF CleanlyTransformed, ChangedIsTransformed, Clean
    <2>1. content[i] \in Contents
        BY DEF IInv, RowsTrue, RowTrue
    <2>2. \A w \in Runs : ~At(w, "judging") /\ ~At(w, "sending")
        BY DEF At
    <2>3. Covered(Impact[content[i]])
        BY <2>1, <2>2 DEF Covering, Judged
    <2> QED
        BY <2>2, <2>3 DEF Covered
<1> QED
    BY <1>1, InductiveInvariant, CleanInvariant, PTL
=============================================================================
