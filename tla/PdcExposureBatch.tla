-------------------------- MODULE PdcExposureBatch --------------------------
(***************************************************************************)
(* PDCExposureBatchTask (pdc/extract.py): a Celery task goes through the   *)
(* EXPOSURE_DETAIL rows of a hazard one after the other, fetches each, and *)
(* compares the hash of its impact with the previous one, so that only a   *)
(* change is transformed.                                                  *)
(*                                                                         *)
(* A run is one delivery of the task.  Runs of the same batch overlap when *)
(* handle_exposure_list is run again (a retrigger, the pending sweep) or   *)
(* the broker delivers the message twice.  Each pc is a gap between two    *)
(* database queries or effects of the run, which are committed one by one. *)
(* The URL of an item names one published version of the exposure data, so *)
(* what the service holds for an item, if anything, does not change.       *)
(***************************************************************************)
EXTENDS Naturals, FiniteSets

CONSTANTS
    N,           \* number of rows in the batch, BATCH_SIZE at most
    Runs,        \* slots for deliveries of the batch task
    Contents,    \* response bodies: an impact and a timestamp
    Impacts,     \* response bodies without the timestamp
    Impact,      \* body -> impact: what compute_exposure_detail_hash hashes
    NoBody,      \* what the service holds when it answers without a body
    NoHash,      \* the null file_hash, and the prev_hash of a new run
    Found,       \* whether the storage finds a file that was just saved
    MaxRetries,  \* BATCH_ITEM_MAX_RETRIES
    MaxStarts,   \* bound: times handle_exposure_list queues the batch
    MaxLosses,   \* bound: workers or broker connections lost
    MaxFailures  \* bound: runs that Celery acknowledges as failed

\* SHA-256 does not collide: a body and an impact stand for their hashes.
ASSUME BatchAssumption ==
    /\ N \in Nat \ {0}
    /\ Contents \cap Impacts = {}
    /\ NoHash \notin Contents \cup Impacts
    /\ NoBody \notin Contents
    /\ Found \subseteq BOOLEAN
    /\ Impact \in [Contents -> Impacts]
    /\ MaxRetries \in Nat /\ MaxStarts \in Nat
    /\ MaxLosses \in Nat /\ MaxFailures \in Nat

Items == 1..N
NoItem == 0
Hashes == Contents \cup Impacts \cup {NoHash}

VARIABLES
    content,     \* what the service holds for each item
    status,      \* ExtractionData.status
    row,         \* ExtractionData.file_hash, NO_CHANGE, revision_id, resp_data
    transformed, \* items for which PDCTransformHandler.task was queued
    run,         \* slot -> the delivery in it
    starts, losses, twins, failures \* how often each of these has happened

vars == <<content, status, row, transformed, run, starts, losses, twins, failures>>
bounds == <<starts, losses, twins, failures>>

Status == {"PENDING", "IN_PROGRESS", "SUCCESS", "FAILED"}

\* The fields that decide whether a row is transformed.  The file of a row holds
\* what the service holds for it, or for a row with the same body.
Row == [hash : Hashes, nochange : BOOLEAN, revision : Items \cup {NoItem}, data : BOOLEAN]
NewRow == [hash |-> NoHash, nochange |-> FALSE, revision |-> NoItem, data |-> FALSE]

\* The places inside the try block around handle_exposure_detail.
Fetching == {"fetching", "comparing", "saving"}
Working == Fetching \cup {"looking", "loading", "starting", "marking", "judging", "sending"}
PC == Working \cup {"idle", "done"}

Run ==
    [pc : PC, item : Items, tries : 0..MaxRetries, copy : Row,
     prevHash : Hashes, prev : Items \cup {NoItem}]

At(w, pc) == run[w].pc = pc

\* A run at item i, its instance of the row, and what it compares the item with.
Step(pc, i, n, copy, h, j) ==
    [pc |-> pc, item |-> i, tries |-> n, copy |-> copy, prevHash |-> h, prev |-> j]

Fresh(pc) == Step(pc, 1, 0, NewRow, NoHash, NoItem)

\* The run w stays with its item.
Become(w, pc, n, copy) ==
    run' = [run EXCEPT ![w] = Step(pc, run[w].item, n, copy, run[w].prevHash, run[w].prev)]

Goto(w, pc) == Become(w, pc, run[w].tries, run[w].copy)

\* The attempt is over; all that is left of the instance is whether it has a file.
Fetched(w, data) == Become(w, "marking", 0, [NewRow EXCEPT !.data = data])

\* Mutant of Advance: the last item is not recognised.
AdvancePast(w, h, j) ==
    run' = [run EXCEPT ![w] =
        IF run[w].item <= N THEN Step("looking", run[w].item + 1, 0, NewRow, h, j)
                            ELSE Step("done", N, 0, NewRow, h, j)]

\* The run goes on to its next item, or ends, with what it compares that one to.
Advance(w, h, j) ==
    run' = [run EXCEPT ![w] =
        IF run[w].item < N THEN Step("looking", run[w].item + 1, 0, NewRow, h, j)
                           ELSE Step("done", N, 0, NewRow, h, j)]

Init ==
    /\ content \in [Items -> Contents \cup {NoBody}]
    /\ status = [i \in Items |-> "PENDING"]
    /\ row = [i \in Items |-> NewRow]
    /\ transformed = {}
    /\ run = [w \in Runs |-> Fresh("idle")]
    /\ starts = 0 /\ losses = 0 /\ twins = 0 /\ failures = 0

-----------------------------------------------------------------------------

\* handle_exposure_list finds or creates the rows, and queues the whole batch
\* again unless all of them have succeeded.
QueueBatch(w) ==
    /\ At(w, "idle")
    /\ \E i \in Items : status[i] # "SUCCESS"
    /\ starts < MaxStarts
    /\ starts' = starts + 1
    /\ run' = [run EXCEPT ![w] = Fresh("looking")]
    /\ UNCHANGED <<content, status, row, transformed, losses, twins, failures>>

\* An item that a previous run has finished is only compared with.
Look(w) ==
    LET i == run[w].item IN
    /\ At(w, "looking")
    /\ \/ status[i] = "SUCCESS" /\ Advance(w, row[i].hash, i)
       \/ status[i] # "SUCCESS" /\ Goto(w, "loading")
    /\ UNCHANGED <<content, status, row, transformed, bounds>>

\* PDCExtractionV2.__init__ reads the row again; every full save writes this copy.
Load(w) ==
    /\ At(w, "loading")
    /\ Become(w, "starting", 0, row[run[w].item])
    /\ UNCHANGED <<content, status, row, transformed, bounds>>

MarkAsStarted(w) ==
    /\ At(w, "starting")
    /\ status' = [status EXCEPT ![run[w].item] = "IN_PROGRESS"]
    /\ Goto(w, "fetching")
    /\ UNCHANGED <<content, row, transformed, bounds>>

\* A full save() of the run's instance, whose status is IN_PROGRESS.
FullSave(w, copy) ==
    /\ status' = [status EXCEPT ![run[w].item] = "IN_PROGRESS"]
    /\ row' = [row EXCEPT ![run[w].item] = copy]

\* A successful answer with a body: _extraction_store_data saves its type first.
FetchBody(w) ==
    /\ At(w, "fetching")
    /\ content[run[w].item] \in Contents
    /\ FullSave(w, run[w].copy)
    /\ Goto(w, "comparing")
    /\ UNCHANGED <<content, transformed, bounds>>

\* A successful answer without a body, saved (200, 204) or not (any other code).
FetchNothing(w) ==
    /\ At(w, "fetching")
    /\ content[run[w].item] = NoBody
    /\ FullSave(w, run[w].copy) \/ UNCHANGED <<status, row>>
    /\ Fetched(w, run[w].copy.data)
    /\ UNCHANGED <<content, transformed, bounds>>

\* The other rows of the source that have this file_hash, and the last created one.
Duplicates(i) == {j \in Items \ {i} : row[j].hash = content[i]}
IsFirst(j, S) == j \in S /\ \A k \in S : k <= j

\* The instance takes the file of a row with the same body, or gets its own.
Shared(i, j) == [hash |-> content[i], nochange |-> TRUE, revision |-> j, data |-> row[j].data]
Stored(i, copy) == [copy EXCEPT !.hash = content[i], !.data = TRUE]

\* manage_duplicate_file_content looks for a row with the same body ...
CompareContent(w) ==
    LET i == run[w].item IN
    /\ At(w, "comparing")
    /\ \/ /\ Duplicates(i) = {}
          /\ Become(w, "saving", run[w].tries, Stored(i, run[w].copy))
       \/ \E j \in Items :
          /\ IsFirst(j, Duplicates(i))
          /\ Become(w, "saving", run[w].tries, Shared(i, j))
    /\ UNCHANGED <<content, status, row, transformed, bounds>>

\* ... and saves the row, unless its file is not found in the storage; storage
\* lookups by a null name raise, so that a row without a file never gets here.
SaveContent(w, kept) ==
    /\ At(w, "saving")
    /\ run[w].copy.data
    /\ FullSave(w, [run[w].copy EXCEPT !.data = kept])
    /\ Fetched(w, kept)
    /\ UNCHANGED <<content, transformed, bounds>>

\* Any exception of an attempt: the run sleeps and tries again with the same
\* instance, or gives the item up and keeps what the next one is compared to.
FetchFailed(w) ==
    /\ run[w].pc \in Fetching
    /\ \/ /\ run[w].tries < MaxRetries
          /\ Become(w, "fetching", run[w].tries + 1, run[w].copy)
          /\ UNCHANGED status
       \/ /\ run[w].tries = MaxRetries
          /\ status' = [status EXCEPT ![run[w].item] = "FAILED"]
          /\ Advance(w, run[w].prevHash, run[w].prev)
    /\ UNCHANGED <<content, row, transformed, bounds>>

\* The item is marked before it is decided whether it has changed.
MarkSuccess(w) ==
    /\ At(w, "marking")
    /\ status' = [status EXCEPT ![run[w].item] = "SUCCESS"]
    /\ Goto(w, "judging")
    /\ UNCHANGED <<content, row, transformed, bounds>>

\* Nothing to compare: the chain starts anew with the next item.
JudgeNothing(w) ==
    /\ At(w, "judging")
    /\ ~run[w].copy.data
    /\ Advance(w, NoHash, NoItem)
    /\ UNCHANGED <<content, status, row, transformed, bounds>>

Current(w) == Impact[content[run[w].item]]

\* Mutant of JudgeUnchanged: that there is an item to compare with is enough.
JudgeUnchangedIfAny(w) ==
    LET i == run[w].item IN
    /\ At(w, "judging")
    /\ run[w].copy.data
    /\ run[w].prevHash # NoHash
    /\ row' = [row EXCEPT ![i].hash = Current(w), ![i].nochange = TRUE,
                          ![i].revision = run[w].prev]
    /\ Advance(w, Current(w), i)
    /\ UNCHANGED <<content, status, transformed, bounds>>

\* Same impact as the item compared with: saved as its revision, not transformed.
JudgeUnchanged(w) ==
    LET i == run[w].item IN
    /\ At(w, "judging")
    /\ run[w].copy.data
    /\ run[w].prevHash = Current(w)
    /\ row' = [row EXCEPT ![i].hash = Current(w), ![i].nochange = TRUE,
                          ![i].revision = run[w].prev]
    /\ Advance(w, Current(w), i)
    /\ UNCHANGED <<content, status, transformed, bounds>>

\* Another impact: its hash is saved first ...
JudgeChanged(w) ==
    /\ At(w, "judging")
    /\ run[w].copy.data
    /\ run[w].prevHash # Current(w)
    /\ row' = [row EXCEPT ![run[w].item].hash = Current(w)]
    /\ Goto(w, "sending")
    /\ UNCHANGED <<content, status, transformed, bounds>>

\* ... then the transform is queued.
QueueTransform(w) ==
    LET i == run[w].item IN
    /\ At(w, "sending")
    /\ transformed' = transformed \cup {i}
    /\ Advance(w, Current(w), i)
    /\ UNCHANGED <<content, status, row, bounds>>

Ack(w) ==
    /\ At(w, "done")
    /\ run' = [run EXCEPT ![w] = Fresh("idle")]
    /\ UNCHANGED <<content, status, row, transformed, bounds>>

-----------------------------------------------------------------------------

\* Mutant of WorkerLost: the message is acknowledged when it is received.
WorkerLostAcked(w) ==
    /\ run[w].pc \in Working \cup {"done"}
    /\ losses + twins < MaxLosses
    /\ losses' = losses + 1
    /\ run' = [run EXCEPT ![w] = Fresh("idle")]
    /\ UNCHANGED <<content, status, row, transformed, starts, twins, failures>>

\* The worker is lost: under late acknowledgement the task starts over.
WorkerLost(w) ==
    /\ run[w].pc \in Working \cup {"done"}
    /\ losses + twins < MaxLosses
    /\ losses' = losses + 1
    /\ run' = [run EXCEPT ![w] = Fresh("looking")]
    /\ UNCHANGED <<content, status, row, transformed, starts, twins, failures>>

\* The broker loses the connection and delivers to another worker as well.
ConnectionLost(w, v) ==
    /\ run[w].pc \in Working \cup {"done"}
    /\ At(v, "idle")
    /\ losses + twins < MaxLosses
    /\ twins' = twins + 1
    /\ run' = [run EXCEPT ![v] = Fresh("looking")]
    /\ UNCHANGED <<content, status, row, transformed, starts, losses, failures>>

\* An exception outside the try block, or the hard time limit: acknowledged.
TaskFailure(w) ==
    /\ run[w].pc \in Working
    /\ failures < MaxFailures
    /\ failures' = failures + 1
    /\ run' = [run EXCEPT ![w] = Fresh("idle")]
    /\ UNCHANGED <<content, status, row, transformed, starts, losses, twins>>

Work(w) ==
    \/ Look(w)
    \/ Load(w)
    \/ MarkAsStarted(w)
    \/ FetchBody(w)
    \/ FetchNothing(w)
    \/ CompareContent(w)
    \/ \E kept \in Found : SaveContent(w, kept)
    \/ FetchFailed(w)
    \/ MarkSuccess(w)
    \/ JudgeNothing(w)
    \/ JudgeUnchanged(w)
    \/ JudgeChanged(w)
    \/ QueueTransform(w)
    \/ Ack(w)

Next ==
    \/ \E w \in Runs : Work(w) \/ QueueBatch(w) \/ WorkerLost(w) \/ TaskFailure(w)
    \/ \E w, v \in Runs : ConnectionLost(w, v)

Spec == Init /\ [][Next]_vars

\* Workers consume their queue; nobody has to queue the batch again.
FairSpec == Spec /\ \A w \in Runs : WF_vars(Work(w))

-----------------------------------------------------------------------------

TypeOK ==
    /\ content \in [Items -> Contents \cup {NoBody}]
    /\ status \in [Items -> Status]
    /\ row \in [Items -> Row]
    /\ transformed \subseteq Items
    /\ run \in [Runs -> Run]
    /\ starts \in 0..MaxStarts /\ failures \in 0..MaxFailures
    /\ losses \in 0..MaxLosses /\ twins \in 0..MaxLosses

\* A row that says NO_CHANGE names a row of the same impact, through restarts,
\* redeliveries, failed items and overlapping runs (pdc/extract.py 331-337).
NoChangeIsTrue ==
    \A i \in Items : row[i].nochange =>
        /\ row[i].revision \in Items
        /\ Impact[content[row[i].revision]] = Impact[content[i]]

\* Once no run is left, the impact of every item that was fetched is one for which
\* a transform was queued: "when the hash is unchanged ... the Transform step is
\* skipped; otherwise Transform is queued as normal" (pdc/extract.py 332-334).
ChangedIsTransformed ==
    (\A w \in Runs : At(w, "idle")) =>
        \A i \in Items : (status[i] = "SUCCESS" /\ row[i].data) =>
            \E j \in transformed : Impact[content[j]] = Impact[content[i]]

\* The same, in the absence of lost workers and failed tasks: however two runs of a
\* batch interleave, no change escapes both of them (pdc/extract.py 356-431).
CleanlyTransformed == losses = 0 /\ failures = 0 => ChangedIsTransformed

\* A batch that was queued ends with every row settled for good, whatever the
\* service answers and however often a worker is lost, unless a task fails.
BatchSettles ==
    <>[](\/ starts = 0 \/ failures > 0
         \/ \A i \in Items : status[i] \in {"SUCCESS", "FAILED"})
=============================================================================
