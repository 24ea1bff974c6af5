---------------------------- MODULE StacPipeline ----------------------------
(***************************************************************************)
(* From an extracted file to the STAC server: transform tasks              *)
(* (transform/sources/handler.py) turn a file into items and write them, a *)
(* chunk at a time, as PyStacLoadData rows; the load_data command          *)
(* (load/sources/base.py), which the lock of LoadLock keeps to one run at a*)
(* time, sends the pending rows to the STAC API and writes their new       *)
(* statuses back, a chunk at a time (main/managers.py); the cleanup command*)
(* deletes loaded rows.                                                    *)
(*                                                                         *)
(* Every action is one database statement or one exchange with the API.    *)
(* Items of one key are versions of one STAC item; the row with the larger *)
(* primary key is the newer one.                                           *)
(***************************************************************************)
EXTENDS Naturals, Sequences, FiniteSets

CONSTANTS
    Transforms, \* Transform rows
    Rejected,   \* those whose success percentage is below TRANSFORM_SUCCESS_RATE
    Unrated,    \* those of DesInventar, which know no success percentage
    Produces,   \* transform -> the keys of the STAC items it yields
    Keys,       \* collection and item id
    Collections,\* the collections the server must have (ITEM_TYPE_COLLECTION_ID_MAP)
    CollectionOf,\* key -> its collection
    HeldAtFirst,\* the collections the server has from the start
    Jobs,       \* deliveries of the transform task
    Of,         \* delivery -> its transform
    CreateChunk,\* BulkCreateManager.chunk_size
    UpdateChunk,\* BulkUpdateManager.chunk_size
    Batch,      \* batch_size of iter_pending_py_stac
    Limit,      \* EOAPI_SYNC_LIMIT
    MaxRows,    \* bound: rows ever created
    MaxErrors,  \* bound: answers other than acceptance
    MaxLosses   \* bound: workers lost

ASSUME PipelineAssumption ==
    /\ Rejected \subseteq Transforms /\ Unrated \subseteq Transforms
    /\ Produces \in [Transforms -> Seq(Keys)]
    /\ CollectionOf \in [Keys -> Collections] /\ HeldAtFirst \subseteq Collections
    /\ Of \in [Jobs -> Transforms]
    /\ CreateChunk \in Nat \ {0} /\ UpdateChunk \in Nat \ {0} /\ Batch \in Nat \ {0}
    /\ Limit \in Nat \ {0}
    /\ MaxRows \in Nat /\ MaxErrors \in Nat /\ MaxLosses \in Nat

VARIABLES
    rows,    \* PyStacLoadData, by primary key: the key, the transform, the status
    tstatus, \* Transform.status
    job,     \* delivery -> where it stands and how many items it has written
    stac,    \* key -> the row whose item the server holds, 0 for none
    held,    \* the collections the server has
    loader,  \* the run of load_data
    errors,  \* rows the server has left pending or in doubt, and how many answers it took
    losses

vars == <<rows, tstatus, job, stac, held, loader, errors, losses>>

Ids == 1..MaxRows
Least(a, b) == IF a < b THEN a ELSE b

\* A deleted row is kept, with the name of what deleted it, so that ids stay apart.
RowStatus == {"PENDING", "SUCCESS", "FAILED", "REJECTED", "CLEANED"}
Exists(r) == rows[r].status \in {"PENDING", "SUCCESS", "FAILED"}
Pending(r) == rows[r].status = "PENDING"

JobPC == {"absent", "queued", "adding", "deciding", "deleting", "clearing", "ended", "asked"}
LoadPC == {"idle", "listing", "asking", "sending", "flushing"}

\* open: the collections this run may load into; batch: rows read and not yet sent;
\* sent: rows sent by this run; updates: the statuses that are not written back yet.
NoLoader == [pc |-> "idle", open |-> {}, batch |-> {}, sent |-> {}, updates |-> {}]

Init ==
    /\ rows = <<>>
    /\ tstatus = [t \in Transforms |-> "PENDING"]
    /\ job = [j \in Jobs |-> [pc |-> "absent", done |-> 0]]
    /\ stac = [k \in Keys |-> 0]
    /\ held = HeldAtFirst
    /\ loader = NoLoader
    /\ errors = [count |-> 0, rows |-> {}]
    /\ losses = 0

-----------------------------------------------------------------------------
(* Transform tasks.                                                         *)

At(j, pc) == job[j].pc = pc
GoOn(j, pc, n) == job' = [job EXCEPT ![j] = [pc |-> pc, done |-> n]]
SetStatus(j, s) == tstatus' = [tstatus EXCEPT ![Of[j]] = s]

\* The extraction queues the transform, once or, after a redelivery, again.
Queue(j) ==
    /\ At(j, "absent")
    /\ GoOn(j, "queued", 0)
    /\ UNCHANGED <<rows, tstatus, stac, held, loader, errors, losses>>

\* validate_retrigger_transform accepts failed transforms only; the slot of a
\* delivery that has ended is used for the new one.
AskRetrigger(j) ==
    /\ At(j, "ended")
    /\ tstatus[Of[j]] = "FAILED"
    /\ GoOn(j, "asked", 0)
    /\ UNCHANGED <<rows, tstatus, stac, held, loader, errors, losses>>

\* run_transform_retrigger makes it pending, whatever it has become since, and
\* queues its task.
Retrigger(j) ==
    /\ At(j, "asked")
    /\ SetStatus(j, "PENDING")
    /\ GoOn(j, "queued", 0)
    /\ UNCHANGED <<rows, stac, held, loader, errors, losses>>

\* The extraction has a file, and its Transform row is found or created, and marked
\* as started; deliveries that both find none make two rows, two Transforms here.
StartTransform(j) ==
    /\ At(j, "queued")
    /\ SetStatus(j, "IN_PROGRESS")
    /\ GoOn(j, "adding", 0)
    /\ UNCHANGED <<rows, stac, held, loader, errors, losses>>

NewRows(j, n) ==
    [i \in 1..n |-> [key |-> Produces[Of[j]][job[j].done + i], of |-> Of[j], status |-> "PENDING"]]

\* Mutant of CreateRows: only full chunks are written, done() is forgotten.
CreateFullChunks(j) ==
    LET left == Len(Produces[Of[j]]) - job[j].done
        n == IF left >= CreateChunk THEN CreateChunk ELSE 0
    IN
    /\ At(j, "adding")
    /\ Len(rows) + n <= MaxRows
    /\ rows' = rows \o NewRows(j, n)
    /\ GoOn(j, IF n = 0 THEN "deciding" ELSE "adding", job[j].done + n)
    /\ UNCHANGED <<tstatus, stac, held, loader, errors, losses>>

\* Mutant of CreateRows: whole chunks are counted, the last partial one too.
CreateRowsByChunk(j) ==
    LET left == Len(Produces[Of[j]]) - job[j].done
        n == Least(left, CreateChunk)
    IN
    /\ At(j, "adding")
    /\ Len(rows) + n <= MaxRows
    /\ rows' = rows \o NewRows(j, n)
    /\ GoOn(j, IF left < CreateChunk THEN "deciding" ELSE "adding", job[j].done + CreateChunk)
    /\ UNCHANGED <<tstatus, stac, held, loader, errors, losses>>

\* load_stac_item_to_queue: a full chunk is written, done() writes the last one.
CreateRows(j) ==
    LET left == Len(Produces[Of[j]]) - job[j].done
        n == Least(left, CreateChunk)
    IN
    /\ At(j, "adding")
    /\ Len(rows) + n <= MaxRows
    /\ rows' = rows \o NewRows(j, n)
    /\ GoOn(j, IF left < CreateChunk THEN "deciding" ELSE "adding", job[j].done + n)
    /\ UNCHANGED <<tstatus, stac, held, loader, errors, losses>>

\* The success percentage is computed after the rows have been written ...
Decide(j) ==
    /\ At(j, "deciding") /\ Of[j] \notin Unrated
    /\ \/ /\ Of[j] \notin Rejected
          /\ SetStatus(j, "SUCCESS")
          /\ GoOn(j, "clearing", 0)
       \/ /\ Of[j] \in Rejected
          /\ SetStatus(j, "FAILED")
          /\ GoOn(j, "deleting", 0)
    /\ UNCHANGED <<rows, stac, held, loader, errors, losses>>

\* DesInventar has a handle_transformation of its own: what was written is a success,
\* however many of its rows failed.
EndUnrated(j) ==
    /\ At(j, "deciding") /\ Of[j] \in Unrated
    /\ SetStatus(j, "SUCCESS")
    /\ GoOn(j, "clearing", 0)
    /\ UNCHANGED <<rows, stac, held, loader, errors, losses>>

\* ... and a rejected transform takes back all its rows, those of other deliveries
\* and those already loaded included.
DeleteRows(j) ==
    /\ At(j, "deleting")
    /\ rows' = [r \in DOMAIN rows |->
        IF rows[r].of = Of[j] /\ Exists(r) THEN [rows[r] EXCEPT !.status = "REJECTED"] ELSE rows[r]]
    /\ GoOn(j, "clearing", 0)
    /\ UNCHANGED <<tstatus, stac, held, loader, errors, losses>>

\* The temporary files are removed, and the message is acknowledged.
EndTransform(j) ==
    /\ At(j, "clearing")
    /\ GoOn(j, "ended", 0)
    /\ UNCHANGED <<rows, tstatus, stac, held, loader, errors, losses>>

Running == {"adding", "deciding", "deleting", "clearing"}

\* Any exception inside the try block, the soft time limit included: the rows that
\* were written stay, and a status of SUCCESS does not.
FailTransform(j) ==
    /\ job[j].pc \in Running
    /\ SetStatus(j, "FAILED")
    /\ GoOn(j, "ended", 0)
    /\ UNCHANGED <<rows, stac, held, loader, errors, losses>>

\* The worker is lost: the task is delivered again and starts over, unless it was
\* the hard time limit that killed it.
TransformLost(j) ==
    /\ job[j].pc \in Running
    /\ losses < MaxLosses
    /\ losses' = losses + 1
    /\ GoOn(j, "queued", 0) \/ GoOn(j, "ended", 0)
    /\ UNCHANGED <<rows, tstatus, stac, held, loader, errors>>

-----------------------------------------------------------------------------
(* load_data.                                                               *)

\* An answer of the server other than acceptance, and the rows it leaves pending.
CountError(S) ==
    /\ errors.count < MaxErrors
    /\ errors' = [count |-> errors.count + 1, rows |-> errors.rows \cup S]

StartLoad ==
    /\ loader.pc = "idle"
    /\ loader' = [NoLoader EXCEPT !.pc = "listing"]
    /\ UNCHANGED <<rows, tstatus, job, stac, held, errors, losses>>

\* load_collections: of the collections the server has, the request shows those of its
\* first 50; the others are asked for, and an answer of 200 says that one was made,
\* while one that is made may also answer otherwise (create) or raise, which ends the
\* run as an empty list does. Only the loader makes collections: it is one step.
OpenCollections ==
    /\ loader.pc = "listing"
    /\ \E listed \in SUBSET held, made \in SUBSET (Collections \ held) :
       \E said \in SUBSET made :
        LET open == listed \cup said IN
        /\ held' = held \cup made
        /\ loader' = IF open = {} THEN NoLoader
                     ELSE [loader EXCEPT !.pc = "asking", !.open = open]
        /\ IF open = Collections THEN UNCHANGED errors ELSE CountError({})
    /\ UNCHANGED <<rows, tstatus, job, stac, losses>>

\* The n oldest of a set of rows.
Oldest(S, n) == {r \in S : Cardinality({q \in S : q < r}) < n}

After(r) == \A q \in loader.sent : q < r

InOpen(r) == CollectionOf[rows[r].key] \in loader.open

\* Mutant of ReadBatch: rows of every collection are taken.
ReadBatchAnywhere ==
    LET found == {r \in DOMAIN rows : Pending(r) /\ After(r)}
        batch == Oldest(found, Least(Batch, Limit - Cardinality(loader.sent)))
    IN
    /\ loader.pc = "asking"
    /\ loader' = [loader EXCEPT !.batch = batch,
                                !.pc = IF batch = {} THEN "flushing" ELSE "sending"]
    /\ UNCHANGED <<rows, tstatus, job, stac, held, errors, losses>>

\* Mutant of ReadBatch: no keyset, every query starts from the oldest pending row.
ReadBatchAnew ==
    LET found == {r \in DOMAIN rows : Pending(r) /\ InOpen(r)}
        batch == Oldest(found, Least(Batch, Limit - Cardinality(loader.sent)))
    IN
    /\ loader.pc = "asking"
    /\ loader' = [loader EXCEPT !.batch = batch,
                                !.pc = IF batch = {} THEN "flushing" ELSE "sending"]
    /\ UNCHANGED <<rows, tstatus, job, stac, held, errors, losses>>

\* iter_pending_py_stac: the next batch of pending rows of the open collections, by
\* keyset, up to the limit.
ReadBatch ==
    LET found == {r \in DOMAIN rows : Pending(r) /\ InOpen(r) /\ After(r)}
        batch == Oldest(found, Least(Batch, Limit - Cardinality(loader.sent)))
    IN
    /\ loader.pc = "asking"
    /\ loader' = [loader EXCEPT !.batch = batch,
                                !.pc = IF batch = {} THEN "flushing" ELSE "sending"]
    /\ UNCHANGED <<rows, tstatus, job, stac, held, errors, losses>>

\* bulk_update of the statuses: rows that are gone are not brought back.
Written(updates) ==
    [r \in DOMAIN rows |->
        IF Exists(r) /\ \E s \in RowStatus : <<r, s>> \in updates
        THEN [rows[r] EXCEPT !.status = CHOOSE s \in RowStatus : <<r, s>> \in updates]
        ELSE rows[r]]

\* The loader's rows go out in the order of their ids.
Sends(r) == loader.pc = "sending" /\ r \in loader.batch /\ \A q \in loader.batch : r <= q

\* bulk_mgr.add: a full chunk of statuses is written at once.
Note(r, updates) ==
    LET full == Cardinality(updates) >= UpdateChunk IN
    /\ rows' = IF full THEN Written(updates) ELSE rows
    /\ loader' = [loader EXCEPT !.pc = IF loader.batch = {r} THEN "asking" ELSE "sending",
                                !.batch = @ \ {r},
                                !.sent = @ \cup {r},
                                !.updates = IF full THEN {} ELSE updates]

Publish(r) == stac' = [stac EXCEPT ![rows[r].key] = r]

\* Mutant of SendAccepted: the conflict counts as success, without a PUT.
SendWithoutPut(r) ==
    /\ Sends(r)
    /\ IF stac[rows[r].key] = 0 THEN Publish(r) ELSE UNCHANGED stac
    /\ Note(r, loader.updates \cup {<<r, "SUCCESS">>})
    /\ UNCHANGED <<tstatus, job, held, errors, losses>>

\* POST, or after a conflict PUT: the server holds the item.
SendAccepted(r) ==
    /\ Sends(r)
    /\ Publish(r)
    /\ Note(r, loader.updates \cup {<<r, "SUCCESS">>})
    /\ UNCHANGED <<tstatus, job, held, errors, losses>>

\* 4xx: the row has failed.
SendRefused(r) ==
    /\ Sends(r)
    /\ CountError({})
    /\ Note(r, loader.updates \cup {<<r, "FAILED">>})
    /\ UNCHANGED <<tstatus, job, stac, held, losses>>

\* 5xx, or any other code: the row stays pending, and the loader goes on.
SendDeferred(r) ==
    /\ Sends(r)
    /\ CountError({r})
    /\ Note(r, loader.updates)
    /\ UNCHANGED <<tstatus, job, stac, held, losses>>

\* Mutant of SendRaised: the status is noted before the request is made.
SendRaisedNoted(r) ==
    /\ Sends(r)
    /\ CountError({})
    /\ Publish(r) \/ UNCHANGED stac
    /\ loader' = [loader EXCEPT !.pc = "flushing", !.batch = {},
                                !.updates = @ \cup {<<r, "SUCCESS">>}]
    /\ UNCHANGED <<rows, tstatus, job, held, losses>>

\* An exception, before or after the server has taken the item: the loop ends.
SendRaised(r) ==
    /\ Sends(r)
    /\ CountError({})
    /\ Publish(r) \/ UNCHANGED stac
    /\ loader' = [loader EXCEPT !.pc = "flushing", !.batch = {}]
    /\ UNCHANGED <<rows, tstatus, job, held, losses>>

\* Mutant of Flush: the statuses of the last partial chunk are not written.
FlushNothing ==
    /\ loader.pc = "flushing"
    /\ loader' = NoLoader
    /\ UNCHANGED <<rows, tstatus, job, stac, held, errors, losses>>

\* bulk_mgr.done().
Flush ==
    /\ loader.pc = "flushing"
    /\ rows' = Written(loader.updates)
    /\ loader' = NoLoader
    /\ UNCHANGED <<tstatus, job, stac, held, errors, losses>>

\* The worker is lost, and with it the statuses not yet written.
LoaderLost ==
    /\ loader.pc # "idle"
    /\ losses < MaxLosses
    /\ losses' = losses + 1
    /\ loader' = NoLoader
    /\ UNCHANGED <<rows, tstatus, job, stac, held, errors>>

\* cleanup_pystac_load_data_success_rows: loaded rows whose event is old enough.
Cleanup(r) ==
    /\ rows[r].status = "SUCCESS"
    /\ rows' = [rows EXCEPT ![r].status = "CLEANED"]
    /\ UNCHANGED <<tstatus, job, stac, held, loader, errors, losses>>

-----------------------------------------------------------------------------

TransformWork(j) ==
    \/ Retrigger(j)
    \/ StartTransform(j)
    \/ CreateRows(j)
    \/ Decide(j)
    \/ EndUnrated(j)
    \/ DeleteRows(j)
    \/ EndTransform(j)
LoadWork ==
    \/ StartLoad \/ OpenCollections \/ ReadBatch
    \/ \E r \in loader.batch :
        SendAccepted(r) \/ SendRefused(r) \/ SendDeferred(r) \/ SendRaised(r)
    \/ Flush

Next ==
    \/ \E j \in Jobs :
        TransformWork(j) \/ Queue(j) \/ AskRetrigger(j) \/ FailTransform(j) \/ TransformLost(j)
    \/ LoadWork
    \/ LoaderLost
    \/ \E r \in DOMAIN rows : Cleanup(r)

Spec == Init /\ [][Next]_vars

\* Transform workers consume their queue, and Celery beat starts load_data again
\* and again; a load that runs comes to its end.
FairSpec == Spec /\ WF_vars(LoadWork) /\ \A j \in Jobs : WF_vars(TransformWork(j))

-----------------------------------------------------------------------------

TypeOK ==
    /\ rows \in Seq([key : Keys, of : Transforms, status : RowStatus])
    /\ Len(rows) <= MaxRows
    /\ tstatus \in [Transforms -> {"PENDING", "IN_PROGRESS", "SUCCESS", "FAILED"}]
    /\ DOMAIN job = Jobs
    /\ \A j \in Jobs : job[j] \in [pc : JobPC, done : 0..Len(Produces[Of[j]])]
    /\ stac \in [Keys -> 0..Len(rows)]
    /\ HeldAtFirst \subseteq held /\ held \subseteq Collections
    /\ loader.pc \in LoadPC /\ loader.open \subseteq Collections
    /\ loader.batch \subseteq DOMAIN rows /\ loader.sent \subseteq DOMAIN rows
    /\ loader.updates \subseteq (DOMAIN rows) \X {"SUCCESS", "FAILED"}
    /\ errors.count \in 0..MaxErrors /\ errors.rows \subseteq DOMAIN rows
    /\ losses \in 0..MaxLosses

\* One run of load_data sends a row once, older rows before newer ones, and no more
\* rows than its limit, whatever it has not written back yet: "Yield up to `limit`
\* rows (oldest first)" (load/sources/base.py 122-137).
OldestFirstOnce ==
    loader.pc = "sending" =>
        /\ Cardinality(loader.sent) < Limit
        /\ \A r \in loader.sent : \A q \in loader.batch : r < q

\* A refusal is final, so a row is sent only to a collection that the server has, also
\* when the server lists or makes some of them only: its row waits for a later run
\* (load/sources/base.py 40-72, 159-163).
OnlyToHeldCollections ==
    loader.pc = "sending" =>
        \A r \in loader.batch : CollectionOf[rows[r].key] \in held

\* The server holds a version of each item at least as new as every version recorded
\* as loaded, even though a lost load sends items again, except for items with a version
\* that the server deferred (140-181).
NewestStands ==
    \A r \in DOMAIN rows :
        LET k == rows[r].key IN
        (rows[r].status \in {"SUCCESS", "CLEANED"} /\ \A q \in errors.rows : rows[q].key # k) =>
            stac[k] >= r

\* A successful transform has left a row for each of its items, whatever was lost,
\* retriggered or delivered twice (transform/sources/handler.py 86-184).
NothingDropped ==
    \A t \in Transforms : tstatus[t] = "SUCCESS" =>
        \A i \in DOMAIN Produces[t] : \E r \in DOMAIN rows :
            rows[r].of = t /\ rows[r].key = Produces[t][i] /\ rows[r].status # "REJECTED"

\* What a successful transform has yielded reaches the server, or is refused by it.
ItemsReachServer ==
    \A t \in Transforms : \A i \in DOMAIN Produces[t] :
        tstatus[t] = "SUCCESS" ~>
            \/ stac[Produces[t][i]] > 0
            \/ \E r \in DOMAIN rows : rows[r].of = t /\ rows[r].status = "FAILED"

\* A pending row does not stay pending.
EveryRowIsLoaded == \A r \in Ids : []<>(r \notin DOMAIN rows \/ ~Pending(r))
=============================================================================
