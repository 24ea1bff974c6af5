--------------------------- MODULE ExtractionTask ---------------------------
(***************************************************************************)
(* The life of an ExtractionData row of a single-request source (GLIDE,    *)
(* IDU, GIDD, NOAA, DesInventar, EM-DAT, ...): the row is created, a Celery*)
(* message naming it is published, a worker runs                           *)
(* BaseExtractionV2.handle, and retries, redeliveries, the pending sweep   *)
(* and the operator's retrigger may all act on the row at the same time.   *)
(*                                                                         *)
(* A message slot is one delivery of a Celery task.  Its pc says where the *)
(* worker that holds it stands; every pc is the gap between two effects    *)
(* (database saves, broker publishes) that are committed one by one, since *)
(* handle() runs in autocommit mode.                                       *)
(***************************************************************************)
EXTENDS Naturals, FiniteSets

CONSTANTS
    Rows,                       \* ExtractionData primary keys
    Msgs,                       \* slots for deliveries that are alive at once
    NoRow,                      \* the row of an empty slot
    Unchecked,                  \* rows of a source that ignores the fetch result
    Answers,                    \* what the remote service may answer
    MAX_RETRY_LIMIT,            \* handler.py: retries of a failed request
    MAX_RATE_LIMIT_RETRY_LIMIT, \* handler.py: retries of a rate-limited request
    CeleryMaxRetries,           \* Task.max_retries, which no task sets
    MaxAttempt,                 \* bound: attempt_no saturates here
    MaxCalls,                   \* bound: callers at work at once
    MaxLive,                    \* bound: live deliveries an outside publish leaves room for
    MaxFaults                   \* bound: crashes and lost connections

AllAnswers == {"data", "empty", "other", "nodata", "ratelimit", "request"}

ASSUME ExtractionAssumption ==
    /\ NoRow \notin Rows
    /\ Unchecked \subseteq Rows
    /\ Answers \subseteq AllAnswers
    /\ MAX_RETRY_LIMIT \in Nat /\ MAX_RATE_LIMIT_RETRY_LIMIT \in Nat
    /\ CeleryMaxRetries \in Nat /\ MaxAttempt \in Nat
    /\ MaxCalls \in Nat /\ MaxLive \in Nat /\ MaxFaults \in Nat

VARIABLES
    status,      \* ExtractionData.status, "ABSENT" before the row exists
    attempt,     \* ExtractionData.attempt_no
    stored,      \* whether ExtractionData.resp_data names a file
    transformed, \* whether a transform was queued since that file was stored
    msg,         \* slot -> the delivery in it
    calls,       \* callers between reading a row and publishing for it
    abandoned,   \* history: rows of deliveries acknowledged without an outcome
    faults       \* crashes and lost connections so far

rowVars == <<status, attempt, stored, transformed>>
vars == <<status, attempt, stored, transformed, msg, calls, abandoned, faults>>

Status == {"ABSENT", "PENDING", "IN_PROGRESS", "SUCCESS", "FAILED", "ON_RETRY"}

\* The places inside the try block of handle(), where an exception is caught.
Guarded == {"fetching", "saving", "storing", "dispatching", "finishing"}

\* The places where the delivery still owes the row an outcome.
Owing == Guarded \cup {"loaded", "failing", "counting", "retrying"}
Running == Owing \cup {"done"}
PC == Running \cup {"idle", "queued"}

CallStep == {"created", "swept", "asked", "checked", "reset"}
Publishable == {"created", "swept", "reset"}

NoCopy == [attempt |-> 0, stored |-> FALSE]

Delivery ==
    [pc : PC, row : Rows \cup {NoRow}, retries : 0..CeleryMaxRetries,
     ans : AllAnswers \cup {"none", "fatal"},
     copy : [attempt : 0..MaxAttempt, stored : BOOLEAN]]

\* A delivery of row r, the answer it got and its copy of the row.
Holding(r, n, pc, a, c) ==
    [pc |-> pc, row |-> r, retries |-> n, ans |-> a, copy |-> c]

Idle == Holding(NoRow, 0, "idle", "none", NoCopy)
Queued(r, n) == Holding(r, n, "queued", "none", NoCopy)

Live == {m \in Msgs : msg[m].pc # "idle"}
At(m, pc) == msg[m].pc = pc

\* The delivery m at its next place; what it does not need there is forgotten.
Keep(m, pc, a, c) == Holding(msg[m].row, msg[m].retries, pc, a, c)
Goto(m, pc) == [msg EXCEPT ![m] = Keep(m, pc, "none", NoCopy)]
GotoWith(m, pc, a, c) == [msg EXCEPT ![m] = Keep(m, pc, a, c)]

Init ==
    /\ status = [r \in Rows |-> "ABSENT"]
    /\ attempt = [r \in Rows |-> 0]
    /\ stored = [r \in Rows |-> FALSE]
    /\ transformed = [r \in Rows |-> FALSE]
    /\ msg = [m \in Msgs |-> Idle]
    /\ calls = {}
    /\ abandoned = {}
    /\ faults = 0

-----------------------------------------------------------------------------
(* Callers: whoever creates a row, or publishes a message for an old one.   *)

\* init_extraction: the row is committed before its message is published.
InitExtraction(r) ==
    /\ status[r] = "ABSENT"
    /\ status' = [status EXCEPT ![r] = "PENDING"]
    /\ calls' = calls \cup {<<"created", r>>}
    /\ UNCHANGED <<attempt, stored, transformed, msg, abandoned, faults>>

\* Mutant of TriggerPendingExtraction: the sweep selects failed rows instead.
SweepFailed(r) ==
    /\ status[r] = "FAILED"
    /\ Cardinality(calls) < MaxCalls
    /\ calls' = calls \cup {<<"swept", r>>}
    /\ UNCHANGED <<rowVars, msg, abandoned, faults>>

\* trigger_pending_extraction selects the row; its age of two weeks is left out,
\* any pending row may have waited that long.
TriggerPendingExtraction(r) ==
    /\ status[r] = "PENDING"
    /\ Cardinality(calls) < MaxCalls
    /\ calls' = calls \cup {<<"swept", r>>}
    /\ UNCHANGED <<rowVars, msg, abandoned, faults>>

\* validate_retrigger_pipeline accepts failed rows only.
RetriggerPipeline(r) ==
    /\ status[r] = "FAILED"
    /\ Cardinality(calls) < MaxCalls
    /\ calls' = calls \cup {<<"asked", r>>}
    /\ UNCHANGED <<rowVars, msg, abandoned, faults>>

\* run_pipeline_retrigger loads all its rows when the loop starts ...
RetriggerRead(r) ==
    /\ <<"asked", r>> \in calls
    /\ calls' = (calls \ {<<"asked", r>>})
                  \cup (IF status[r] = "SUCCESS" THEN {} ELSE {<<"checked", r>>})
    /\ UNCHANGED <<rowVars, msg, abandoned, faults>>

\* ... and writes PENDING over what it read then.
RetriggerReset(r) ==
    /\ <<"checked", r>> \in calls
    /\ status' = [status EXCEPT ![r] = "PENDING"]
    /\ calls' = (calls \ {<<"checked", r>>}) \cup {<<"reset", r>>}
    /\ UNCHANGED <<attempt, stored, transformed, msg, abandoned, faults>>

\* task.apply_async / task.delay of any of the three callers.
Publish(step, r, m) ==
    /\ <<step, r>> \in calls
    /\ step \in Publishable
    /\ At(m, "idle")
    /\ Cardinality(Live) < MaxLive
    /\ msg' = [msg EXCEPT ![m] = Queued(r, 0)]
    /\ calls' = calls \ {<<step, r>>}
    /\ UNCHANGED <<rowVars, abandoned, faults>>

\* The caller's process dies.  run_pipeline_retrigger is redelivered and starts
\* over; the creator starts over with another row; the sweep comes round again.
CallerCrash(step, r) ==
    /\ <<step, r>> \in calls
    /\ step # "asked"
    /\ faults < MaxFaults
    /\ faults' = faults + 1
    /\ calls' = (calls \ {<<step, r>>})
                  \cup (IF step \in {"checked", "reset"} THEN {<<"asked", r>>} ELSE {})
    /\ UNCHANGED <<rowVars, msg, abandoned>>

-----------------------------------------------------------------------------
(* The worker: BaseExtractionV2.__init__, handle and what it calls.         *)

\* __init__ reads the row; every full save() of the instance writes this copy back.
Load(m) ==
    LET r == msg[m].row IN
    /\ At(m, "queued")
    /\ msg' = GotoWith(m, "loaded", "none", [attempt |-> attempt[r], stored |-> stored[r]])
    /\ UNCHANGED <<rowVars, calls, abandoned, faults>>

\* mark_as_started does not look at the status it overwrites.
MarkAsStarted(m) ==
    /\ At(m, "loaded")
    /\ status' = [status EXCEPT ![msg[m].row] = "IN_PROGRESS"]
    /\ msg' = GotoWith(m, "fetching", "none", msg[m].copy)
    /\ UNCHANGED <<attempt, stored, transformed, calls, abandoned, faults>>

\* _extraction_fetch_url up to the stored response: where the answer leads.
FetchUrl(m, a) ==
    /\ At(m, "fetching")
    /\ \/ /\ a \in {"data", "empty"}
          /\ msg' = GotoWith(m, "saving", a, msg[m].copy)
       \/ /\ a = "other"
          /\ msg' = Goto(m, IF msg[m].row \in Unchecked THEN "dispatching" ELSE "finishing")
       \/ /\ a \in {"nodata", "ratelimit", "request"}
          /\ msg' = GotoWith(m, "failing", a, NoCopy)
    /\ UNCHANGED <<rowVars, calls, abandoned, faults>>

\* instance.save() without update_fields writes every field of the copy.
FullSave(m, keep) ==
    LET r == msg[m].row IN
    /\ status' = [status EXCEPT ![r] = "IN_PROGRESS"]
    /\ attempt' = [attempt EXCEPT ![r] = msg[m].copy.attempt]
    /\ stored' = [stored EXCEPT ![r] = keep]

\* _extraction_store_data saves the content type first; an empty body ends there.
SaveType(m) ==
    /\ At(m, "saving")
    /\ FullSave(m, msg[m].copy.stored)
    /\ msg' = IF msg[m].ans = "data" THEN GotoWith(m, "storing", "data", msg[m].copy)
                                    ELSE Goto(m, "dispatching")
    /\ UNCHANGED <<transformed, calls, abandoned, faults>>

\* Mutant of StoreContent: the handler returns without queueing the transform.
StoreOnly(m, kept) ==
    /\ At(m, "storing")
    /\ FullSave(m, kept)
    /\ transformed' = [transformed EXCEPT ![msg[m].row] = FALSE]
    /\ msg' = Goto(m, "finishing")
    /\ UNCHANGED <<calls, abandoned, faults>>

\* manage_duplicate_file_content: the file is stored or shared with a row of the
\* same content, unless it is not found in the storage afterwards.
StoreContent(m, kept) ==
    /\ At(m, "storing")
    /\ FullSave(m, kept)
    /\ transformed' = [transformed EXCEPT ![msg[m].row] = FALSE]
    /\ msg' = Goto(m, "dispatching")
    /\ UNCHANGED <<calls, abandoned, faults>>

\* XTransformHandler.task.delay(id), the last statement of handle_type_query.
QueueTransform(m) ==
    /\ At(m, "dispatching")
    /\ transformed' = [transformed EXCEPT ![msg[m].row] = TRUE]
    /\ msg' = Goto(m, "finishing")
    /\ UNCHANGED <<status, attempt, stored, calls, abandoned, faults>>

\* mark_as_ended(SUCCESS), whatever handle_extract returned.
MarkSuccess(m) ==
    /\ At(m, "finishing")
    /\ status' = [status EXCEPT ![msg[m].row] = "SUCCESS"]
    /\ msg' = Goto(m, "done")
    /\ UNCHANGED <<attempt, stored, transformed, calls, abandoned, faults>>

\* Any other exception inside the try block: a database, broker or storage
\* error, an unparsable Retry-After, the soft time limit.
Interrupted(m) ==
    /\ msg[m].pc \in Guarded
    /\ msg' = GotoWith(m, "failing", "fatal", NoCopy)
    /\ UNCHANGED <<rowVars, calls, abandoned, faults>>

-----------------------------------------------------------------------------
(* handle_extract_error.                                                    *)

\* The retries a delivery with this failure may have before the row is failed.
RetryLimit(a) ==
    IF a = "ratelimit" THEN MAX_RATE_LIMIT_RETRY_LIMIT ELSE MAX_RETRY_LIMIT

MayRetry(m) ==
    /\ msg[m].ans \in {"ratelimit", "request"}
    /\ msg[m].retries < RetryLimit(msg[m].ans)

\* NoDataException ends in SUCCESS; the limit or an unknown error ends in FAILED.
MarkEnded(m) ==
    /\ At(m, "failing")
    /\ ~MayRetry(m)
    /\ status' = [status EXCEPT ![msg[m].row] =
                    IF msg[m].ans = "nodata" THEN "SUCCESS" ELSE "FAILED"]
    /\ msg' = Goto(m, "done")
    /\ UNCHANGED <<attempt, stored, transformed, calls, abandoned, faults>>

\* Mutant of MarkOnRetry: attempt_no is not incremented.
MarkOnRetryUncounted(m) ==
    /\ At(m, "failing")
    /\ MayRetry(m)
    /\ status' = [status EXCEPT ![msg[m].row] = "ON_RETRY"]
    /\ msg' = Goto(m, "retrying")
    /\ UNCHANGED <<attempt, stored, transformed, calls, abandoned, faults>>

MarkOnRetry(m) ==
    /\ At(m, "failing")
    /\ MayRetry(m)
    /\ status' = [status EXCEPT ![msg[m].row] = "ON_RETRY"]
    /\ msg' = Goto(m, "counting")
    /\ UNCHANGED <<attempt, stored, transformed, calls, abandoned, faults>>

\* update(attempt_no=F("attempt_no") + 1), saturating at MaxAttempt.
CountAttempt(m) ==
    LET r == msg[m].row IN
    /\ At(m, "counting")
    /\ attempt' = [attempt EXCEPT ![r] = IF @ < MaxAttempt THEN @ + 1 ELSE @]
    /\ msg' = Goto(m, "retrying")
    /\ UNCHANGED <<status, stored, transformed, calls, abandoned, faults>>

\* Mutant of Retry: max_retries=None, Celery's own limit is lifted.
RetryUnlimited(m, n) ==
    /\ At(m, "retrying")
    /\ At(n, "idle")
    /\ msg' = [msg EXCEPT ![m] = Keep(m, "done", "none", NoCopy),
                          ![n] = Queued(msg[m].row, msg[m].retries + 1)]
    /\ UNCHANGED <<rowVars, calls, abandoned, faults>>

\* celery_task.retry publishes the next delivery before this one is acknowledged ...
Retry(m, n) ==
    /\ At(m, "retrying")
    /\ msg[m].retries < CeleryMaxRetries
    /\ At(n, "idle")
    /\ msg' = [msg EXCEPT ![m] = Keep(m, "done", "none", NoCopy),
                          ![n] = Queued(msg[m].row, msg[m].retries + 1)]
    /\ UNCHANGED <<rowVars, calls, abandoned, faults>>

\* ... or raises the error again, once Celery's own max_retries is reached.
RetryRefused(m) ==
    /\ At(m, "retrying")
    /\ msg[m].retries >= CeleryMaxRetries
    /\ msg' = [msg EXCEPT ![m] = Idle]
    /\ abandoned' = abandoned \cup {msg[m].row}
    /\ UNCHANGED <<rowVars, calls, faults>>

-----------------------------------------------------------------------------
(* Celery and the broker, under CELERY_TASK_ACKS_LATE.                      *)

Ack(m) ==
    /\ At(m, "done")
    /\ msg' = [msg EXCEPT ![m] = Idle]
    /\ UNCHANGED <<rowVars, calls, abandoned, faults>>

\* Mutant of WorkerLost: without CELERY_TASK_ACKS_LATE the message is gone.
WorkerLostAcked(m) ==
    /\ msg[m].pc \in Running
    /\ faults < MaxFaults
    /\ faults' = faults + 1
    /\ msg' = [msg EXCEPT ![m] = Idle]
    /\ UNCHANGED <<rowVars, calls, abandoned>>

\* The worker process is lost: the message is delivered again, from the start.
WorkerLost(m) ==
    /\ msg[m].pc \in Running
    /\ faults < MaxFaults
    /\ faults' = faults + 1
    /\ msg' = [msg EXCEPT ![m] = Queued(msg[m].row, msg[m].retries)]
    /\ UNCHANGED <<rowVars, calls, abandoned>>

\* The broker connection is lost: the message is delivered again while the
\* worker, whose acknowledgement will be ignored, carries on.
ConnectionLost(m, n) ==
    /\ msg[m].pc \in Running
    /\ At(n, "idle")
    /\ Cardinality(Live) < MaxLive
    /\ faults < MaxFaults
    /\ faults' = faults + 1
    /\ msg' = [msg EXCEPT ![n] = Queued(msg[m].row, msg[m].retries)]
    /\ UNCHANGED <<rowVars, calls, abandoned>>

\* The task fails outside the try block, or the hard time limit kills it: a
\* failed task is acknowledged, late acknowledgement or not.
TaskFailure(m) ==
    /\ msg[m].pc \in Owing
    /\ msg' = [msg EXCEPT ![m] = Idle]
    /\ abandoned' = abandoned \cup {msg[m].row}
    /\ UNCHANGED <<rowVars, calls, faults>>

-----------------------------------------------------------------------------

\* What a worker that neither crashes nor is interrupted does next.
Work(m) ==
    \/ Load(m)
    \/ MarkAsStarted(m)
    \/ \E a \in Answers : FetchUrl(m, a)
    \/ SaveType(m)
    \/ \E kept \in BOOLEAN : StoreContent(m, kept)
    \/ QueueTransform(m)
    \/ MarkSuccess(m)
    \/ MarkEnded(m)
    \/ MarkOnRetry(m)
    \/ CountAttempt(m)
    \/ \E n \in Msgs : Retry(m, n)
    \/ RetryRefused(m)
    \/ Ack(m)

Call(r) ==
    \/ RetriggerRead(r)
    \/ RetriggerReset(r)
    \/ \E step \in Publishable, m \in Msgs : Publish(step, r, m)

Environment ==
    \/ \E r \in Rows : InitExtraction(r) \/ RetriggerPipeline(r)
    \/ \E r \in Rows, step \in CallStep : CallerCrash(step, r)
    \/ \E m \in Msgs : Interrupted(m) \/ WorkerLost(m) \/ TaskFailure(m)
    \/ \E m, n \in Msgs : ConnectionLost(m, n)

Next ==
    \/ \E m \in Msgs : Work(m)
    \/ \E r \in Rows : Call(r) \/ TriggerPendingExtraction(r)
    \/ Environment

Spec == Init /\ [][Next]_vars

\* Workers consume their queues, callers finish their loops and Celery beat
\* starts the sweep every day; nothing else has to happen.
FairSpec ==
    /\ Spec
    /\ \A m \in Msgs : WF_vars(Work(m))
    /\ \A r \in Rows : WF_vars(Call(r)) /\ WF_vars(TriggerPendingExtraction(r))

-----------------------------------------------------------------------------

TypeOK ==
    /\ status \in [Rows -> Status]
    /\ attempt \in [Rows -> 0..MaxAttempt]
    /\ stored \in [Rows -> BOOLEAN]
    /\ transformed \in [Rows -> BOOLEAN]
    /\ msg \in [Msgs -> Delivery]
    /\ \A m \in Msgs : msg[m].pc = "idle" \/ msg[m].row \in Rows
    /\ calls \subseteq CallStep \X Rows
    /\ abandoned \subseteq Rows
    /\ faults \in 0..MaxFaults

\* A delivery that will still write an outcome into row r.
WillAnswer(r) == \E m \in Msgs : msg[m].row = r /\ msg[m].pc \in Owing \cup {"queued"}

\* A row shown as running or waiting for its retry is in the hands of a delivery,
\* through every crash, redelivery and duplicate, except for rows whose delivery
\* Celery acknowledged without an outcome (handler.py 397-469, settings.py 202-219).
StrandedOnlyIfAbandoned ==
    \A r \in Rows : status[r] \in {"IN_PROGRESS", "ON_RETRY"} =>
        WillAnswer(r) \/ r \in abandoned

\* handler.py 438 gives a generic request error "fewer retries" than a rate
\* limit: a retry that handle_extract_error asks for is one Celery grants.
RetriesAreGranted ==
    \A m \in Msgs : At(m, "retrying") => msg[m].retries < CeleryMaxRetries

\* The deliveries of a row follow each other: at most one of them is not finished.
OneByOne ==
    \A m, n \in Live : (m # n /\ msg[m].row = msg[n].row) => At(m, "done") \/ At(n, "done")

\* attempt_no, which charter/extract.py 684-688 reads in place of request.retries,
\* never falls behind it as long as no two deliveries of a row are at work at once.
AttemptsCoverRetries ==
    []OneByOne => [](\A m \in Live : msg[m].retries <= attempt[msg[m].row])

\* mutations.py 146-151 means the retrigger to leave a row alone that has
\* meanwhile succeeded.
RetriggerSparesSuccess ==
    [][\A r \in Rows : status[r] = "SUCCESS" => status'[r] # "PENDING"]_vars

Settled(r) == status[r] \in {"SUCCESS", "FAILED"}

\* Every row that exists and has no outcome gets one, unless Celery abandons it.
EveryRowSettles ==
    \A r \in Rows : (status[r] # "ABSENT" /\ ~Settled(r)) ~> (Settled(r) \/ r \in abandoned)

\* Content that a delivery has just stored is queued for transformation, even if
\* that delivery crashes at once, or the row fails (glide/extract.py 43-55 and alike).
ContentIsTransformed ==
    \A r \in Rows :
        (stored[r] /\ ~transformed[r] /\ \E m \in Msgs : msg[m].row = r /\ At(m, "dispatching"))
            ~> (transformed[r] \/ ~stored[r] \/ status[r] = "FAILED" \/ r \in abandoned)
=============================================================================
