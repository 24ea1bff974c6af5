------------------------------- MODULE FanOut -------------------------------
(***************************************************************************)
(* What the extractions that fan out share: rows with a parent             *)
(* (ExtractionData), the life of one delivery of an extraction task        *)
(* (BaseExtractionV2 in extraction/sources/base/handler.py), and the        *)
(* chords, chains and groups of Celery that the sources are built with.     *)
(* CharterSource, GdacsSource, UsgsSource, PdcSource and PagedSources       *)
(* extend this module as their classes extend BaseExtractionV2, and         *)
(* Sources puts them together.                                              *)
(*                                                                         *)
(* A delivery marks its row as started, fetches and creates rows (one step, *)
(* the handler of the source, which leaves in "todo" what is to be          *)
(* published), publishes (Dispatch) and ends (Finish).  A worker may be     *)
(* lost between any two of these steps, and before the fetch.  A message is *)
(* counted by its chord when it is acknowledged.                            *)
(***************************************************************************)
EXTENDS Naturals, Sequences, FiniteSets

CONSTANTS
    Items,         \* what a row is about: the file, event or page at its URL
    RetryLimit,    \* MAX_RETRY_LIMIT
    RateLimit,     \* MAX_RATE_LIMIT_RETRY_LIMIT
    CeleryRetries, \* Task.max_retries
    Workers        \* the processes of the extraction worker

\* Bounds: how much may go wrong in a behaviour (errors, lost workers and changes of remote
\* contents taken together), and how often rows are retriggered.
CONSTANTS MaxFaults, MaxRetriggers

ASSUME FanOutAssumption ==
    RetryLimit \in Nat /\ RateLimit \in Nat /\ CeleryRetries \in Nat /\ Workers \in Nat /\ MaxFaults \in Nat
    /\ MaxRetriggers \in Nat

VARIABLES
    rows,   \* ExtractionData, by primary key
    msgs,   \* Celery messages that are not acknowledged, in the order of publication
    chords, \* what Celery keeps of the chords
    world,  \* item -> what the remote system serves: the tag and the content
    ended,  \* the rows whose transform has been delivered
    fed,    \* <<row, content>> pairs that some transform has read
    spent   \* what is used up of the bounds

vars == <<rows, msgs, chords, world, ended, fed, spent>>

Status == {"PENDING", "IN_PROGRESS", "ON_RETRY", "SUCCESS", "FAILED"}

\* type stands for the source and the type in the metadata, valid is
\* source_validation_status, tag the s3_etag, content stands for resp_data and file_hash
\* (0: none); runs counts the deliveries that started the row and did not end in a retry,
\* as 0, 1 and more.
Row(type, item, parent) ==
    [type |-> type, item |-> item, parent |-> parent, status |-> "PENDING", valid |-> "NONE",
     tag |-> 0, content |-> 0, attempts |-> 0, runs |-> 0]

\* failed is failed_int; next is set on the first task of a chain of two, whose result
\* (value) is the argument of the second; todo holds the groups to publish, in order.
Extract(row, failed) ==
    [kind |-> "extract", row |-> row, failed |-> failed, retries |-> 0, pc |-> "queued",
     chord |-> 0, next |-> FALSE, value |-> 0, todo |-> <<>>]
Transform(row) == [Extract(row, 0) EXCEPT !.kind = "transform"]

\* What a sequence lists, its elements at some places, and a set of numbers as a sequence
\* (written out, as these definitions are proved about).
Listing(s) == {s[i] : i \in DOMAIN s}
InOrder(S) == [i \in 1..Cardinality(S) |-> CHOOSE x \in S : Cardinality({y \in S : y < x}) = i - 1]
Only(s, places) == [i \in 1..Cardinality(places) |-> s[InOrder(places)[i]]]

\* order_by("-id").first().
Newest(S) == CHOOSE r \in S : \A o \in S : o <= r

Rows == DOMAIN rows
Messages == DOMAIN msgs
Children(r) == {c \in Rows : rows[c].parent = r}
RowOf(t) == rows[msgs[t].row]
Quiet == msgs = <<>>
At(t, kind, pc) == msgs[t].kind = kind /\ msgs[t].pc = pc

\* A free process takes the first extraction message (one message is prefetched for a
\* process and acknowledged when it ends); a retried one comes when its countdown is over.
Waits(t) == At(t, "extract", "queued")
Busy == Cardinality({t \in Messages : msgs[t].pc # "queued"})
Taken(t) ==
    /\ Waits(t) /\ Busy < Workers
    /\ \A o \in 1..(t - 1) : ~Waits(o) \/ msgs[o].retries > 0
Received(t) == Taken(t) /\ msgs[t].row # 0
Handles(t, type) == Received(t) /\ RowOf(t).type = type

\* unknown counts the exceptions that handle_extract_error does not know, empty the answers
\* without data.
Faults == {"errors", "unknown", "empty", "timeouts", "losses", "changes"}
Left ==
    spent.errors + spent.unknown + spent.empty + spent.timeouts + spent.losses + spent.changes
        < MaxFaults
Spend(what) == Left /\ spent' = [spent EXCEPT ![what] = @ + 1]
Error == Spend("errors")

InitRows(first) ==
    /\ rows = first
    /\ msgs = [i \in DOMAIN first |-> Extract(i, 0)]
    /\ chords = <<>>
    /\ world = [i \in Items |-> [tag |-> 1, content |-> 1]]
    /\ ended = {} /\ fed = {}
    /\ spent = [f \in Faults \cup {"retriggers", "sweeps"} |-> 0]

-----------------------------------------------------------------------------
(* Celery.                                                                   *)

\* Publishing groups one after the other: each is the header of a chord whose body are
\* the groups after it.  A chord without header runs its body at once.
Published(queue, table, groups) ==
    LET todo == Only(groups, {i \in DOMAIN groups : groups[i] # <<>>}) IN
    IF Len(todo) = 0 THEN [msgs |-> queue, chords |-> table]
    ELSE IF Len(todo) = 1 THEN [msgs |-> queue \o todo[1], chords |-> table]
    ELSE [msgs |-> queue \o [i \in DOMAIN todo[1] |-> [todo[1][i] EXCEPT !.chord = Len(table) + 1]],
          chords |-> Append(table, [left |-> Len(todo[1]), broken |-> FALSE, body |-> Tail(todo)])]

Publish(queue, table, groups) ==
    /\ msgs' = Published(queue, table, groups).msgs
    /\ chords' = Published(queue, table, groups).chords

Acked(t) == [i \in 1..(Len(msgs) - 1) |-> msgs[IF i < t THEN i ELSE i + 1]]
Move(t, pc) == [msgs EXCEPT ![t].pc = pc]

\* The task returns: its chain goes on with the result, its chord counts it, and the
\* last part of a chord that nothing has broken publishes the body.
Return(t, value) ==
    LET m == msgs[t]
        counted == [chords EXCEPT ![m.chord].left = @ - 1]
    IN
    \/ /\ m.next
       /\ msgs' = Append(Acked(t), [Extract(value, 0) EXCEPT !.chord = m.chord])
       /\ UNCHANGED chords
    \/ /\ ~m.next /\ m.chord = 0
       /\ msgs' = Acked(t)
       /\ UNCHANGED chords
    \/ /\ ~m.next /\ m.chord # 0
       /\ IF counted[m.chord].left = 0 /\ ~counted[m.chord].broken
          THEN Publish(Acked(t), [counted EXCEPT ![m.chord].body = <<>>], counted[m.chord].body)
          ELSE msgs' = Acked(t) /\ chords' = counted

\* The task raises: the body of its chord never runs.
Raise(t) ==
    /\ msgs' = Acked(t)
    /\ chords' = [c \in DOMAIN chords |->
        IF c = msgs[t].chord THEN [chords[c] EXCEPT !.broken = TRUE] ELSE chords[c]]

\* A chain may pass None on, for which there is no row: __init__ raises.
StartWithoutRow(t) ==
    /\ Taken(t) /\ msgs[t].row = 0
    /\ Raise(t)
    /\ UNCHANGED <<rows, world, ended, fed, spent>>

\* A row that is started already keeps its count.
Mark(table, t, status) ==
    [table EXCEPT ![msgs[t].row].status = status,
                 ![msgs[t].row].runs = IF Received(t) /\ @ < 2 THEN @ + 1 ELSE @]

SetStatus(t, status) == Mark(rows, t, status)

\* mark_as_started.
Started(t) == SetStatus(t, "IN_PROGRESS")

\* The worker is lost, and the message is delivered again; or the hard time limit kills
\* it, which counts as a failure.  Rows and messages made so far stay.
WorkerLost(t) ==
    /\ Received(t) \/ msgs[t].pc \in {"stored", "made", "sent"}
    /\ Spend("losses")
    /\ rows' = Started(t)
    /\ \/ msgs' = [Move(t, "queued") EXCEPT ![t].todo = <<>>, ![t].value = 0] /\ UNCHANGED chords
       \/ Raise(t)
    /\ UNCHANGED <<world, ended, fed>>

-----------------------------------------------------------------------------
(* BaseExtractionV2.                                                         *)

\* What the handler has put together is published ...
Dispatch(t) ==
    /\ At(t, "extract", "made")
    /\ Publish(Move(t, "sent"), chords, msgs[t].todo)
    /\ UNCHANGED <<rows, world, ended, fed, spent>>

\* ... and the row marked as a success.
Finish(t) ==
    /\ At(t, "extract", "sent")
    /\ rows' = SetStatus(t, "SUCCESS")
    /\ Return(t, msgs[t].value)
    /\ UNCHANGED <<world, ended, fed, spent>>

\* Mutant of RetryAllowed: the tasks have max_retries = None.
RetryAllowedAlways(t) == TRUE

RetryAllowed(t) == msgs[t].retries < CeleryRetries

\* Mutant of RetryMessage: the exception of retry() is not raised, and the task just ends.
RetryMessageLost(t) == Acked(t)

RetryMessage(t) == [Move(t, "queued") EXCEPT ![t].retries = @ + 1]

\* handle_extract_error: after the last retry the row fails and the task returns;
\* Celery's own limit makes retry() raise instead.  table is rows with what the handler
\* has made of it so far.
RetryOr(t, limit, table) ==
    LET m == msgs[t] IN
    \/ /\ m.retries >= limit
       /\ rows' = Mark(table, t, "FAILED")
       /\ Return(t, 0)
    \/ /\ m.retries < limit
       /\ rows' = [table EXCEPT ![m.row].status = "ON_RETRY", ![m.row].attempts = @ + 1]
       /\ \/ RetryAllowed(t) /\ msgs' = RetryMessage(t) /\ UNCHANGED chords
          \/ ~RetryAllowed(t) /\ Raise(t)

\* A RequestException, or a RateLimitError, of the fetch.
FetchFails(t, limit) ==
    /\ Received(t) /\ Error
    /\ RetryOr(t, limit, rows)
    /\ UNCHANGED <<world, ended, fed>>
RequestError(t) == FetchFails(t, RetryLimit)
RateLimited(t) == FetchFails(t, RateLimit)

\* An exception that is not known: a body that does not parse, the soft time limit.
OtherError(t) ==
    /\ Received(t) /\ Spend("unknown")
    /\ rows' = SetStatus(t, "FAILED")
    /\ Raise(t)
    /\ UNCHANGED <<world, ended, fed>>

\* manage_duplicate_file_content, for what the source serves now: a row of the same
\* content makes it NO_CHANGE; nothing ever takes that back.
Stored(t) ==
    LET r == msgs[t].row
        now == world[RowOf(t).item].content
        twins == {o \in Rows \ {r} : /\ rows[o].type = rows[r].type /\ rows[o].item = rows[r].item
                                  /\ rows[o].content = now}
    IN [RowOf(t) EXCEPT !.content = now,
                        !.valid = IF twins = {} THEN @ ELSE "NO_CHANGE"]

\* The handler has stored the row, made new rows, and left groups to publish.
Made(t, row, new, groups, value) ==
    /\ LET begun == Started(t)[msgs[t].row] IN
        rows' = [rows EXCEPT ![msgs[t].row] =
                    [row EXCEPT !.status = begun.status, !.runs = begun.runs]] \o new
    /\ msgs' = [msgs EXCEPT ![t].pc = IF groups = <<>> THEN "sent" ELSE "made",
                            ![t].todo = groups, ![t].value = value]
    /\ UNCHANGED <<chords, world, ended, fed>>

\* The fetch returns False, or the body is empty: the handlers log it and return.
NoData(t) ==
    /\ Received(t) /\ Spend("empty")
    /\ Made(t, RowOf(t), <<>>, <<>>, 0)

FetchGoesWrong(t) == NoData(t) \/ RequestError(t) \/ RateLimited(t) \/ OtherError(t)

\* The rows that init_extraction adds, and the group of messages that run them.
NewRows(specs) == [i \in DOMAIN specs |-> Row(specs[i].type, specs[i].item, specs[i].parent)]
NewGroup(n) == [i \in 1..n |-> Extract(Len(rows) + i, 0)]

\* A transform reads what some rows hold, none if it fails.
Below(r) == {c \in Rows : rows[c].parent # 0 /\ (rows[c].parent = r \/ rows[rows[c].parent].parent = r)}
Good(r) == rows[r].status = "SUCCESS" /\ rows[r].content # 0
WithOwn(r, read) == IF rows[r].content = 0 THEN {} ELSE {r} \cup read
RunTransform(t, read) ==
    /\ At(t, "transform", "queued")
    /\ ended' = ended \cup {msgs[t].row}
    /\ fed' = fed \cup {<<c, rows[c].content>> : c \in read}
    /\ msgs' = Acked(t)
    /\ UNCHANGED <<rows, chords, world, spent>>
Reads(r) == \E f \in fed : f[1] = r /\ f[2] = rows[r].content

Retriggered(how) ==
    /\ spent.retriggers + spent.sweeps < MaxRetriggers
    /\ spent' = [spent EXCEPT ![how] = @ + 1]

\* run_pipeline_retrigger for the failed rows, and trigger_pending_extraction, which leaves
\* the pending rows as they are: both publish for each row the message in target.
\* Bound: only when everything published before has been handled.
Retrigger(status, target) ==
    LET chosen == InOrder({r \in Rows : rows[r].status = status}) IN
    /\ Quiet /\ chosen # <<>> /\ Retriggered(IF status = "PENDING" THEN "sweeps" ELSE "retriggers")
    /\ rows' = [r \in Rows |-> [rows[r] EXCEPT !.status = IF @ = status THEN "PENDING" ELSE @]]
    /\ msgs' = [i \in DOMAIN chosen |-> target[chosen[i]]]
    /\ UNCHANGED <<chords, world, ended, fed>>
Itself == [r \in Rows |-> Extract(r, 0)]

\* The remote file is touched (another tag), and its content may have changed.  Only a
\* fetch sees the remote side, so it is enough to let it change right before one.
Change(i) ==
    /\ \E t \in Messages : Received(t) /\ RowOf(t).item = i
    /\ Spend("changes")
    /\ \E edited \in {0, 1} :
        world' = [world EXCEPT ![i] = [tag |-> @.tag + 1, content |-> @.content + edited]]
    /\ UNCHANGED <<rows, msgs, chords, ended, fed>>

-----------------------------------------------------------------------------
(* The variables keep their types: rows and messages refer to rows that are   *)
(* there, and a chord never counts more parts than it has.                     *)
FanOutTypeOK ==
    /\ \A r \in Rows :
        /\ rows[r].item \in Items /\ rows[r].parent \in 0..(r - 1)
        /\ rows[r].status \in Status /\ rows[r].valid \in {"NONE", "NO_CHANGE", "NO_DATA"}
        /\ rows[r].content \in 0..(MaxFaults + 1) /\ rows[r].tag \in 0..(MaxFaults + 1)
    /\ \A t \in Messages :
        /\ msgs[t].kind \in {"extract", "transform", "batch", "trigger"}
        /\ {msgs[t].row, msgs[t].failed, msgs[t].value} \subseteq 0..Len(rows)
        /\ msgs[t].pc \in {"queued", "stored", "made", "sent"}
        /\ msgs[t].retries \in 0..CeleryRetries
        /\ msgs[t].chord \in 0..Len(chords)
    /\ \A c \in DOMAIN chords : chords[c].left \in Nat
    /\ ended \subseteq Rows
    /\ fed \subseteq Rows \X (1..(MaxFaults + 1))

(* Whatever goes wrong, no row is left in a status that nothing picks up: when  *)
(* all is quiet it has ended, or is PENDING or FAILED, which the sweep and the  *)
(* retrigger look for.  Three exceptions: a worker that is killed leaves         *)
(* IN_PROGRESS; retry() beyond Celery's own limit leaves ON_RETRY; and so does   *)
(* an IMPACT, whose task is called directly (gdacs/extract.py:287).              *)
NothingStuck ==
    Quiet => \A r \in Rows :
        \/ rows[r].status \in {"SUCCESS", "PENDING", "FAILED"}
        \/ rows[r].status = "IN_PROGRESS" /\ spent.losses > 0
        \/ rows[r].status = "ON_RETRY" /\ (rows[r].attempts > CeleryRetries \/ rows[r].type = "IMPACT")
=============================================================================
