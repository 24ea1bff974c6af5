---------------------------- MODULE CharterSource ----------------------------
(***************************************************************************)
(* Disaster Charter (extraction/sources/charter/extract.py,                *)
(* transform/sources/charter.py): a CATALOG row lists the activations of an *)
(* S3 bucket, an ACTIVATION row is fetched and gets a child for every area, *)
(* VAP and calibrated dataset, and the chord of the children runs the       *)
(* transform, which is skipped when no row has changed.  A file is compared *)
(* by its ETag first and by the hash of its content after that.             *)
(***************************************************************************)
EXTENDS FanOut

CONSTANTS
    Catalog,   \* the activations in the order of the listing
    Errored,   \* ERRORED_ACTIVATION_IDS and ERRORED_CALIBRATION_IDS
    Areas,     \* activation -> the files its links of type area name
    Vaps,      \* activation -> the folders under its vaps/
    Datasets   \* activation -> the dataset folders of its calls

CONSTANT Days \* bound: catalog rows, one per day

ChildTypes == {"AREA", "VAPS", "CALIBRATED_DATASET"}

CharterInit == InitRows(<<Row("CATALOG", "catalog", 0)>>)

\* ext_and_transform_charter_latest_data, the next day.  Bound: everything of the day before
\* has been handled; a redelivered catalog makes activations overlap.
NextDay ==
    /\ Cardinality({r \in Rows : rows[r].type = "CATALOG"}) < Days
    /\ Quiet
    /\ rows' = Append(rows, Row("CATALOG", "catalog", 0))
    /\ msgs' = NewGroup(1)
    /\ UNCHANGED <<chords, world, ended, fed, spent>>

Wanted == Only(Catalog, {i \in DOMAIN Catalog : Catalog[i] \notin Errored})

ASSUME CharterAssumption ==
    /\ "catalog" \in Items /\ Catalog \in Seq(Items) /\ Days \in Nat
    /\ \A a \in Listing(Wanted) : {Areas[a], Vaps[a], Datasets[a]} \subseteq Seq(Items)

\* handle_type_catalog: the rows of the activations are queued one by one; an error of
\* the listing ends it, and is only logged.
HandleCatalog(t) ==
    /\ Handles(t, "CATALOG")
    /\ \E n \in 0..Len(Wanted) :
        /\ IF n < Len(Wanted) THEN Error ELSE UNCHANGED spent
        /\ rows' = Started(t) \o [i \in 1..n |-> Row("ACTIVATION", Wanted[i], 0)]
        /\ msgs' = Move(t, "sent") \o NewGroup(n)
    /\ UNCHANGED <<chords, world, ended, fed>>

\* _fetch_s3_file, first part: a successful row of the same file and ETag is reused.
SameTag(r, tag) ==
    {o \in Rows \ {r} : /\ rows[o].type # "CATALOG" /\ rows[o].item = rows[r].item
                        /\ rows[o].tag = tag /\ rows[o].status = "SUCCESS"}

\* Mutant of Reused: it says NO_CHANGE, and takes over nothing.
ReusedEmpty(t, tag) == [RowOf(t) EXCEPT !.valid = "NO_CHANGE", !.tag = tag]

Reused(t, tag) ==
    [RowOf(t) EXCEPT !.content = rows[Newest(SameTag(msgs[t].row, tag))].content,
                     !.valid = "NO_CHANGE", !.tag = tag]

\* _fetch_s3_file: the row once the file is fetched.  HEAD may fail, which costs the tag.
Fetched(t, tag) ==
    IF tag # 0 /\ SameTag(msgs[t].row, tag) # {} THEN Reused(t, tag)
    ELSE [Stored(t) EXCEPT !.tag = IF tag = 0 THEN @ ELSE tag]

Tags(t) ==
    {<<world[RowOf(t).item].tag, spent>>} \cup
        (IF Left THEN {<<0, [spent EXCEPT !.errors = @ + 1]>>} ELSE {})

\* _make_area_tasks, _make_vap_tasks and _make_calibrated_dataset_tasks: a listing that
\* fails is skipped, errored calibrations have no datasets.
Parts(parent, type, files) ==
    [i \in DOMAIN files |-> [type |-> type, item |-> files[i], parent |-> parent]]

ChildrenOf(r, skipped) ==
    LET a == rows[r].item IN
    Parts(r, "AREA", Areas[a])
        \o Parts(r, "VAPS", IF skipped = "VAPS" THEN <<>> ELSE Vaps[a])
        \o Parts(r, "CALIBRATED_DATASET",
                 IF a \in Errored \/ skipped = "CALIBRATED_DATASET" THEN <<>> ELSE Datasets[a])

\* handle_type_activation and _dispatch_transform.
HandleActivation(t) ==
    /\ Handles(t, "ACTIVATION")
    /\ \/ \E h \in Tags(t) :
            LET specs == ChildrenOf(msgs[t].row, "none")
            IN /\ spent' = h[2]
               /\ Made(t, Fetched(t, h[1]), NewRows(specs),
                       <<NewGroup(Len(specs)), <<Transform(msgs[t].row)>>>>, 0)
       \/ \E skipped \in {"VAPS", "CALIBRATED_DATASET"} :
            LET specs == ChildrenOf(msgs[t].row, skipped)
            IN /\ Error
               /\ Made(t, Fetched(t, world[RowOf(t).item].tag), NewRows(specs),
                       <<NewGroup(Len(specs)), <<Transform(msgs[t].row)>>>>, 0)

\* The children fetch their file.
HandleChild(t) ==
    /\ Received(t) /\ RowOf(t).type \in ChildTypes
    /\ \E h \in Tags(t) :
        /\ spent' = h[2]
        /\ Made(t, Fetched(t, h[1]), <<>>, <<>>, 0)

\* handle_extract_error: a permanent S3 error, or a request error of a row that has had
\* its attempts, fails the row and lets the task return.
CharterGivesUp(t) ==
    /\ Received(t) /\ RowOf(t).type # "CATALOG" /\ Error
    /\ rows' = SetStatus(t, "FAILED")
    /\ Return(t, 0)
    /\ UNCHANGED <<world, ended, fed>>

\* Mutant of PermanentError: it is raised, as an unknown exception is.
PermanentErrorRaised(t) ==
    /\ Received(t) /\ RowOf(t).type \in ChildTypes /\ Error
    /\ rows' = SetStatus(t, "FAILED")
    /\ Raise(t)
    /\ UNCHANGED <<world, ended, fed>>

PermanentError(t) == CharterGivesUp(t)

CharterRequestError(t) ==
    /\ Received(t) /\ RowOf(t).type # "CATALOG"
    /\ \/ RowOf(t).attempts >= RetryLimit /\ CharterGivesUp(t)
       \/ RowOf(t).attempts < RetryLimit /\ RequestError(t)

\* _should_skip_transform.
Unchanged(r) ==
    /\ rows[r].valid = "NO_CHANGE"
    /\ \A c \in Children(r) : rows[c].type \in ChildTypes => rows[c].valid = "NO_CHANGE"

\* get_schema_data reads all good children.
CharterReads(r) == WithOwn(r, {c \in Children(r) : Good(c)})

CharterTransform(t) ==
    \/ RunTransform(t, CharterReads(msgs[t].row)) /\ ~Unchanged(msgs[t].row)
    \/ /\ At(t, "transform", "queued") /\ Unchanged(msgs[t].row)
       /\ ended' = ended \cup {msgs[t].row}
       /\ msgs' = Acked(t)
       /\ UNCHANGED <<rows, chords, world, fed, spent>>

CharterStep(t) ==
    \/ Dispatch(t) \/ Finish(t) \/ WorkerLost(t)
    \/ HandleCatalog(t) \/ HandleActivation(t) \/ HandleChild(t)
    \/ PermanentError(t) \/ CharterRequestError(t)
    \/ OtherError(t)
    \/ CharterTransform(t)

CharterNext ==
    \/ NextDay
    \/ \E t \in Messages : CharterStep(t)
    \/ \E status \in {"FAILED", "PENDING"} : Retrigger(status, Itself)
    \/ \E i \in Items \ {"catalog"} : Change(i)

-----------------------------------------------------------------------------
ActivationOf(r) == IF rows[r].type \in ChildTypes THEN rows[r].parent ELSE r
\* An activation that went through at the first try, with all its children.
Clean(a) == \A r \in {a} \cup Children(a) : rows[r].status = "SUCCESS" /\ rows[r].runs = 1

(* Request errors and permanent S3 errors never keep the transform of an       *)
(* activation from being queued (charter/extract.py:674 "without raising, so   *)
(* the chord transform still fires"): only unknown exceptions and lost workers *)
(* do.  Retries, attempt_no and the chord's count have to agree on that.        *)
CharterTransformFires ==
    (Quiet /\ spent.unknown = 0 /\ spent.losses = 0) =>
        \A a \in Rows : (rows[a].type = "ACTIVATION" /\ rows[a].status = "SUCCESS") =>
            a \in ended

(* Skipping downloads and transforms loses no content by itself: what a clean  *)
(* activation holds, or something newer, has been read by a transform that ran, *)
(* its own or that of the activation it was compared with, unless that one was  *)
(* not clean.                                                                   *)
CharterContentFed ==
    Quiet => \A r \in Rows :
      (rows[r].type \in {"ACTIVATION"} \cup ChildTypes /\ Clean(ActivationOf(r))) =>
        \E o \in Rows :
            /\ rows[o].item = rows[r].item
            /\ \/ \E f \in fed : f[1] = o /\ f[2] >= rows[r].content
               \/ rows[o].content >= rows[r].content /\ ~Clean(ActivationOf(o))
=============================================================================
