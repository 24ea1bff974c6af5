------------------------------- MODULE PdcSource -------------------------------
(***************************************************************************)
(* PDC (extraction/sources/pdc/extract.py, transform/sources/pdc.py, and    *)
(* mutations.py for the retrigger): a HAZARD row is a page of hazards, each  *)
(* of which gets a POLYGON and an EXPOSURE_LIST; the lists are the body of   *)
(* the chord of the polygons, and a list makes EXPOSURE_DETAIL rows that a   *)
(* batch fetches, in one step here (PdcExposureBatch has the steps).  Rows    *)
(* that are there already are used again, so that a page can be redelivered. *)
(***************************************************************************)
EXTENDS FanOut

CONSTANTS
    Pages,      \* the pages, the first one first; all but the last are full
    Hazards,    \* page -> its hazards
    Exposures   \* hazard -> its exposures

ASSUME PdcAssumption ==
    /\ Pages \in Seq(Items) /\ Pages # <<>>
    /\ \A i, j \in DOMAIN Pages : Pages[i] = Pages[j] => i = j \* they are numbered
    /\ \A p \in Listing(Pages) :
        /\ Hazards[p] \in Seq(Items)
        /\ \A h \in Listing(Hazards[p]) : Exposures[h] \in Seq(Items)

PdcChildTypes == {"POLYGON", "EXPOSURE_LIST", "EXPOSURE_DETAIL"}

PdcInit == InitRows(<<Row("HAZARD", Pages[1], 0)>>)

\* _find_existing_child, among the rows of a table: the newest one, or none.
Existing(table, r, type, item) ==
    {c \in DOMAIN table : table[c].parent = r /\ table[c].type = type /\ table[c].item = item}

Spec2(type, item, parent) == [type |-> type, item |-> item, parent |-> parent]
NextPage(page) == {Pages[i + 1] : i \in {j \in 1..(Len(Pages) - 1) : Pages[j] = page}}

\* The polygons and lists of a page, in the order of handle_type_hazard.
PageParts(r) ==
    LET hazards == Hazards[rows[r].item] IN
    [n \in 1..(2 * Len(hazards)) |->
        Spec2(IF n % 2 = 1 THEN "POLYGON" ELSE "EXPOSURE_LIST", hazards[(n + 1) \div 2], r)]

\* Mutant of Missing: nothing is looked up.
MissingAll(parts) == parts

\* What is named twice is found the second time.
Missing(parts) ==
    Only(parts, {i \in DOMAIN parts :
                    /\ Existing(rows, parts[i].parent, parts[i].type, parts[i].item) = {}
                    /\ \A j \in 1..(i - 1) : parts[j] # parts[i]})

\* handle_type_hazard fetches the page and looks for the rows it needs ...
PdcHazardFetched(t) ==
    /\ Handles(t, "HAZARD")
    /\ rows' = [Started(t) EXCEPT ![msgs[t].row].content = world[RowOf(t).item].content]
    /\ msgs' = [msgs EXCEPT ![t].pc = "stored", ![t].todo = Missing(PageParts(msgs[t].row))]
    /\ UNCHANGED <<chords, world, ended, fed, spent>>

\* Mutant of PageChord: lists do not wait for polygons.
PageGroup(polygons, lists) == <<polygons \o lists>>

PageChord(polygons, lists) == IF lists = <<>> THEN <<>> ELSE <<polygons, lists>>

\* The messages of those of a type that are not yet a success.
OpenParts(table, r, type) ==
    LET hazards == Hazards[rows[r].item]
        ids == [i \in DOMAIN hazards |-> Newest(Existing(table, r, type, hazards[i]))]
        open == Only(ids, {i \in DOMAIN ids : table[ids[i]].status # "SUCCESS"})
    IN [i \in DOMAIN open |-> Extract(open[i], 0)]

\* The row of the next page, which is looked for among the children although it is made
\* without a parent.
NextRows(r) ==
    LET pages == {p \in NextPage(rows[r].item) : Existing(rows, r, "HAZARD", p) = {}}
    IN [i \in 1..Cardinality(pages) |-> Row("HAZARD", CHOOSE p \in pages : TRUE, 0)]

\* ... makes those that were missing, and the row of the next page; what is not yet a
\* success is run.
PdcHazardMade(t) ==
    LET r == msgs[t].row
        next == NextRows(r)
        table == rows \o NewRows(msgs[t].todo) \o next
        groups == PageChord(OpenParts(table, r, "POLYGON"), OpenParts(table, r, "EXPOSURE_LIST"))
    IN
    /\ At(t, "extract", "stored") /\ RowOf(t).type = "HAZARD"
    /\ rows' = table
    /\ msgs' = [msgs EXCEPT ![t].pc = IF groups = <<>> THEN "sent" ELSE "made", ![t].todo = groups]
                    \o [i \in DOMAIN next |-> Extract(Len(table), 0)]
    /\ UNCHANGED <<chords, world, ended, fed, spent>>

\* handle_polygon, and handle_exposure_detail when a DETAIL row runs its own task.
PdcFetch(t) ==
    /\ Received(t) /\ RowOf(t).type \in {"POLYGON", "EXPOSURE_DETAIL"}
    /\ Made(t, Stored(t), <<>>, <<>>, 0)
    /\ UNCHANGED spent

Batch(r, details) == [Extract(r, 0) EXCEPT !.kind = "batch", !.todo = details]

\* The details that a list needs, and the batch of those that are there, unless all are a
\* success.
DetailParts(r, item) ==
    [i \in DOMAIN Exposures[item] |-> Spec2("EXPOSURE_DETAIL", Exposures[item][i], r)]
BatchOf(table, r, parts) ==
    LET details == [i \in DOMAIN parts |-> Newest(Existing(table, r, "EXPOSURE_DETAIL", parts[i].item))]
    IN IF \E i \in DOMAIN details : table[details[i]].status # "SUCCESS" THEN <<<<Batch(r, details)>>>> ELSE <<>>

PdcListMade(t, row) ==
    LET r == msgs[t].row
        new == NewRows(Missing(DetailParts(r, row.item)))
    IN Made(t, row, new, BatchOf(rows \o new, r, DetailParts(r, row.item)), 0)

\* handle_exposure_list; the row is always fetched again, as it has just been started.  An
\* answer without data leaves what the row held, and without that raises NoDataException.
PdcList(t) ==
    /\ Handles(t, "EXPOSURE_LIST")
    /\ \E row \in {Stored(t), RowOf(t)} :
        /\ IF row = Stored(t) THEN UNCHANGED spent ELSE Spend("empty")
        /\ IF row.content = 0 THEN Made(t, [row EXCEPT !.valid = "NO_DATA"], <<>>, <<>>, 0)
           ELSE PdcListMade(t, row)

\* PDCExposureBatchTask: the details are fetched, or fail after their last attempt; those
\* that are fetched are transformed.
PdcBatch(t) ==
    LET fetched == {d \in Listing(msgs[t].todo) : rows[d].status # "SUCCESS"}
        open == InOrder(fetched)
    IN
    /\ At(t, "batch", "queued")
    /\ \/ /\ rows' = [d \in Rows |-> IF d \notin fetched THEN rows[d]
                        ELSE [rows[d] EXCEPT !.status = "SUCCESS", !.content = world[rows[d].item].content]]
          /\ msgs' = Acked(t) \o [i \in DOMAIN open |-> Transform(open[i])]
          /\ UNCHANGED spent
       \/ /\ Error /\ fetched # {}
          /\ rows' = [d \in Rows |-> IF d \notin fetched THEN rows[d]
                        ELSE [rows[d] EXCEPT !.status = "FAILED"]]
          /\ msgs' = Acked(t)
    /\ UNCHANGED <<chords, world, ended, fed>>

\* get_schema_data: the polygon has to be a success, and the page has to have its data.
PolygonOf(d) ==
    LET list == rows[d].parent
    IN Newest(Existing(rows, rows[list].parent, "POLYGON", rows[list].item))
PdcReads(d) ==
    IF Good(PolygonOf(d)) THEN WithOwn(d, {PolygonOf(d)}) ELSE {}

\* PDCExtractionV2.retrigger, for the sweep, which leaves the status alone.
PdcTarget(r) == Extract(IF rows[r].type \in {"POLYGON", "EXPOSURE_DETAIL"} THEN rows[r].parent ELSE r, r)

\* Mutant of RetriggerStages: trigger_pdc_transform does not wait for the polygons.
RetriggerGroup(hazards, polygons, lists, details, trigger) ==
    <<hazards \o polygons \o lists \o details \o trigger>>

RetriggerStages(hazards, polygons, lists, details, trigger) ==
    <<hazards, polygons, lists, details, trigger>>

FailedOf(type) ==
    LET ids == InOrder({r \in Rows : rows[r].status = "FAILED" /\ rows[r].type = type})
    IN [i \in DOMAIN ids |-> Extract(ids[i], 0)]

\* run_pipeline_retrigger for the failed rows of PDC.
PdcPipelineRetrigger ==
    /\ Quiet /\ Retriggered("retriggers")
    /\ \E r \in Rows : rows[r].status = "FAILED"
    /\ Publish(msgs, chords,
               RetriggerStages(FailedOf("HAZARD"), FailedOf("POLYGON"), FailedOf("EXPOSURE_LIST"),
                               FailedOf("EXPOSURE_DETAIL"), <<[Extract(0, 0) EXCEPT !.kind = "trigger"]>>))
    /\ UNCHANGED <<rows, world, ended, fed>>

\* trigger_pdc_transform: the failed transforms of successful details.
PdcTrigger(t) ==
    LET again == InOrder({d \in ended : rows[d].status = "SUCCESS" /\ ~Reads(d)}) IN
    /\ At(t, "trigger", "queued")
    /\ msgs' = Acked(t) \o [i \in DOMAIN again |-> Transform(again[i])]
    /\ UNCHANGED <<rows, chords, world, ended, fed, spent>>

PdcStep(t) ==
    \/ Dispatch(t) \/ Finish(t) \/ WorkerLost(t)
    \/ PdcHazardFetched(t) \/ PdcHazardMade(t) \/ PdcFetch(t) \/ PdcList(t) \/ PdcBatch(t)
    \/ (Received(t) /\ RowOf(t).type # "EXPOSURE_LIST" /\ NoData(t))
    \/ RequestError(t) \/ RateLimited(t) \/ OtherError(t)
    \/ RunTransform(t, PdcReads(msgs[t].row)) \/ PdcTrigger(t)

PdcNext ==
    \/ \E t \in Messages : PdcStep(t)
    \/ PdcPipelineRetrigger \/ Retrigger("PENDING", [r \in Rows |-> PdcTarget(r)])

-----------------------------------------------------------------------------
(* However often a page or a list is redelivered, a page has one polygon and   *)
(* one list of a hazard and a list one row of an exposure (pdc/extract.py:134   *)
(* looks for the child first).  The next page has no such protection, and the   *)
(* sweep may run a page several times at once.                                 *)
PdcNoTwins ==
    spent.sweeps = 0 =>
        \A c, d \in Rows :
            (rows[c].type \in PdcChildTypes /\ rows[c].parent = rows[d].parent
                /\ rows[c].type = rows[d].type /\ rows[c].item = rows[d].item) => c = d

(* A list is fetched only when its polygon has been run to an end, unless the  *)
(* sweep has run the list: that is what the chord of the page is for.           *)
PdcPolygonFirst ==
    spent.sweeps = 0 =>
        \A c \in Rows : (rows[c].type = "EXPOSURE_LIST" /\ rows[c].runs > 0) =>
            LET p == Newest(Existing(rows, rows[c].parent, "POLYGON", rows[c].item))
            IN rows[p].runs > 1 \/ (rows[p].runs = 1 /\ rows[p].status # "IN_PROGRESS")

(* When all is quiet, a detail that a batch has fetched has been transformed    *)
(* with its polygon, if that could be fetched at all: at once, or, if the       *)
(* polygon came only with a retrigger, by the transforms this triggers last.    *)
(* A sweep, or a page that is redelivered, may run a polygon that was a success *)
(* again, and the transform fails that looks at it in the meantime. While a row *)
(* is left that failed, a retrigger of it is still to come: one that failed     *)
(* after a first retrigger had made the polygon good counts as well.            *)
PdcDetailFed ==
    (/\ Quiet /\ spent.sweeps = 0 /\ spent.losses = 0
     /\ \A r \in Rows : rows[r].status \notin {"FAILED", "ON_RETRY"}) =>
        \A d \in Rows :
            (rows[d].type = "EXPOSURE_DETAIL" /\ rows[d].runs = 0 /\ Good(d) /\ Good(PolygonOf(d)))
                => Reads(d)
=============================================================================
