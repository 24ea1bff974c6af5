------------------------------ MODULE UsgsSource ------------------------------
(***************************************************************************)
(* USGS (extraction/sources/usgs/extract.py, transform/sources/usgs.py): a  *)
(* QUERY lists earthquakes, the DETAIL of one may name loss and alert files, *)
(* and the chord of those runs the transform of the DETAIL, which is queued  *)
(* directly when there are none.  A status that is neither 200, 204, 403 nor *)
(* 429 is not an error here: the row is a success without content.           *)
(***************************************************************************)
EXTENDS FanOut

CONSTANTS
    Quakes,    \* the earthquakes a query answers that have a detail page
    Products   \* earthquake -> its files: records of type LOSSE or ALERTS and item

ASSUME UsgsAssumption ==
    /\ "query" \in Items /\ Quakes \in Seq(Items)
    /\ \A v \in Listing(Quakes) : Products[v] \in Seq([type : {"LOSSE", "ALERTS"}, item : Items])

UsgsInit == InitRows(<<Row("USGS_QUERY", "query", 0)>>)

\* handle_type_query; the half that splits a query is never reached, as a 400 has already
\* ended it.
UsgsQuery(t) ==
    /\ Handles(t, "USGS_QUERY")
    /\ Made(t, Stored(t), [i \in DOMAIN Quakes |-> Row("USGS_DETAIL", Quakes[i], msgs[t].row)],
            <<NewGroup(Len(Quakes))>>, 0)
    /\ UNCHANGED spent

LossChord(t, files) == <<NewGroup(files), <<Transform(msgs[t].row)>>>>

\* A retriggered LOSSE is run without fetching the event again; a retriggered ALERTS is not,
\* and all files get new rows.
UsgsPartial(t) ==
    RowOf(t).type = "USGS_DETAIL" /\ msgs[t].failed # 0 /\ rows[msgs[t].failed].type = "LOSSE"

\* handle_type_detail.
UsgsDetail(t) ==
    LET r == msgs[t].row
        failed == msgs[t].failed
        files == Products[rows[r].item]
    IN
    /\ Handles(t, "USGS_DETAIL")
    /\ \/ /\ UsgsPartial(t)
          /\ Made(t, RowOf(t), <<>>, <<<<Extract(failed, failed)>>, <<Transform(r)>>>>, 0)
       \/ /\ ~UsgsPartial(t)
          /\ Made(t, Stored(t), [i \in DOMAIN files |-> Row(files[i].type, files[i].item, r)],
                  LossChord(t, Len(files)), 0)
    /\ UNCHANGED spent

\* handle_type_losse, for ALERTS too.
UsgsFile(t) ==
    /\ Received(t) /\ RowOf(t).type \in {"LOSSE", "ALERTS"}
    /\ Made(t, Stored(t), <<>>, <<>>, 0)
    /\ UNCHANGED spent

\* Mutant of UsgsTarget: every row runs its own task, as those of other sources do.
UsgsItself(r) == Extract(r, r)

\* USGSExtraction.retrigger.
UsgsTarget(r) == Extract(IF rows[r].type \in {"LOSSE", "ALERTS"} THEN rows[r].parent ELSE r, r)

\* get_schema_data reads all good files.
UsgsReads(r) == WithOwn(r, {c \in Children(r) : Good(c)})

UsgsStep(t) ==
    \/ Dispatch(t) \/ Finish(t) \/ WorkerLost(t)
    \/ UsgsQuery(t) \/ UsgsDetail(t) \/ UsgsFile(t)
    \/ Received(t) /\ ~UsgsPartial(t) /\ FetchGoesWrong(t)
    \/ RunTransform(t, UsgsReads(msgs[t].row))

UsgsNext ==
    \/ \E t \in Messages : UsgsStep(t)
    \/ \E status \in {"FAILED", "PENDING"} : Retrigger(status, [r \in Rows |-> UsgsTarget(r)])

-----------------------------------------------------------------------------
(* An earthquake that was extracted is transformed with every file that could  *)
(* be fetched, whatever was retriggered since: when all is quiet its transform  *)
(* has been delivered after the last of them, or a file's row says that it did  *)
(* not end well (usgs/extract.py:141 and 261 retrigger it through the parent).   *)
(* Lost workers void this.                                                      *)
UsgsQuakeFed ==
    (Quiet /\ spent.losses = 0) =>
        \A d \in Rows : (rows[d].type = "USGS_DETAIL" /\ Good(d)) =>
            \/ \E c \in Children(d) : rows[c].status # "SUCCESS"
            \/ d \in ended /\ \A c \in UsgsReads(d) : Reads(c)
=============================================================================
