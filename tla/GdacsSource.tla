------------------------------ MODULE GdacsSource ------------------------------
(***************************************************************************)
(* GDACS (extraction/sources/gdacs/extract.py, transform/sources/gdacs.py): *)
(* a QUERY lists events, the DETAIL of an event lists its episodes, every   *)
(* EPISODE is the first task of a chain whose second task fetches the       *)
(* GEOMETRY that the first has made a row for, and the chains are the       *)
(* header of a chord whose body is the transform of the DETAIL.  IMPACT     *)
(* rows are extracted by the task of the episode, inside its own delivery.  *)
(***************************************************************************)
EXTENDS FanOut

CONSTANTS
    GdacsQueries, \* the kinds of query to start with, "query" or "history"
    Listed,     \* the events that the queries answer, in order
    Episodes,   \* event -> its episodes
    ShapeOf,    \* episode -> its geometry file
    ImpactOf    \* episode -> its impact files, none or one

ASSUME GdacsAssumption ==
    /\ GdacsQueries \subseteq Items /\ Listed \in Seq(Items)
    /\ \A v \in Listing(Listed) :
        /\ Episodes[v] \in Seq(Items)
        /\ \A p \in Listing(Episodes[v]) : ShapeOf[p] \in Items /\ ImpactOf[p] \in Seq(Items)

\* Item "history" is a query with skip_detail_duplicates.
GdacsInit == \E query \in GdacsQueries : InitRows(<<Row("GDACS_QUERY", query, 0)>>)

GdacsChain(r) == [Extract(r, 0) EXCEPT !.next = TRUE]

\* _detail_extraction_exists.
DetailExists(event) == \E r \in Rows : rows[r].type = "GDACS_DETAIL" /\ rows[r].item = event

\* handle_type_query.
GdacsQuery(t) ==
    /\ Handles(t, "GDACS_QUERY")
    /\ LET known == {i \in DOMAIN Listed : RowOf(t).item = "history" /\ DetailExists(Listed[i])}
           found == Only(Listed, DOMAIN Listed \ known)
       IN Made(t, Stored(t), [i \in DOMAIN found |-> Row("GDACS_DETAIL", found[i], msgs[t].row)],
               <<NewGroup(Len(found))>>, 0)
    /\ UNCHANGED spent

\* Mutant of EpisodeChord: the transform is one of the group.
EpisodeGroup(t, episodes) ==
    <<[i \in 1..episodes |-> GdacsChain(Len(rows) + i)] \o <<Transform(msgs[t].row)>>>>

EpisodeChord(t, episodes) ==
    <<[i \in 1..episodes |-> GdacsChain(Len(rows) + i)], <<Transform(msgs[t].row)>>>>

\* A retriggered EPISODE or GEOMETRY is run without fetching the event again.
GdacsPartial(t) ==
    /\ RowOf(t).type = "GDACS_DETAIL" /\ msgs[t].failed # 0
    /\ rows[msgs[t].failed].type \in {"EPISODE", "GEOMETRY"}

\* handle_type_detail.
GdacsDetail(t) ==
    LET r == msgs[t].row
        failed == msgs[t].failed
        first == IF rows[failed].type = "EPISODE" THEN GdacsChain(failed) ELSE Extract(failed, 0)
        episodes == Episodes[rows[r].item]
    IN
    /\ Handles(t, "GDACS_DETAIL")
    /\ \/ /\ GdacsPartial(t)
          /\ Made(t, RowOf(t), <<>>, <<<<first>>, <<Transform(r)>>>>, 0)
       \/ /\ ~GdacsPartial(t)
          /\ Made(t, Stored(t), [i \in DOMAIN episodes |-> Row("EPISODE", episodes[i], r)],
                  EpisodeChord(t, Len(episodes)), 0)
    /\ UNCHANGED spent

\* The rows that handle_type_episode makes, when its impacts have ended with a status.
EpisodeRows(t, status) ==
    LET r == msgs[t].row
        impacts == ImpactOf[rows[r].item]
    IN <<Row("GEOMETRY", ShapeOf[rows[r].item], r)>> \o
       [i \in DOMAIN impacts |->
            [Row("IMPACT", impacts[i], r) EXCEPT
                !.status = status, !.runs = 1,
                !.content = IF status = "SUCCESS" THEN world[impacts[i]].content ELSE 0,
                !.attempts = IF status = "ON_RETRY" THEN 1 ELSE 0]]

\* handle_type_episode: the result is the GEOMETRY row.
GdacsEpisode(t) ==
    /\ Handles(t, "EPISODE")
    /\ Made(t, Stored(t), EpisodeRows(t, "SUCCESS"), <<>>, Len(rows) + 1)
    /\ UNCHANGED spent

\* The impact is extracted by calling the task: retry() raises its exception, which ends
\* the episode's own attempt as if the fetch of the episode had failed.
ImpactFails(t) ==
    LET stored(status) ==
            [rows EXCEPT ![msgs[t].row] = Stored(t)] \o EpisodeRows(t, status)
    IN
    /\ Handles(t, "EPISODE") /\ ImpactOf[RowOf(t).item] # <<>>
    /\ \/ Error /\ \E limit \in {RetryLimit, RateLimit} : RetryOr(t, limit, stored("ON_RETRY"))
       \/ Spend("unknown") /\ rows' = Mark(stored("FAILED"), t, "FAILED") /\ Raise(t)
    /\ UNCHANGED <<world, ended, fed>>

\* handle_type_geometry.
GdacsGeometry(t) ==
    /\ Handles(t, "GEOMETRY")
    /\ Made(t, Stored(t), <<>>, <<>>, 0)
    /\ UNCHANGED spent

\* SoftTimeLimitExceeded fails the row, and the task is published again, outside of its
\* chain and chord, which do not hear of it (Ignore).
SoftTimeLimit(t) ==
    /\ Received(t) \/ msgs[t].pc \in {"made", "sent"}
    /\ Spend("timeouts")
    /\ rows' = SetStatus(t, "FAILED")
    /\ msgs' = Append(Acked(t), Extract(msgs[t].row, msgs[t].failed))
    /\ UNCHANGED <<chords, world, ended, fed>>

\* GdacsExtraction.retrigger.
GdacsTarget(r) ==
    LET up(x) == rows[x].parent IN
    CASE rows[r].type \in {"GDACS_QUERY", "GDACS_DETAIL"} -> Extract(r, r)
      [] rows[r].type = "EPISODE" -> Extract(up(r), r)
      [] OTHER -> Extract(up(up(r)), r)

\* get_schema_data: of every good episode the newest good geometry and impact.
NewestGood(episode, type) ==
    LET good == {c \in Children(episode) : rows[c].type = type /\ rows[c].status = "SUCCESS"}
    IN {c \in good : \A o \in good : o <= c}
GdacsReads(r) ==
    LET episodes == {e \in Children(r) : Good(e)}
        parts == episodes \cup UNION {NewestGood(e, type) : e \in episodes, type \in {"GEOMETRY", "IMPACT"}}
    IN WithOwn(r, {c \in parts : rows[c].content # 0})

GdacsStep(t) ==
    \/ Dispatch(t) \/ Finish(t) \/ WorkerLost(t) \/ SoftTimeLimit(t) \/ StartWithoutRow(t)
    \/ GdacsQuery(t) \/ GdacsDetail(t) \/ GdacsEpisode(t) \/ ImpactFails(t) \/ GdacsGeometry(t)
    \/ Received(t) /\ ~GdacsPartial(t) /\ FetchGoesWrong(t)
    \/ RunTransform(t, GdacsReads(msgs[t].row))

GdacsNext ==
    \/ \E t \in Messages : GdacsStep(t)
    \/ \E status \in {"FAILED", "PENDING"} : Retrigger(status, [r \in Rows |-> GdacsTarget(r)])

-----------------------------------------------------------------------------
(* The transform of an event is never dropped, nor runs too early, without a   *)
(* trace: when all is quiet an event that was extracted has its transform      *)
(* delivered, with everything its successful episodes hold and a geometry that  *)
(* was run for each, or a row under it says that it did not work out.  Lost     *)
(* workers and soft time limits (handled at gdacs/extract.py:340) void this.    *)
GdacsEventFed ==
    (Quiet /\ spent.losses = 0 /\ spent.timeouts = 0) =>
        \A d \in Rows : (rows[d].type = "GDACS_DETAIL" /\ Good(d)) =>
            \/ \E c \in Below(d) : \/ rows[c].status \in {"FAILED", "ON_RETRY"}
                                   \/ rows[c].status = "PENDING" /\ rows[c].runs > 0
                                   \/ rows[c].status = "SUCCESS" /\ rows[c].content = 0
            \/ /\ d \in ended
               /\ \A c \in GdacsReads(d) : Reads(c)
               /\ \A e \in Children(d) : Good(e) => NewestGood(e, "GEOMETRY") # {}
=============================================================================
