----------------------------- MODULE PagedSources -----------------------------
(***************************************************************************)
(* The sources that walk through pages and transform each row by itself:    *)
(* CEMS (extraction/sources/cems/extract.py), whose pages list activations, *)
(* IFRC events (ifrc_event/extract.py), and those of one request: GFD, EM-  *)
(* DAT, GLIDE, IDU, GIDD, IBTrACS and DesInventar (ExtractionTask has their  *)
(* steps one by one).  The row of a next page has no parent, and there is   *)
(* no chord.  The response is stored first; what follows from it is a step. *)
(***************************************************************************)
EXTENDS FanOut

CONSTANTS
    CemsPages, \* the pages of CEMS, the first one first, each at its own URL
    Codes,     \* page of CEMS -> the activations it lists
    IfrcPages, \* the pages of IFRC events
    OnePage,   \* the one page of the sources that make one request
    PagedDays  \* bound: how often the schedule starts at the first page

ASSUME PagedAssumption ==
    /\ PagedDays \in Nat
    /\ {CemsPages, IfrcPages, OnePage} \subseteq Seq(Items) \ {<<>>}
    /\ \A walk \in {CemsPages, IfrcPages} : \A i, j \in DOMAIN walk : walk[i] = walk[j] => i = j
    /\ Len(OnePage) = 1
    /\ \A p \in Listing(CemsPages) : Codes[p] \in Seq(Items)

Singles == {"GFD", "EMDAT", "GLIDE", "IDU", "GIDD", "IBTRACS", "DESINVENTAR"}
PagedTypes == Singles \cup {"CEMS", "IFRC"}
Walks ==
    [s \in PagedTypes |-> CASE s = "CEMS" -> CemsPages [] s = "IFRC" -> IfrcPages [] OTHER -> OnePage]

PagedInit(walk) == InitRows(<<Row(walk, Walks[walk][1], 0)>>)

\* The schedule starts again, or a command does, for DesInventar.  Bound: everything
\* published before has been handled.
PagedNextDay ==
    /\ Quiet
    /\ Cardinality({r \in Rows : rows[r].item = rows[1].item}) < PagedDays
    /\ rows' = Append(rows, Row(rows[1].type, rows[1].item, 0))
    /\ msgs' = NewGroup(1)
    /\ UNCHANGED <<chords, world, ended, fed, spent>>

\* Whether a handler goes on with an answer whose body is empty: storing returns the row in
\* any case, which counts as a success, and those that read the response have an older one
\* if the row has been run before.
GoesOnWithout(row) == row.type = "CEMS_DETAIL" \/ row.type \in Singles \/ row.content # 0

\* The fetch of EM-DAT (_extraction_fetch_graphql) knows no rate limits, and that of GFD
\* nothing else: the Earth Engine client makes a RateLimitError of all that goes wrong.
MayFail(type, how) == <<type, how>> \notin {<<"EMDAT", "rate limit">>, <<"GFD", "request">>}

\* Whether a handler returns when the fetch returns False, which that of GFD never does.
ChecksFetch(type) == type \notin {"EMDAT", "GFD"}

\* The response is stored.  An answer without data leaves what the row held.
PagedFetched(t) ==
    /\ Received(t) /\ RowOf(t).type \in PagedTypes \cup {"CEMS_DETAIL"}
    /\ \E row \in {Stored(t), RowOf(t)} :
        /\ \/ row = Stored(t) /\ UNCHANGED spent
           \/ row = RowOf(t) /\ GoesOnWithout(row) /\ Spend("empty")
        /\ rows' = [Started(t) EXCEPT ![msgs[t].row].content = row.content,
                                      ![msgs[t].row].valid = row.valid]
    /\ msgs' = Move(t, "stored")
    /\ UNCHANGED <<chords, world, ended, fed>>

Followers(walk, page) ==
    {Walks[walk][i + 1] : i \in {j \in 1..(Len(Walks[walk]) - 1) : Walks[walk][j] = page}}

\* The handler goes on: it adds rows, and publishes transforms and the tasks of the rows.
PagedGoesOn(t, new, transforms) ==
    /\ rows' = rows \o new
    /\ msgs' = Move(t, "sent") \o transforms \o NewGroup(Len(new))
    /\ UNCHANGED <<chords, world, ended, fed, spent>>

NextPageRow(t) ==
    LET next == Followers(RowOf(t).type, RowOf(t).item)
    IN IF next = {} THEN <<>> ELSE <<Row(RowOf(t).type, CHOOSE p \in next : TRUE, 0)>>

\* CEMSExtraction.handle_type_query.
CemsQuery(t) ==
    LET codes == Codes[RowOf(t).item]
        details == [i \in DOMAIN codes |-> Row("CEMS_DETAIL", codes[i], msgs[t].row)]
    IN
    /\ At(t, "extract", "stored") /\ RowOf(t).type = "CEMS"
    /\ PagedGoesOn(t, details \o NextPageRow(t), <<>>)

SameUrl(r) == {o \in Rows : rows[o].type = rows[r].type /\ rows[o].item = rows[r].item}

\* Mutant of CemsPrevious: the row itself is not excluded.
CemsPreviousOrSelf(r) == {o \in SameUrl(r) : \A other \in SameUrl(r) : other <= o}

\* The newest other row of the URL, which may be younger than this one.
CemsPrevious(r) == {o \in SameUrl(r) \ {r} : \A other \in SameUrl(r) \ {r} : other <= o}

\* handle_type_detail, after the fetch.
CemsDetail(t) ==
    LET r == msgs[t].row
        unchanged == \E o \in CemsPrevious(r) : rows[o].content # 0 /\ rows[o].content = rows[r].content
    IN
    /\ At(t, "extract", "stored") /\ RowOf(t).type = "CEMS_DETAIL"
    /\ PagedGoesOn(t, <<>>, IF unchanged THEN <<>> ELSE <<Transform(r)>>)

\* Mutant of IfrcQuery: a page that has not changed is left at once.
IfrcQueryIfNew(t) ==
    /\ At(t, "extract", "stored") /\ RowOf(t).type = "IFRC"
    /\ IF RowOf(t).valid = "NO_CHANGE" THEN PagedGoesOn(t, <<>>, <<>>)
       ELSE PagedGoesOn(t, NextPageRow(t), <<Transform(msgs[t].row)>>)

\* IFRCEventExtractionV2.handle_type_query: the page is transformed, changed or not, and
\* the walk goes on.
IfrcQuery(t) ==
    /\ At(t, "extract", "stored") /\ RowOf(t).type = "IFRC"
    /\ PagedGoesOn(t, NextPageRow(t), <<Transform(msgs[t].row)>>)

\* handle_type_query of the sources of one request: the response is transformed.
SingleQuery(t, source) ==
    /\ At(t, "extract", "stored") /\ RowOf(t).type = source
    /\ PagedGoesOn(t, <<>>, <<Transform(msgs[t].row)>>)

GfdQuery(t) == SingleQuery(t, "GFD")
EmdatQuery(t) == SingleQuery(t, "EMDAT")
GlideQuery(t) == SingleQuery(t, "GLIDE")
IduQuery(t) == SingleQuery(t, "IDU")
GiddQuery(t) == SingleQuery(t, "GIDD")
IbtracsQuery(t) == SingleQuery(t, "IBTRACS")
DesinventarQuery(t) == SingleQuery(t, "DESINVENTAR")

PagedGoesWrong(t) ==
    /\ Received(t)
    /\ \/ OtherError(t)
       \/ MayFail(RowOf(t).type, "rate limit") /\ RateLimited(t)
       \/ MayFail(RowOf(t).type, "request") /\ RequestError(t)
       \/ ChecksFetch(RowOf(t).type) /\ NoData(t)

PagedStep(t) ==
    \/ Finish(t) \/ WorkerLost(t)
    \/ PagedFetched(t) \/ CemsQuery(t) \/ CemsDetail(t) \/ IfrcQuery(t)
    \/ GfdQuery(t) \/ EmdatQuery(t) \/ GlideQuery(t) \/ IduQuery(t) \/ GiddQuery(t)
    \/ IbtracsQuery(t) \/ DesinventarQuery(t)
    \/ PagedGoesWrong(t)
    \/ RunTransform(t, WithOwn(msgs[t].row, {}))

PagedNext ==
    \/ PagedNextDay
    \/ \E t \in Messages : PagedStep(t)
    \/ \E status \in {"FAILED", "PENDING"} : Retrigger(status, Itself)
    \/ \E i \in Items : Change(i)

-----------------------------------------------------------------------------
\* What the rows of these sources hold when all is quiet, if the remote side has always
\* answered: a worker that is lost after a response was stored and runs the row again
\* without an answer leaves a success that nothing has read.
Settled(types) ==
    {r \in Rows : Quiet /\ spent.empty = 0 /\ rows[r].type \in types /\ Good(r)}

(* No page and no transform is lost: what a page holds has been read, and the   *)
(* page after it has a row, whatever was retried or redelivered.                *)
PagesFollowed ==
    \A r \in Settled(Singles \cup {"IFRC"}) :
        /\ Reads(r)
        /\ \A p \in Followers(rows[r].type, rows[r].item) : \E o \in Rows : rows[o].item = p

(* The comparison of hashes that lets CEMS skip a transform (cems/extract.py:   *)
(* 112) loses no content: what a row holds has been read from a row of its URL.  *)
(* Lost workers and retriggers, which bring two rows of one URL together, void   *)
(* this: CemsSkipsOnlyRead is about those.  So would an activation that the      *)
(* pages list twice.                                                             *)
CemsContentRead(r) == \E f \in fed : f[1] \in SameUrl(r) /\ f[2] = rows[r].content
CemsContentFed ==
    (spent.losses = 0 /\ spent.retriggers = 0) =>
        \A r \in Settled({"CEMS_DETAIL"}) : CemsContentRead(r)

(* CHANGELOG.md:13 says that transforms of unchanged content are skipped,       *)
(* "avoiding redundant geocoding": the content of a row that was skipped has    *)
(* been read.  Two rows of one URL that are extracted at the same time, as those *)
(* of two days that failed and are retriggered together, find each other's hash *)
(* and are both skipped.                                                        *)
CemsSkipsOnlyRead == \A r \in Settled({"CEMS_DETAIL"}) : CemsContentRead(r)
=============================================================================
