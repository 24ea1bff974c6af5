------------------------------- MODULE Sources -------------------------------
(***************************************************************************)
(* The sources that fan out, or walk through pages, put together: a          *)
(* behaviour is about the rows of one of them, as nothing is shared between   *)
(* sources but the worker.  The start is what the schedule of the source     *)
(* publishes.                                                               *)
(***************************************************************************)
EXTENDS CharterSource, GdacsSource, UsgsSource, PdcSource, PagedSources

CONSTANT Chosen \* the sources to start, a subset of SourceNames

VARIABLE source \* ExtractionData.source of all rows

SourceNames == {"DISASTERCHARTER", "GDACS", "USGS", "PDC"} \cup PagedTypes

ASSUME SourcesAssumption == Chosen \subseteq SourceNames

Init ==
    /\ source \in Chosen
    /\ \/ source = "DISASTERCHARTER" /\ CharterInit
       \/ source = "GDACS" /\ GdacsInit
       \/ source = "USGS" /\ UsgsInit
       \/ source = "PDC" /\ PdcInit
       \/ source \in PagedTypes /\ PagedInit(source)

Next ==
    /\ \/ source = "DISASTERCHARTER" /\ CharterNext
       \/ source = "GDACS" /\ GdacsNext
       \/ source = "USGS" /\ UsgsNext
       \/ source = "PDC" /\ PdcNext
       \/ source \in PagedTypes /\ PagedNext
    /\ UNCHANGED source

SourcesSpec == Init /\ [][Next]_<<source, vars>>
=============================================================================
