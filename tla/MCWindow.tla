------------------------------- MODULE MCWindow -------------------------------
(* Two and a half days of two points in time each.  GDACS gets five of the six  *)
(* events below: two of them cannot be told apart, so that with a limit of two   *)
(* each refinement is reached.  The other sources get an event of every kind at  *)
(* every point in time.                                                         *)
EXTENDS LatestWindow

Event(at, level, country, id) == [at |-> at, level |-> level, country |-> country, id |-> id]

MCLevels == <<"red", "green">>
MCCountries == <<"x", "y">>
MCGdacsEvents ==
    {Event(1, "red", "x", 1), Event(1, "red", "x", 2), Event(1, "red", "y", 3),
     Event(2, "green", "x", 4), Event(3, "red", "x", 5), Event(4, "green", "y", 6)}
MCAllEvents == {Event(at, Levels[i], "x", 1) : at \in 0..MaxTime, i \in DOMAIN Levels}
MCWorlds == [j \in JobNames |-> IF j = "GDACS" THEN {MCGdacsEvents \ {e} : e \in MCGdacsEvents} ELSE {MCAllEvents}]
===============================================================================
