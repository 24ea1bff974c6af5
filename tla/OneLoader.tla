----------------------------- MODULE OneLoader ------------------------------
(***************************************************************************)
(* What load_data (apps/etl/tasks.py) expects of CeleryLock.redis_lock: a  *)
(* run is let in while nobody is inside, and comes out again by itself, by *)
(* being killed, or because its lock would have expired.  There is no key, *)
(* no clock and no deadline here.  LoadLock implements this module.        *)
(***************************************************************************)
CONSTANT Runs

VARIABLE inside  \* the runs within the with statement that acquired the lock

Init == inside = {}

Enter(w) ==
    /\ inside = {}
    /\ inside' = {w}

Leave(w) ==
    /\ w \in inside
    /\ inside' = inside \ {w}

Next == \E w \in Runs : Enter(w) \/ Leave(w)

Spec == Init /\ [][Next]_inside
=============================================================================
