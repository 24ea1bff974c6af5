------------------------------ MODULE LoadLock ------------------------------
(***************************************************************************)
(* CeleryLock.redis_lock (main/cache.py) as apps/etl/tasks.py uses it: runs*)
(* of the load_data task, started by Celery beat or redelivered after a    *)
(* crash, take a lock that is a Redis key with an expiry, and give it back *)
(* unless they believe that it has expired.                                *)
(*                                                                         *)
(* Time is discrete and relative: the lock has a remaining life, a run has *)
(* an age, and the deadline time.monotonic() is compared with is the time  *)
(* left until it.  Redis and the workers' clocks tick at the same rate.    *)
(***************************************************************************)
EXTENDS Integers

CONSTANTS
    Runs,      \* runs of load_data that may overlap
    Expire,    \* lock_expire: three hours
    Margin,    \* the seconds redis_lock keeps clear of the expiry: 3
    TimeLimit  \* CELERY_TASK_TIME_LIMIT: two hours

\* tasks.py 20 lets the lock outlive the hard time limit of settings.py 207.
ASSUME LockAssumption ==
    /\ Expire \in Nat /\ Margin \in Nat /\ TimeLimit \in Nat
    /\ Margin < Expire
    /\ TimeLimit < Expire

VARIABLES
    ttl,    \* remaining life of the key, 0 when it is absent
    pc,     \* where each run stands
    age,    \* time since the run started
    left,   \* time until timeout_at, negative once it has passed
    status, \* what cache.add returned to the run
    owner   \* history: the run whose cache.add made the key last

vars == <<ttl, pc, age, left, status, owner>>

PC == {"idle", "started", "adding", "loading", "closing", "deleting"}

\* The runs between a successful cache.add and the end of redis_lock.
Holds(w) == status[w] /\ pc[w] \in {"loading", "closing", "deleting"}

Init ==
    /\ ttl = 0
    /\ pc = [w \in Runs |-> "idle"]
    /\ age = [w \in Runs |-> 0]
    /\ left = [w \in Runs |-> 0]
    /\ status = [w \in Runs |-> FALSE]
    /\ owner \in Runs

\* The run is over, in whatever way: nothing of it is remembered.
Leave(w) ==
    /\ pc' = [pc EXCEPT ![w] = "idle"]
    /\ age' = [age EXCEPT ![w] = 0]
    /\ left' = [left EXCEPT ![w] = 0]
    /\ status' = [status EXCEPT ![w] = FALSE]

-----------------------------------------------------------------------------

\* A worker receives the message of load_data.
Start(w) ==
    /\ pc[w] = "idle"
    /\ pc' = [pc EXCEPT ![w] = "started"]
    /\ UNCHANGED <<ttl, age, left, status, owner>>

\* timeout_at is computed before the key is added.
SetTimeout(w) ==
    /\ pc[w] = "started"
    /\ pc' = [pc EXCEPT ![w] = "adding"]
    /\ left' = [left EXCEPT ![w] = Expire - Margin]
    /\ UNCHANGED <<ttl, age, status, owner>>

\* Mutant of Add: get followed by set, not the atomic add.
AddOverwriting(w) ==
    /\ pc[w] = "adding"
    /\ ttl' = Expire
    /\ owner' = w
    /\ status' = [status EXCEPT ![w] = TRUE]
    /\ pc' = [pc EXCEPT ![w] = "loading"]
    /\ UNCHANGED <<age, left>>

\* cache.add fails if the key exists; load_data then returns at once.
Add(w) ==
    /\ pc[w] = "adding"
    /\ \/ /\ ttl = 0
          /\ ttl' = Expire
          /\ owner' = w
          /\ status' = [status EXCEPT ![w] = TRUE]
          /\ pc' = [pc EXCEPT ![w] = "loading"]
       \/ /\ ttl > 0
          /\ pc' = [pc EXCEPT ![w] = "closing"]
          /\ UNCHANGED <<ttl, status, owner>>
    /\ UNCHANGED <<age, left>>

\* call_command("load_data_to_stac") returns or raises: the finally block runs.
EndLoad(w) ==
    /\ pc[w] = "loading"
    /\ pc' = [pc EXCEPT ![w] = "closing"]
    /\ UNCHANGED <<ttl, age, left, status, owner>>

\* Mutant of CheckRelease: the finally block forgets that the add may have failed.
CheckReleaseAnyones(w) ==
    /\ pc[w] = "closing"
    /\ \/ /\ left[w] > 0
          /\ pc' = [pc EXCEPT ![w] = "deleting"]
          /\ UNCHANGED <<age, left, status>>
       \/ /\ left[w] <= 0
          /\ Leave(w)
    /\ UNCHANGED <<ttl, owner>>

\* The lock is released only before timeout_at, and only if it was acquired.
CheckRelease(w) ==
    /\ pc[w] = "closing"
    /\ \/ /\ left[w] > 0 /\ status[w]
          /\ pc' = [pc EXCEPT ![w] = "deleting"]
          /\ UNCHANGED <<age, left, status>>
       \/ /\ left[w] <= 0 \/ ~status[w]
          /\ Leave(w)
    /\ UNCHANGED <<ttl, owner>>

\* cache.delete, some time after the check: it deletes whatever key is there.
Delete(w) ==
    /\ pc[w] = "deleting"
    /\ ttl' = 0
    /\ Leave(w)
    /\ UNCHANGED owner

\* The worker is lost or killed, and the key stays.
Killed(w) ==
    /\ pc[w] # "idle"
    /\ Leave(w)
    /\ UNCHANGED <<ttl, owner>>

\* Mutant of Tick: the key is added without an expiry.
TickForever ==
    /\ \A w \in Runs : pc[w] = "idle" \/ age[w] < TimeLimit
    /\ age' = [w \in Runs |-> IF pc[w] = "idle" THEN 0 ELSE age[w] + 1]
    /\ left' = [w \in Runs |-> IF pc[w] \in {"idle", "started"} THEN 0 ELSE left[w] - 1]
    /\ UNCHANGED <<ttl, pc, status, owner>>

\* Mutant of Tick: there is no hard time limit.
TickUnlimited ==
    /\ ttl' = IF ttl > 0 THEN ttl - 1 ELSE 0
    /\ age' = [w \in Runs |-> IF pc[w] = "idle" THEN 0 ELSE age[w] + 1]
    /\ left' = [w \in Runs |-> IF pc[w] \in {"idle", "started"} THEN 0 ELSE left[w] - 1]
    /\ UNCHANGED <<pc, status, owner>>

\* Time passes, but no run survives the hard time limit.
Tick ==
    /\ \A w \in Runs : pc[w] = "idle" \/ age[w] < TimeLimit
    /\ ttl' = IF ttl > 0 THEN ttl - 1 ELSE 0
    /\ age' = [w \in Runs |-> IF pc[w] = "idle" THEN 0 ELSE age[w] + 1]
    /\ left' = [w \in Runs |-> IF pc[w] \in {"idle", "started"} THEN 0 ELSE left[w] - 1]
    /\ UNCHANGED <<pc, status, owner>>

Work(w) ==
    \/ Start(w)
    \/ SetTimeout(w)
    \/ Add(w)
    \/ EndLoad(w)
    \/ CheckRelease(w)
    \/ Delete(w)

Next ==
    \/ \E w \in Runs : Work(w) \/ Killed(w)
    \/ Tick

Spec == Init /\ [][Next]_vars

\* Time passes, and Celery's pool kills a run that has reached the hard time
\* limit; no run has to get anywhere by itself.
FairSpec ==
    /\ Spec
    /\ WF_vars(Tick)
    /\ \A w \in Runs : WF_vars(age[w] = TimeLimit /\ Killed(w))

-----------------------------------------------------------------------------

TypeOK ==
    /\ ttl \in 0..Expire
    /\ pc \in [Runs -> PC]
    /\ age \in [Runs -> 0..TimeLimit]
    /\ left \in [Runs -> Int]
    /\ status \in [Runs -> BOOLEAN]
    /\ owner \in Runs

\* load_data never runs twice at once (tasks.py 18-26, the warning "Load to STAC
\* server already running").
MutualExclusion ==
    \A v, w \in Runs : Holds(v) /\ Holds(w) => v = w

\* Why: the key is as old as its holder at most, so it outlives the holder.
KeyOutlivesHolder ==
    \A w \in Runs : Holds(w) => owner = w /\ ttl + age[w] >= Expire

\* cache.delete never removes a key that some other run has added, or none
\* (main/cache.py 25-31).
DeletesOwnKey ==
    [][\A w \in Runs : Delete(w) => owner = w /\ ttl > 0]_vars

\* Whatever becomes of its holders, killed ones included, the lock is free again
\* and again: an interrupted load blocks the later ones for a while only
\* (lock_expire, tasks.py 20).
LockIsFreedAgain == []<>(ttl = 0)

\* redis_lock as a lock without keys and clocks; the runs inside are its holders.
Loader == INSTANCE OneLoader WITH inside <- {w \in Runs : Holds(w)}

\* Every step of key, deadline and kill is an entry into the empty lock, an exit of
\* one run, or nothing to a caller: no entry overlaps or takes over another
\* (main/cache.py 15-32 as tasks.py 18-26 relies on it).
ImplementsOneLoader == Loader!Spec
=============================================================================
