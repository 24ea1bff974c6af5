--------------------------- MODULE LoadLockProofs ---------------------------
(***************************************************************************)
(* Proofs about LoadLock: for any number of runs, any expiry and any hard  *)
(* time limit below it, load_data is never inside the lock twice, and no   *)
(* run deletes a key that is not its own.                                  *)
(***************************************************************************)
EXTENDS LoadLock, TLAPS

\* A run remembers that it acquired the lock from cache.add to the end, and only
\* such a run gets as far as cache.delete.
StatusIsAcquired ==
    \A w \in Runs :
        /\ status[w] => pc[w] \in {"loading", "closing", "deleting"}
        /\ pc[w] = "deleting" => status[w]

IInv == TypeOK /\ KeyOutlivesHolder /\ StatusIsAcquired

\* LoadLock's type invariant, for any runs, expiry and limits (main/cache.py 17-32).
THEOREM TypeCorrect == Spec => []TypeOK
<1> USE LockAssumption DEF TypeOK, PC
<1>1. Init => TypeOK
    BY DEF Init
<1>2. TypeOK /\ [Next]_vars => TypeOK'
    <2> SUFFICES ASSUME TypeOK, [Next]_vars PROVE TypeOK'
        OBVIOUS
    <2>1. ASSUME NEW w \in Runs, Start(w) PROVE TypeOK'
        BY <2>1 DEF Start
    <2>2. ASSUME NEW w \in Runs, SetTimeout(w) PROVE TypeOK'
        BY <2>2 DEF SetTimeout
    <2>3. ASSUME NEW w \in Runs, Add(w) PROVE TypeOK'
        <3>1. ttl' \in 0..Expire /\ owner' \in Runs
            BY <2>3 DEF Add
        <3>2. pc' \in [Runs -> PC]
            BY <2>3 DEF Add
        <3>3. status' \in [Runs -> BOOLEAN]
            BY <2>3 DEF Add
        <3>4. age' \in [Runs -> 0..TimeLimit] /\ left' \in [Runs -> Int]
            BY <2>3 DEF Add
        <3> QED
            BY <3>1, <3>2, <3>3, <3>4
    <2>4. ASSUME NEW w \in Runs, EndLoad(w) PROVE TypeOK'
        BY <2>4 DEF EndLoad
    <2>5. ASSUME NEW w \in Runs, CheckRelease(w) PROVE TypeOK'
        <3>1. CASE pc' = [pc EXCEPT ![w] = "deleting"] /\ UNCHANGED <<age, left, status>>
            BY <2>5, <3>1 DEF CheckRelease
        <3>2. CASE Leave(w)
            BY <2>5, <3>2 DEF CheckRelease, Leave
        <3> QED
            BY <2>5, <3>1, <3>2 DEF CheckRelease
    <2>6. ASSUME NEW w \in Runs, Delete(w) PROVE TypeOK'
        BY <2>6 DEF Delete, Leave
    <2>7. ASSUME NEW w \in Runs, Killed(w) PROVE TypeOK'
        BY <2>7 DEF Killed, Leave
    <2>8. ASSUME Tick PROVE TypeOK'
        BY <2>8 DEF Tick
    <2>9. ASSUME UNCHANGED vars PROVE TypeOK'
        BY <2>9 DEF vars
    <2> QED
        BY <2>1, <2>2, <2>3, <2>4, <2>5, <2>6, <2>7, <2>8, <2>9 DEF Next, Work
<1> QED
    BY <1>1, <1>2, PTL DEF Spec

\* A holder would be older than the hard time limit if the key had expired.
LEMMA NoHolderWithoutKey ==
    ASSUME TypeOK, KeyOutlivesHolder, ttl = 0
    PROVE  \A v \in Runs : ~Holds(v)
<1> SUFFICES ASSUME NEW v \in Runs, Holds(v) PROVE FALSE
    OBVIOUS
<1>1. age[v] \in 0..TimeLimit
    BY DEF TypeOK
<1>2. age[v] >= Expire
    BY <1>1 DEF KeyOutlivesHolder, TypeOK
<1> QED
    BY <1>1, <1>2, LockAssumption

LEMMA StatusStep ==
    ASSUME TypeOK, StatusIsAcquired, [Next]_vars
    PROVE  StatusIsAcquired'
<1> USE DEF StatusIsAcquired, TypeOK, PC
<1>1. ASSUME NEW w \in Runs, Work(w) PROVE StatusIsAcquired'
    BY <1>1 DEF Work, Start, SetTimeout, Add, EndLoad, CheckRelease, Delete, Leave
<1>2. ASSUME NEW w \in Runs, Killed(w) PROVE StatusIsAcquired'
    BY <1>2 DEF Killed, Leave
<1>3. CASE Tick
    BY <1>3 DEF Tick
<1>4. CASE UNCHANGED vars
    BY <1>4 DEF vars
<1> QED
    BY <1>1, <1>2, <1>3, <1>4 DEF Next

\* Only time, an acquisition and a release change what the invariant says of the
\* key; in every other step the holders stay or become fewer.
LEMMA KeyStep ==
    ASSUME IInv, [Next]_vars
    PROVE  KeyOutlivesHolder'
<1> USE DEF IInv
<1> SUFFICES ASSUME NEW v \in Runs, Holds(v)'
             PROVE  (owner = v /\ ttl + age[v] >= Expire)'
    BY DEF KeyOutlivesHolder
<1>1. ASSUME Holds(v), UNCHANGED <<ttl, owner>>, age'[v] = age[v]
      PROVE  (owner = v /\ ttl + age[v] >= Expire)'
    BY <1>1 DEF KeyOutlivesHolder
<1>2. ASSUME NEW w \in Runs, Start(w) \/ SetTimeout(w) \/ EndLoad(w)
      PROVE  (owner = v /\ ttl + age[v] >= Expire)'
    <2>1. Holds(v)
        BY <1>2 DEF Start, SetTimeout, EndLoad, Holds, StatusIsAcquired, TypeOK
    <2> QED
        BY <1>1, <1>2, <2>1 DEF Start, SetTimeout, EndLoad
<1>3. ASSUME NEW w \in Runs, Add(w)
      PROVE  (owner = v /\ ttl + age[v] >= Expire)'
    <2>1. CASE ttl = 0
        <3>1. v = w
            BY <1>3, <2>1, NoHolderWithoutKey DEF Add, Holds, TypeOK
        <3>2. age[v] \in Nat
            BY LockAssumption DEF TypeOK
        <3>3. owner' = w /\ ttl' = Expire /\ age' = age
            BY <1>3, <2>1 DEF Add
        <3> QED
            BY <3>1, <3>2, <3>3, LockAssumption
    <2>2. CASE ttl > 0
        <3>1. pc' = [pc EXCEPT ![w] = "closing"] /\ UNCHANGED <<ttl, age, status, owner>>
            BY <1>3, <2>2 DEF Add
        <3>2. Holds(v)
            BY <3>1 DEF Holds, StatusIsAcquired, TypeOK
        <3> QED
            BY <1>1, <3>1, <3>2
    <2> QED
        BY <1>3, <2>1, <2>2 DEF Add
<1>4. ASSUME NEW w \in Runs, CheckRelease(w)
      PROVE  (owner = v /\ ttl + age[v] >= Expire)'
    <2>1. Holds(v) /\ age'[v] = age[v]
        BY <1>4 DEF CheckRelease, Leave, Holds, TypeOK
    <2> QED
        BY <1>1, <1>4, <2>1 DEF CheckRelease
<1>5. ASSUME NEW w \in Runs, Delete(w)
      PROVE  (owner = v /\ ttl + age[v] >= Expire)'
    \* The run that deletes was the only holder.
    <2>1. owner = w
        BY <1>5 DEF Delete, Holds, StatusIsAcquired, KeyOutlivesHolder
    <2>2. Holds(v) /\ v # w
        BY <1>5 DEF Delete, Leave, Holds, TypeOK
    <2> QED
        BY <2>1, <2>2 DEF KeyOutlivesHolder
<1>6. ASSUME NEW w \in Runs, Killed(w)
      PROVE  (owner = v /\ ttl + age[v] >= Expire)'
    <2>1. Holds(v) /\ age'[v] = age[v]
        BY <1>6 DEF Killed, Leave, Holds, TypeOK
    <2> QED
        BY <1>1, <1>6, <2>1 DEF Killed
<1>7. CASE Tick
    <2>1. Holds(v)
        BY <1>7 DEF Tick, Holds
    <2>2. age'[v] = age[v] + 1
        BY <1>7, <2>1 DEF Tick, Holds
    <2>3. age[v] \in Nat /\ ttl \in Nat
        BY LockAssumption DEF TypeOK
    <2>4. ttl' >= ttl - 1 /\ owner' = owner
        BY <1>7, <2>3 DEF Tick
    <2>5. ttl' \in Nat
        BY <1>7, <2>3 DEF Tick
    <2> QED
        BY <2>1, <2>2, <2>3, <2>4, <2>5, LockAssumption DEF KeyOutlivesHolder
<1>8. CASE UNCHANGED vars
    BY <1>1, <1>8 DEF vars, Holds
<1> QED
    BY <1>2, <1>3, <1>4, <1>5, <1>6, <1>7, <1>8 DEF Next, Work

LEMMA InductiveInvariant == Spec => []IInv
<1>1. Init => KeyOutlivesHolder /\ StatusIsAcquired
    BY DEF Init, KeyOutlivesHolder, StatusIsAcquired, Holds
<1>2. TypeOK /\ IInv /\ [Next]_vars => (KeyOutlivesHolder /\ StatusIsAcquired)'
    BY KeyStep, StatusStep DEF IInv
<1> QED
    BY <1>1, <1>2, TypeCorrect, PTL DEF Spec, IInv

\* For every lock_expire that outlives the hard time limit, two runs of load_data
\* are never both inside the lock (main/cache.py 17-32, tasks.py 18-26).
THEOREM LockExcludes == Spec => []MutualExclusion
<1>1. IInv => MutualExclusion
    BY DEF IInv, KeyOutlivesHolder, MutualExclusion
<1> QED
    BY <1>1, InductiveInvariant, PTL

\* The delete at the end of redis_lock removes the key its own run added, however
\* late it comes after the check of the deadline (main/cache.py 27-32).
THEOREM DeleteIsOwn == Spec => DeletesOwnKey
<1>1. IInv => \A w \in Runs : Delete(w) => owner = w /\ ttl > 0
    <2> SUFFICES ASSUME IInv, NEW w \in Runs, Delete(w) PROVE owner = w /\ ttl > 0
        OBVIOUS
    <2>1. Holds(w)
        BY DEF IInv, StatusIsAcquired, Delete, Holds
    <2>2. ttl # 0
        BY <2>1, NoHolderWithoutKey DEF IInv
    <2> QED
        BY <2>1, <2>2, LockAssumption DEF IInv, TypeOK, KeyOutlivesHolder
<1>2. IInv /\ [Next]_vars => [\A w \in Runs : Delete(w) => owner = w /\ ttl > 0]_vars
    BY <1>1
<1> QED
    BY <1>2, InductiveInvariant, PTL DEF Spec, DeletesOwnKey

-----------------------------------------------------------------------------

Inside == {w \in Runs : Holds(w)}

\* A step that takes one run out of the lock, or changes no holder, is an exit or
\* a stutter of OneLoader.
LEMMA ExitOrStutter ==
    ASSUME NEW w \in Runs, Inside' = Inside \ {w} \/ Inside' = Inside
    PROVE  [Loader!Next]_Inside
<1>1. CASE Inside' = Inside
    BY <1>1
<1>2. CASE Inside' = Inside \ {w} /\ w \in Inside
    BY <1>2 DEF Loader!Next, Loader!Leave, Inside
<1>3. CASE Inside' = Inside \ {w} /\ w \notin Inside
    BY <1>3
<1> QED
    BY <1>1, <1>2, <1>3

\* Every step of the lock is a step of OneLoader: an acquisition finds nobody
\* inside, because a holder would have kept the key.
LEMMA LoaderStep ==
    ASSUME IInv, [Next]_vars
    PROVE  [Loader!Next]_Inside
<1> USE DEF IInv
<1>1. ASSUME NEW w \in Runs, Start(w) \/ SetTimeout(w) \/ EndLoad(w)
      PROVE  [Loader!Next]_Inside
    <2>1. Inside' = Inside
        BY <1>1 DEF Start, SetTimeout, EndLoad, Inside, Holds, StatusIsAcquired, TypeOK
    <2> QED
        BY <2>1
<1>2. ASSUME NEW w \in Runs, Add(w)
      PROVE  [Loader!Next]_Inside
    <2>1. CASE ttl = 0
        <3>1. Inside = {}
            BY <2>1, NoHolderWithoutKey DEF Inside
        <3>2. status' = [status EXCEPT ![w] = TRUE] /\ pc' = [pc EXCEPT ![w] = "loading"]
            BY <1>2, <2>1 DEF Add
        <3>3. \A v \in Runs : Holds(v)' <=> v = w
            BY <3>1, <3>2 DEF Inside, Holds, TypeOK
        <3>4. Inside' = {w}
            BY <3>3 DEF Inside
        <3> QED
            BY <3>1, <3>4 DEF Loader!Next, Loader!Enter, Inside
    <2>2. CASE ttl > 0
        <3>1. pc[w] = "adding" /\ pc' = [pc EXCEPT ![w] = "closing"] /\ status' = status
            BY <1>2, <2>2 DEF Add
        <3>2. Inside' = Inside
            BY <3>1 DEF Inside, Holds, StatusIsAcquired, TypeOK
        <3> QED
            BY <3>2
    <2> QED
        BY <1>2, <2>1, <2>2 DEF Add
<1>3. ASSUME NEW w \in Runs, CheckRelease(w) \/ Delete(w) \/ Killed(w)
      PROVE  [Loader!Next]_Inside
    <2>1. CASE Leave(w)
        <3>1. \A v \in Runs : Holds(v)' <=> Holds(v) /\ v # w
            BY <2>1 DEF Leave, Holds, TypeOK
        <3>2. Inside' = Inside \ {w}
            BY <3>1 DEF Inside
        <3> QED
            BY <3>2, ExitOrStutter
    <2>2. CASE pc[w] = "closing" /\ pc' = [pc EXCEPT ![w] = "deleting"] /\ status' = status
        <3>1. Inside' = Inside
            BY <2>2 DEF Inside, Holds, TypeOK
        <3> QED
            BY <3>1
    <2> QED
        BY <1>3, <2>1, <2>2 DEF CheckRelease, Delete, Killed
<1>4. CASE Tick \/ UNCHANGED vars
    <2>1. Inside' = Inside
        BY <1>4 DEF Tick, vars, Inside, Holds
    <2> QED
        BY <2>1
<1> QED
    BY <1>1, <1>2, <1>3, <1>4 DEF Next, Work

\* With its key, its expiry and its deadline, redis_lock behaves as a lock that
\* admits a run only when nobody is inside: whatever the number of runs, the
\* expiry and the time limit below it (main/cache.py 15-32, tasks.py 18-26).
THEOREM LockRefines == Spec => ImplementsOneLoader
<1>1. Init => Loader!Init
    BY DEF Init, Loader!Init, Holds
<1>2. IInv /\ [Next]_vars => [Loader!Next]_{w \in Runs : Holds(w)}
    BY LoaderStep DEF Inside
<1> QED
    BY <1>1, <1>2, InductiveInvariant, PTL DEF Spec, ImplementsOneLoader, Loader!Spec
=============================================================================
