------------------------ MODULE ExtractionTaskProofs ------------------------
(***************************************************************************)
(* Theorems about ExtractionTask, for any rows, any number of deliveries,  *)
(* callers and faults, and any retry limits.                               *)
(***************************************************************************)
EXTENDS ExtractionTask, TLAPS

\* The deliveries the actions build are well formed.
LEMMA DeliveryTypes ==
    /\ NoCopy \in [attempt : 0..MaxAttempt, stored : BOOLEAN]
    /\ Idle \in Delivery
    /\ \A r \in Rows, n \in 0..CeleryMaxRetries : Queued(r, n) \in Delivery
    /\ \A r \in Rows, n \in 0..CeleryMaxRetries, pc \in PC,
          a \in AllAnswers \cup {"none", "fatal"},
          c \in [attempt : 0..MaxAttempt, stored : BOOLEAN] :
              Holding(r, n, pc, a, c) \in Delivery
  <1>1. NoCopy \in [attempt : 0..MaxAttempt, stored : BOOLEAN]
    BY ExtractionAssumption DEF NoCopy
  <1>2. 0 \in 0..CeleryMaxRetries /\ {"idle", "queued"} \subseteq PC
    BY ExtractionAssumption DEF PC
  <1>. QED
    BY <1>1, <1>2 DEF Idle, Queued, Holding, Delivery

\* A delivery's fields, and its row while it is not idle.
LEMMA FieldTypes ==
    ASSUME TypeOK, NEW m \in Msgs
    PROVE  /\ msg[m] \in Delivery
           /\ msg[m].pc \in PC
           /\ msg[m].retries \in 0..CeleryMaxRetries
           /\ msg[m].ans \in AllAnswers \cup {"none", "fatal"}
           /\ msg[m].copy \in [attempt : 0..MaxAttempt, stored : BOOLEAN]
           /\ msg[m].copy.attempt \in 0..MaxAttempt
           /\ msg[m].copy.stored \in BOOLEAN
           /\ msg[m].pc # "idle" => msg[m].row \in Rows
  BY DEF TypeOK, Delivery

\* Moving a delivery on keeps it well formed and on its row.
LEMMA GotoTypes ==
    ASSUME TypeOK, NEW m \in Msgs, msg[m].pc # "idle", NEW pc \in PC,
           NEW a \in AllAnswers \cup {"none", "fatal"},
           NEW c \in [attempt : 0..MaxAttempt, stored : BOOLEAN]
    PROVE  /\ Keep(m, pc, a, c) \in Delivery
           /\ Keep(m, pc, a, c).row \in Rows
           /\ GotoWith(m, pc, a, c) \in [Msgs -> Delivery]
           /\ \A k \in Msgs : \/ GotoWith(m, pc, a, c)[k].pc = "idle"
                             \/ GotoWith(m, pc, a, c)[k].row \in Rows
  <1>1. Keep(m, pc, a, c) \in Delivery /\ Keep(m, pc, a, c).row \in Rows
    BY FieldTypes, DeliveryTypes DEF Keep, Holding
  <1>. QED
    BY <1>1 DEF GotoWith, TypeOK

\* The same, where nothing is kept.
LEMMA PlainGotoTypes ==
    ASSUME TypeOK, NEW m \in Msgs, msg[m].pc # "idle", NEW pc \in PC
    PROVE  /\ Goto(m, pc) \in [Msgs -> Delivery]
           /\ \A k \in Msgs : Goto(m, pc)[k].pc = "idle" \/ Goto(m, pc)[k].row \in Rows
  <1>1. Goto(m, pc) = GotoWith(m, pc, "none", NoCopy)
    BY DEF Goto, GotoWith
  <1>2. /\ "none" \in AllAnswers \cup {"none", "fatal"}
        /\ NoCopy \in [attempt : 0..MaxAttempt, stored : BOOLEAN]
    BY DeliveryTypes
  <1>. QED
    BY <1>1, <1>2, GotoTypes

\* The type of the deliveries, and that the live ones name rows.
MsgOK == /\ msg \in [Msgs -> Delivery]
         /\ \A k \in Msgs : msg[k].pc = "idle" \/ msg[k].row \in Rows

\* The steps of a worker on its own delivery.
LEMMA WorkType ==
    ASSUME TypeOK, NEW m \in Msgs, Work(m)
    PROVE  TypeOK'
  <1>. DEFINE r == msg[m].row
  <1>. USE DEF At
  <1>0. msg[m].pc # "idle" /\ r \in Rows
    BY FieldTypes
    DEF Work, Load, MarkAsStarted, FetchUrl, SaveType, StoreContent, QueueTransform,
        MarkSuccess, MarkEnded, MarkOnRetry, CountAttempt, Retry, RetryRefused, Ack
  <1>a. /\ \A pc \in PC : msg' = Goto(m, pc) => MsgOK'
        /\ \A pc \in PC, a \in AllAnswers \cup {"none", "fatal"},
             c \in [attempt : 0..MaxAttempt, stored : BOOLEAN] :
               msg' = GotoWith(m, pc, a, c) => MsgOK'
    <2>1. ASSUME NEW pc \in PC, msg' = Goto(m, pc)
          PROVE  MsgOK'
      BY <1>0, <2>1, PlainGotoTypes DEF MsgOK
    <2>2. ASSUME NEW pc \in PC, NEW a \in AllAnswers \cup {"none", "fatal"},
                 NEW c \in [attempt : 0..MaxAttempt, stored : BOOLEAN],
                 msg' = GotoWith(m, pc, a, c)
          PROVE  MsgOK'
      BY <1>0, <2>2, GotoTypes DEF MsgOK
    <2>. QED
      BY <2>1, <2>2
  <1>b. /\ msg[m].copy \in [attempt : 0..MaxAttempt, stored : BOOLEAN]
        /\ msg[m].copy.attempt \in 0..MaxAttempt /\ msg[m].copy.stored \in BOOLEAN
        /\ NoCopy \in [attempt : 0..MaxAttempt, stored : BOOLEAN]
    <2>1. /\ msg[m].copy \in [attempt : 0..MaxAttempt, stored : BOOLEAN]
          /\ msg[m].copy.attempt \in 0..MaxAttempt /\ msg[m].copy.stored \in BOOLEAN
      BY FieldTypes
    <2>. QED
      BY <2>1, DeliveryTypes
  <1>c. PC = {"fetching", "saving", "storing", "dispatching", "finishing", "loaded",
              "failing", "counting", "retrying", "done", "idle", "queued"}
    BY DEF PC, Running, Owing, Guarded
  <1>1. CASE Load(m)
    <2>1. [attempt |-> attempt[r], stored |-> stored[r]]
            \in [attempt : 0..MaxAttempt, stored : BOOLEAN]
      BY <1>0 DEF TypeOK
    <2>. QED
      BY <1>1, <1>a, <1>c, <2>1 DEF Load, TypeOK, rowVars, MsgOK
  <1>2. CASE MarkAsStarted(m)
    BY <1>0, <1>2, <1>a, <1>b, <1>c DEF MarkAsStarted, TypeOK, Status, MsgOK
  <1>3. ASSUME NEW a \in Answers, FetchUrl(m, a)
        PROVE  TypeOK'
    <2>1. MsgOK'
      BY <1>3, <1>a, <1>b, <1>c DEF FetchUrl, AllAnswers
    <2>. QED
      BY <1>3, <2>1 DEF FetchUrl, TypeOK, rowVars, MsgOK
  <1>4. CASE SaveType(m)
    <2>1. MsgOK'
      BY <1>4, <1>a, <1>b, <1>c DEF SaveType, AllAnswers
    <2>. QED
      BY <1>0, <1>b, <1>4, <2>1 DEF SaveType, FullSave, TypeOK, Status, MsgOK
  <1>5. ASSUME NEW kept \in BOOLEAN, StoreContent(m, kept)
        PROVE  TypeOK'
    BY <1>0, <1>5, <1>a, <1>b, <1>c DEF StoreContent, FullSave, TypeOK, Status, MsgOK
  <1>6. CASE QueueTransform(m) \/ MarkSuccess(m) \/ MarkEnded(m) \/ MarkOnRetry(m)
    <2>1. MsgOK'
      BY <1>6, <1>a, <1>c DEF QueueTransform, MarkSuccess, MarkEnded, MarkOnRetry
    <2>. QED
      BY <1>0, <1>6, <2>1
      DEF QueueTransform, MarkSuccess, MarkEnded, MarkOnRetry, TypeOK, Status, MsgOK
  <1>7. CASE CountAttempt(m)
    <2>1. attempt' \in [Rows -> 0..MaxAttempt]
      BY <1>0, <1>7, ExtractionAssumption DEF CountAttempt, TypeOK
    <2>. QED
      BY <1>7, <1>a, <1>c, <2>1 DEF CountAttempt, TypeOK, MsgOK
  <1>8. ASSUME NEW n \in Msgs, Retry(m, n)
        PROVE  TypeOK'
    <2>1. msg[m].retries + 1 \in 0..CeleryMaxRetries
      BY <1>8, FieldTypes, ExtractionAssumption DEF Retry
    <2>2. /\ Queued(r, msg[m].retries + 1) \in Delivery
          /\ Queued(r, msg[m].retries + 1).row = r
      BY <1>0, <2>1, DeliveryTypes DEF Queued, Holding
    <2>3. /\ Keep(m, "done", "none", NoCopy) \in Delivery
          /\ Keep(m, "done", "none", NoCopy).row \in Rows
      BY <1>0, <1>b, <1>c, GotoTypes
    <2>4. MsgOK'
      BY <1>0, <1>8, <2>2, <2>3 DEF Retry, TypeOK, MsgOK
    <2>. QED
      BY <1>8, <2>4 DEF Retry, TypeOK, rowVars, MsgOK
  <1>9. CASE RetryRefused(m) \/ Ack(m)
    <2>1. MsgOK'
      BY <1>9, DeliveryTypes DEF RetryRefused, Ack, TypeOK, MsgOK, Idle, Holding
    <2>. QED
      BY <1>0, <1>9, <2>1 DEF RetryRefused, Ack, TypeOK, rowVars, MsgOK
  <1>. QED
    BY <1>1, <1>2, <1>3, <1>4, <1>5, <1>6, <1>7, <1>8, <1>9 DEF Work

\* The steps of the callers.
LEMMA CallType ==
    ASSUME TypeOK, NEW r \in Rows, Call(r) \/ TriggerPendingExtraction(r)
    PROVE  TypeOK'
  <1>1. CASE RetriggerRead(r) \/ RetriggerReset(r) \/ TriggerPendingExtraction(r)
    BY <1>1 DEF RetriggerRead, RetriggerReset, TriggerPendingExtraction, TypeOK, Status,
                CallStep, rowVars
  <1>2. ASSUME NEW step \in Publishable, NEW m \in Msgs, Publish(step, r, m)
        PROVE  TypeOK'
    <2>1. Queued(r, 0) \in Delivery
      BY DeliveryTypes, ExtractionAssumption DEF Queued, PC
    <2>2. \A k \in Msgs : msg'[k].pc = "idle" \/ msg'[k].row \in Rows
      BY <1>2 DEF Publish, TypeOK, Queued, Holding
    <2>. QED
      BY <1>2, <2>1, <2>2 DEF Publish, TypeOK, rowVars
  <1>. QED
    BY <1>1, <1>2 DEF Call

\* The steps of users, of failing processes and of the broker.
LEMMA EnvironmentType ==
    ASSUME TypeOK, Environment
    PROVE  TypeOK'
  <1>1. ASSUME NEW r \in Rows, InitExtraction(r) \/ RetriggerPipeline(r)
        PROVE  TypeOK'
    BY <1>1 DEF InitExtraction, RetriggerPipeline, TypeOK, Status, CallStep, rowVars
  <1>2. ASSUME NEW r \in Rows, NEW step \in CallStep, CallerCrash(step, r)
        PROVE  TypeOK'
    BY <1>2, ExtractionAssumption DEF CallerCrash, TypeOK, CallStep, rowVars
  <1>3. ASSUME NEW m \in Msgs, Interrupted(m)
        PROVE  TypeOK'
    <2>1. msg[m].pc # "idle" 
      BY <1>3 DEF Interrupted, Guarded
    <2>2. "failing" \in PC /\ "fatal" \in AllAnswers \cup {"none", "fatal"}
      BY DEF PC, Running, Owing
    <2>3. MsgOK'
      BY <1>3, <2>1, <2>2, GotoTypes, DeliveryTypes DEF Interrupted, MsgOK
    <2>. QED
      BY <1>3, <2>3 DEF Interrupted, TypeOK, rowVars, MsgOK
  <1>4. ASSUME NEW m \in Msgs, WorkerLost(m) \/ TaskFailure(m)
        PROVE  TypeOK'
    <2>1. msg[m].row \in Rows /\ msg[m].retries \in 0..CeleryMaxRetries
      BY <1>4, FieldTypes DEF WorkerLost, TaskFailure, Running, Owing, Guarded
    <2>2. Queued(msg[m].row, msg[m].retries) \in Delivery
      BY <2>1, DeliveryTypes DEF Queued, PC
    <2>3. \A k \in Msgs : msg'[k].pc = "idle" \/ msg'[k].row \in Rows
      BY <1>4, <2>1 DEF WorkerLost, TaskFailure, TypeOK, Queued, Idle, Holding
    <2>. QED
      BY <1>4, <2>1, <2>2, <2>3, DeliveryTypes, ExtractionAssumption
      DEF WorkerLost, TaskFailure, TypeOK, rowVars
  <1>5. ASSUME NEW m \in Msgs, NEW n \in Msgs, ConnectionLost(m, n)
        PROVE  TypeOK'
    <2>1. msg[m].row \in Rows /\ msg[m].retries \in 0..CeleryMaxRetries
      BY <1>5, FieldTypes DEF ConnectionLost, Running, Owing, Guarded
    <2>2. Queued(msg[m].row, msg[m].retries) \in Delivery
      BY <2>1, DeliveryTypes DEF Queued, PC
    <2>3. \A k \in Msgs : msg'[k].pc = "idle" \/ msg'[k].row \in Rows
      BY <1>5, <2>1 DEF ConnectionLost, TypeOK, Queued, Holding
    <2>. QED
      BY <1>5, <2>2, <2>3, ExtractionAssumption DEF ConnectionLost, TypeOK, rowVars
  <1>. QED
    BY <1>1, <1>2, <1>3, <1>4, <1>5 DEF Environment

LEMMA InitType == Init => TypeOK
  BY DeliveryTypes, ExtractionAssumption DEF Init, TypeOK, Status, Idle, Holding

LEMMA NextType == TypeOK /\ [Next]_vars => TypeOK'
  <1>. SUFFICES ASSUME TypeOK, [Next]_vars
                PROVE  TypeOK'
    OBVIOUS
  <1>1. CASE Next
    BY <1>1, WorkType, CallType, EnvironmentType DEF Next
  <1>2. CASE UNCHANGED vars
    BY <1>2 DEF vars, TypeOK
  <1>. QED
    BY <1>1, <1>2

\* Every variable keeps its type, and a live delivery names a row, whatever
\* workers, callers and faults do.
THEOREM TypeCorrect == Spec => []TypeOK
  BY InitType, NextType, PTL DEF Spec

-----------------------------------------------------------------------------
(* A row that looks busy is in the hands of a delivery, or was abandoned.   *)
(* The invariant is inductive given TypeOK.  A step matters in one of two   *)
(* ways: it may change the status of a row, or take away the delivery that  *)
(* will answer for it.                                                      *)

InHand(r) ==
    status[r] \in {"IN_PROGRESS", "ON_RETRY"} => WillAnswer(r) \/ r \in abandoned

\* A delivery that goes on owing an answer answers for its row.
LEMMA StillOwing ==
    ASSUME NEW r, NEW m \in Msgs, msg'[m].row = r, msg'[m].pc \in Owing \cup {"queued"}
    PROVE  WillAnswer(r)'
  BY DEF WillAnswer

\* A step that leaves a row's status alone, forgets no abandoned row and takes no
\* delivery of that row out of Owing or the queue, keeps the row in hand.
LEMMA FrameInHand ==
    ASSUME NEW r \in Rows, InHand(r), status'[r] = status[r], abandoned \subseteq abandoned',
           \A k \in Msgs : msg[k].row = r /\ msg[k].pc \in Owing \cup {"queued"} =>
               \E n \in Msgs : msg'[n].row = r /\ msg'[n].pc \in Owing \cup {"queued"}
    PROVE  InHand(r)'
  BY DEF InHand, WillAnswer

\* The worker of delivery m, seen from row r.
LEMMA WorkInHand ==
    ASSUME TypeOK, NEW r \in Rows, InHand(r), NEW m \in Msgs, Work(m)
    PROVE  InHand(r)'
  <1>. USE DEF At
  <1>0. msg \in [Msgs -> Delivery] /\ status \in [Rows -> Status]
    BY DEF TypeOK
  <1>1. CASE msg[m].row # r
    <2>1. status'[r] = status[r] /\ abandoned \subseteq abandoned'
      BY <1>0, <1>1
      DEF Work, Load, MarkAsStarted, FetchUrl, SaveType, StoreContent, QueueTransform,
          MarkSuccess, MarkEnded, MarkOnRetry, CountAttempt, Retry, RetryRefused, Ack,
          FullSave, rowVars
    <2>2. \A k \in Msgs : msg[k].row = r /\ msg[k].pc # "idle" => msg'[k] = msg[k]
      BY <1>0, <1>1
      DEF Work, Load, MarkAsStarted, FetchUrl, SaveType, StoreContent, QueueTransform,
          MarkSuccess, MarkEnded, MarkOnRetry, CountAttempt, Retry, RetryRefused, Ack,
          Goto, GotoWith
    <2>. QED
      BY <2>1, <2>2, FrameInHand DEF Owing, Guarded
  <1>2. CASE msg[m].row = r
    <2>1. CASE \/ Load(m) \/ MarkAsStarted(m) \/ (\E a \in Answers : FetchUrl(m, a))
               \/ SaveType(m) \/ (\E kept \in BOOLEAN : StoreContent(m, kept))
               \/ QueueTransform(m) \/ MarkOnRetry(m) \/ CountAttempt(m)
      <3>1. msg'[m].row = r /\ msg'[m].pc \in Owing \cup {"queued"}
        BY <1>0, <1>2, <2>1
        DEF Load, MarkAsStarted, FetchUrl, SaveType, StoreContent, QueueTransform,
            MarkOnRetry, CountAttempt, Goto, GotoWith, Keep, Holding, Owing, Guarded
      <3>. QED
        BY <3>1, StillOwing DEF InHand
    <2>2. CASE MarkSuccess(m) \/ MarkEnded(m)
      BY <1>0, <1>2, <2>2 DEF MarkSuccess, MarkEnded, InHand
    <2>3. ASSUME NEW n \in Msgs, Retry(m, n)
          PROVE  InHand(r)'
      <3>1. m # n
        BY <2>3 DEF Retry
      <3>2. msg'[n].row = r /\ msg'[n].pc \in Owing \cup {"queued"}
        BY <1>0, <1>2, <2>3, <3>1 DEF Retry, Queued, Holding
      <3>. QED
        BY <3>2, StillOwing DEF InHand
    <2>4. CASE RetryRefused(m)
      BY <1>2, <2>4 DEF RetryRefused, InHand
    <2>5. CASE Ack(m)
      <3>1. \A k \in Msgs : msg[k].pc \in Owing \cup {"queued"} => msg'[k] = msg[k]
        BY <1>0, <2>5 DEF Ack, Owing, Guarded
      <3>. QED
        BY <2>5, <3>1, FrameInHand DEF Ack, rowVars
    <2>. QED
      BY <2>1, <2>2, <2>3, <2>4, <2>5 DEF Work
  <1>. QED
    BY <1>1, <1>2

\* A caller publishes into an idle slot, or writes PENDING.
LEMMA CallInHand ==
    ASSUME TypeOK, NEW r \in Rows, InHand(r),
           NEW s \in Rows, Call(s) \/ TriggerPendingExtraction(s)
    PROVE  InHand(r)'
  <1>0. msg \in [Msgs -> Delivery] /\ status \in [Rows -> Status]
    BY DEF TypeOK
  <1>1. CASE RetriggerRead(s) \/ TriggerPendingExtraction(s)
    BY <1>1, FrameInHand DEF RetriggerRead, TriggerPendingExtraction, rowVars
  <1>2. CASE RetriggerReset(s)
    <2>1. CASE r = s
      BY <1>0, <1>2, <2>1 DEF RetriggerReset, InHand
    <2>2. CASE r # s
      BY <1>0, <1>2, <2>2, FrameInHand DEF RetriggerReset
    <2>. QED
      BY <2>1, <2>2
  <1>3. ASSUME NEW step \in Publishable, NEW m \in Msgs, Publish(step, s, m)
        PROVE  InHand(r)'
    <2>1. \A k \in Msgs : msg[k].pc \in Owing \cup {"queued"} => msg'[k] = msg[k]
      BY <1>0, <1>3 DEF Publish, At, Owing, Guarded
    <2>. QED
      BY <1>3, <2>1, FrameInHand DEF Publish, rowVars
  <1>. QED
    BY <1>1, <1>2, <1>3 DEF Call

\* A fault requeues a delivery, duplicates it or abandons its row.
LEMMA EnvironmentInHand ==
    ASSUME TypeOK, NEW r \in Rows, InHand(r), Environment
    PROVE  InHand(r)'
  <1>0. msg \in [Msgs -> Delivery] /\ status \in [Rows -> Status]
    BY DEF TypeOK
  <1>1. ASSUME NEW s \in Rows, InitExtraction(s)
        PROVE  InHand(r)'
    <2>1. CASE r = s
      BY <1>0, <1>1, <2>1 DEF InitExtraction, InHand
    <2>2. CASE r # s
      BY <1>0, <1>1, <2>2, FrameInHand DEF InitExtraction
    <2>. QED
      BY <2>1, <2>2
  <1>2. ASSUME NEW s \in Rows, RetriggerPipeline(s)
        PROVE  InHand(r)'
    BY <1>2, FrameInHand DEF RetriggerPipeline, rowVars
  <1>3. ASSUME NEW s \in Rows, NEW step \in CallStep, CallerCrash(step, s)
        PROVE  InHand(r)'
    BY <1>3, FrameInHand DEF CallerCrash, rowVars
  <1>4. ASSUME NEW m \in Msgs, Interrupted(m) \/ WorkerLost(m)
        PROVE  InHand(r)'
    <2>1. \A k \in Msgs :
             msg[k].pc \in Owing \cup {"queued"} =>
                 msg'[k].row = msg[k].row /\ msg'[k].pc \in Owing \cup {"queued"}
      BY <1>0, <1>4 DEF Interrupted, WorkerLost, GotoWith, Keep, Queued, Holding, Owing, Guarded
    <2>. QED
      BY <1>4, <2>1, FrameInHand DEF Interrupted, WorkerLost, rowVars
  <1>5. ASSUME NEW m \in Msgs, TaskFailure(m)
        PROVE  InHand(r)'
    <2>1. CASE msg[m].row = r
      BY <1>5, <2>1 DEF TaskFailure, InHand
    <2>2. CASE msg[m].row # r
      <3>1. \A k \in Msgs : msg[k].row = r => msg'[k] = msg[k]
        BY <1>0, <1>5, <2>2 DEF TaskFailure
      <3>. QED
        BY <1>5, <3>1, FrameInHand DEF TaskFailure, rowVars
    <2>. QED
      BY <2>1, <2>2
  <1>6. ASSUME NEW m \in Msgs, NEW n \in Msgs, ConnectionLost(m, n)
        PROVE  InHand(r)'
    <2>1. \A k \in Msgs : msg[k].pc \in Owing \cup {"queued"} => msg'[k] = msg[k]
      BY <1>0, <1>6 DEF ConnectionLost, At, Owing, Guarded
    <2>. QED
      BY <1>6, <2>1, FrameInHand DEF ConnectionLost, rowVars
  <1>. QED
    BY <1>1, <1>2, <1>3, <1>4, <1>5, <1>6 DEF Environment

LEMMA StepInHand ==
    ASSUME TypeOK, NEW r \in Rows, InHand(r), [Next]_vars
    PROVE  InHand(r)'
  <1>1. CASE Next
    BY <1>1, WorkInHand, CallInHand, EnvironmentInHand DEF Next
  <1>2. CASE UNCHANGED vars
    BY <1>2, FrameInHand DEF vars
  <1>. QED
    BY <1>1, <1>2

\* A row whose status says that it is running or waiting for its retry has a
\* delivery that will write its outcome, or belonged to a delivery that Celery
\* acknowledged without one: no crash, redelivery, duplicate, sweep or retrigger
\* strands a row otherwise.
THEOREM NoRowStranded == Spec => []StrandedOnlyIfAbandoned
  <1>1. Init => StrandedOnlyIfAbandoned
    BY DEF Init, StrandedOnlyIfAbandoned
  <1>2. TypeOK /\ StrandedOnlyIfAbandoned /\ [Next]_vars => StrandedOnlyIfAbandoned'
    <2>1. StrandedOnlyIfAbandoned <=> \A r \in Rows : InHand(r)
      BY DEF StrandedOnlyIfAbandoned, InHand
    <2>2. StrandedOnlyIfAbandoned' <=> \A r \in Rows : InHand(r)'
      BY DEF StrandedOnlyIfAbandoned, InHand
    <2>. QED
      BY <2>1, <2>2, StepInHand
  <1>. QED
    BY <1>1, <1>2, TypeCorrect, PTL DEF Spec
-----------------------------------------------------------------------------
(* attempt_no and the retry counter of Celery.  A copy of the row that is   *)
(* written back in full must not take attempt_no back, which is so while no *)
(* other delivery of the row counts an attempt in between.                  *)

\* The places where a delivery holds a copy of its row.
Copying == {"loaded", "fetching", "saving", "storing"}

Counted(m) ==
    /\ msg[m].retries <= attempt[msg[m].row]
    /\ msg[m].pc \in Copying => msg[m].copy.attempt = attempt[msg[m].row]
    /\ At(m, "retrying") => msg[m].retries < attempt[msg[m].row] \/ attempt[msg[m].row] = MaxAttempt

AllCounted == \A m \in Msgs : msg[m].pc # "idle" => Counted(m)

\* A step that leaves attempt_no alone, and takes every delivery to a place where it
\* holds the same copy or none.
LEMMA FrameCounted ==
    ASSUME AllCounted, UNCHANGED attempt,
           \A k \in Msgs : msg'[k].pc # "idle" =>
               /\ msg[k].pc # "idle" /\ msg'[k].row = msg[k].row /\ msg'[k].retries = msg[k].retries
               /\ msg'[k].pc \in Copying =>
                    msg'[k].copy.attempt = attempt[msg[k].row] \/
                    (msg[k].pc \in Copying /\ msg'[k].copy = msg[k].copy)
               /\ msg'[k].pc = "retrying" => msg[k].pc = "retrying"
    PROVE  AllCounted'
  BY DEF AllCounted, Counted, At

\* A full save writes the attempt_no the row has.
LEMMA SaveKeepsAttempt ==
    ASSUME TypeOK, AllCounted, NEW m \in Msgs, msg[m].pc \in Copying, NEW keep, FullSave(m, keep)
    PROVE  UNCHANGED attempt
  <1>1. msg[m].row \in Rows /\ msg[m].copy.attempt = attempt[msg[m].row]
    BY FieldTypes DEF AllCounted, Counted, Copying
  <1>. QED
    BY <1>1 DEF FullSave, TypeOK

LEMMA WorkCounted ==
    ASSUME CeleryMaxRetries <= MaxAttempt, TypeOK, OneByOne, AllCounted, NEW m \in Msgs, Work(m)
    PROVE  AllCounted'
  <1>. DEFINE r == msg[m].row
  <1>0. msg \in [Msgs -> Delivery] /\ attempt \in [Rows -> 0..MaxAttempt]
    BY DEF TypeOK
  <1>1. CASE Load(m)
    BY <1>0, <1>1, FrameCounted DEF Load, At, rowVars, GotoWith, Keep, Holding, Copying
  <1>2. CASE MarkAsStarted(m)
    BY <1>0, <1>2, FrameCounted DEF MarkAsStarted, At, GotoWith, Keep, Holding, Copying
  <1>3. ASSUME NEW a \in Answers, FetchUrl(m, a)
        PROVE  AllCounted'
    BY <1>0, <1>3, FrameCounted DEF FetchUrl, At, rowVars, Goto, GotoWith, Keep, Holding, Copying
  <1>4. CASE SaveType(m)
    <2>1. UNCHANGED attempt
      BY <1>4, SaveKeepsAttempt DEF SaveType, At, Copying
    <2>. QED
      BY <1>0, <1>4, <2>1, FrameCounted DEF SaveType, At, Goto, GotoWith, Keep, Holding, Copying
  <1>5. ASSUME NEW kept \in BOOLEAN, StoreContent(m, kept)
        PROVE  AllCounted'
    <2>1. UNCHANGED attempt
      BY <1>5, SaveKeepsAttempt DEF StoreContent, At, Copying
    <2>. QED
      BY <1>0, <1>5, <2>1, FrameCounted DEF StoreContent, At, Goto, Keep, Holding, Copying
  <1>6. CASE QueueTransform(m) \/ MarkSuccess(m) \/ MarkEnded(m) \/ MarkOnRetry(m)
    BY <1>0, <1>6, FrameCounted
    DEF QueueTransform, MarkSuccess, MarkEnded, MarkOnRetry, At, Goto, Keep, Holding, Copying
  <1>7. CASE CountAttempt(m)
    <2>1. /\ msg[m].pc = "counting" /\ r \in Rows
          /\ attempt[r] \in 0..MaxAttempt /\ msg[m].retries \in 0..CeleryMaxRetries
          /\ msg[m].retries <= attempt[r]
      BY <1>0, <1>7, FieldTypes DEF CountAttempt, At, AllCounted, Counted
    <2>2. /\ attempt' \in [Rows -> 0..MaxAttempt]
          /\ \A s \in Rows : s # r => attempt'[s] = attempt[s]
          /\ attempt'[r] \in {attempt[r] + 1, MaxAttempt} /\ attempt'[r] >= attempt[r]
          /\ attempt'[r] > attempt[r] \/ attempt'[r] = MaxAttempt
      BY <1>0, <1>7, <2>1, ExtractionAssumption DEF CountAttempt
    <2>3. ASSUME NEW k \in Msgs, msg'[k].pc # "idle"
          PROVE  Counted(k)'
      <3>1. CASE k = m
        BY <1>0, <1>7, <2>1, <2>2, <3>1, ExtractionAssumption
        DEF CountAttempt, At, Goto, Keep, Holding, Counted, Copying
      <3>2. CASE k # m
        <4>1. msg'[k] = msg[k] /\ msg[k].row \in Rows /\ Counted(k)
              /\ msg[k].retries \in 0..CeleryMaxRetries /\ attempt[msg[k].row] \in 0..MaxAttempt
          BY <1>0, <1>7, <2>3, <3>2, FieldTypes DEF CountAttempt, Goto, AllCounted
        <4>2. CASE msg[k].row = r
          <5>1. At(k, "done")
            BY <2>1, <2>3, <3>2, <4>1, <4>2 DEF OneByOne, Live, At
          <5>. QED
            BY <2>1, <2>2, <4>1, <4>2, <5>1, ExtractionAssumption DEF Counted, At, Copying
        <4>3. CASE msg[k].row # r
          BY <2>2, <4>1, <4>3 DEF Counted, At
        <4>. QED
          BY <4>2, <4>3
      <3>. QED
        BY <3>1, <3>2
    <2>. QED
      BY <2>3 DEF AllCounted
  <1>8. ASSUME NEW n \in Msgs, Retry(m, n)
        PROVE  AllCounted'
    <2>1. /\ m # n /\ r \in Rows /\ msg[m].retries \in 0..CeleryMaxRetries
          /\ attempt[r] \in 0..MaxAttempt /\ msg[m].retries < CeleryMaxRetries
          /\ msg[m].retries < attempt[r] \/ attempt[r] = MaxAttempt
      BY <1>0, <1>8, FieldTypes DEF Retry, At, AllCounted, Counted
    <2>2. /\ msg'[m].pc = "done" /\ msg'[m].row = r /\ msg'[m].retries = msg[m].retries
          /\ msg'[n].pc = "queued" /\ msg'[n].row = r /\ msg'[n].retries = msg[m].retries + 1
          /\ \A k \in Msgs \ {m, n} : msg'[k] = msg[k]
          /\ attempt' = attempt
      BY <1>0, <1>8, <2>1 DEF Retry, Keep, Queued, Holding, rowVars
    <2>3. msg[m].retries + 1 <= attempt[r] /\ msg[m].retries <= attempt[r]
      BY <2>1, ExtractionAssumption
    <2>. QED
      BY <2>2, <2>3 DEF AllCounted, Counted, At, Copying
  <1>9. CASE RetryRefused(m) \/ Ack(m)
    BY <1>0, <1>9, FrameCounted DEF RetryRefused, Ack, At, rowVars, Idle, Holding, Copying
  <1>. QED
    BY <1>1, <1>2, <1>3, <1>4, <1>5, <1>6, <1>7, <1>8, <1>9 DEF Work

LEMMA OtherCounted ==
    ASSUME TypeOK, AllCounted,
           \/ \E s \in Rows : Call(s) \/ TriggerPendingExtraction(s)
           \/ Environment
    PROVE  AllCounted'
  <1>0. msg \in [Msgs -> Delivery] /\ attempt \in [Rows -> 0..MaxAttempt]
    BY DEF TypeOK
  <1>1. ASSUME NEW s \in Rows,
               \/ RetriggerRead(s) \/ RetriggerReset(s) \/ TriggerPendingExtraction(s)
               \/ InitExtraction(s) \/ RetriggerPipeline(s)
               \/ \E step \in CallStep : CallerCrash(step, s)
        PROVE  AllCounted'
    BY <1>1, FrameCounted
    DEF RetriggerRead, RetriggerReset, TriggerPendingExtraction, InitExtraction, RetriggerPipeline,
        CallerCrash, rowVars
  <1>2. ASSUME NEW s \in Rows, NEW step \in Publishable, NEW m \in Msgs, Publish(step, s, m)
        PROVE  AllCounted'
    <2>1. s \in Rows /\ attempt[s] >= 0
      BY <1>0, ExtractionAssumption
    <2>2. /\ msg'[m] = Queued(s, 0) /\ \A k \in Msgs \ {m} : msg'[k] = msg[k]
          /\ attempt' = attempt
      BY <1>0, <1>2 DEF Publish, rowVars
    <2>. QED
      BY <2>1, <2>2 DEF AllCounted, Counted, At, Queued, Holding, Copying
  <1>3. ASSUME NEW m \in Msgs, Interrupted(m) \/ WorkerLost(m) \/ TaskFailure(m)
        PROVE  AllCounted'
    BY <1>0, <1>3, FrameCounted
    DEF Interrupted, WorkerLost, TaskFailure, rowVars, GotoWith, Keep, Idle, Queued, Holding,
        Copying, Running, Owing, Guarded
  <1>4. ASSUME NEW m \in Msgs, NEW n \in Msgs, ConnectionLost(m, n)
        PROVE  AllCounted'
    <2>1. /\ msg'[n] = Queued(msg[m].row, msg[m].retries) /\ \A k \in Msgs \ {n} : msg'[k] = msg[k]
          /\ attempt' = attempt /\ msg[m].pc # "idle"
      BY <1>0, <1>4 DEF ConnectionLost, rowVars, Running, Owing, Guarded
    <2>. QED
      BY <2>1 DEF AllCounted, Counted, At, Queued, Holding, Copying
  <1>. QED
    BY <1>1, <1>2, <1>3, <1>4 DEF Call, Environment

\* attempt_no never falls behind Celery's retry counter as long as no two deliveries
\* of a row are at work at once, whatever the retry limits, crashes, sweeps and
\* retriggers; it saturates in the model no lower than the counter does.
THEOREM AttemptsCover ==
    ASSUME CeleryMaxRetries <= MaxAttempt
    PROVE  Spec => AttemptsCoverRetries
  <1>. DEFINE Covered == \A m \in Live : msg[m].retries <= attempt[msg[m].row]
  <1>1. Init => AllCounted
    BY DEF Init, AllCounted, Idle, Holding
  <1>2. TypeOK /\ OneByOne /\ AllCounted /\ [Next]_vars => AllCounted'
    <2>1. ASSUME AllCounted, UNCHANGED vars PROVE AllCounted'
      BY <2>1 DEF vars, AllCounted, Counted, At
    <2>. QED
      BY <2>1, WorkCounted, OtherCounted DEF Next
  <1>3. AllCounted => Covered
    BY DEF AllCounted, Counted, Live
  <1>. QED
    BY <1>1, <1>2, <1>3, TypeCorrect, PTL DEF Spec, AttemptsCoverRetries
=============================================================================
