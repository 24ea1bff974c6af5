----------------------------- MODULE ContentProofs -----------------------------
(***************************************************************************)
(* Proofs about what the sources promise of the contents they store, for any *)
(* pages, files, limits and bounds.  Of sources of one request and of IFRC:   *)
(* when all is quiet, each content has been read by a transform, and the next *)
(* page has its row.  Of CEMS: skipping what has not changed loses nothing.   *)
(* Then what the chords of Celery count, and of Disaster Charter: the chords  *)
(* that its transforms wait in do run them.                                  *)
(***************************************************************************)
EXTENDS SourcesProofs

-----------------------------------------------------------------------------
(* Messages: no chord and no chain, and no row with two deliveries.          *)

LEMMA Joined ==
    ASSUME NEW S, NEW s \in Seq(S), NEW u \in Seq(S)
    PROVE  /\ DOMAIN (s \o u) = 1..(Len(s) + Len(u)) /\ Len(s) \in Nat /\ Len(u) \in Nat
           /\ DOMAIN s = 1..Len(s) /\ DOMAIN u = 1..Len(u)
           /\ \A i \in 1..Len(s) : (s \o u)[i] = s[i]
           /\ \A i \in (Len(s) + 1)..(Len(s) + Len(u)) : (s \o u)[i] = u[i - Len(s)]
    OBVIOUS

OnRow(t, r) == msgs[t].kind = "extract" /\ msgs[t].row = r

Simple == DOMAIN chords = {} /\ \A t \in Messages : ~msgs[t].next

Alone == \A s, t \in Messages : (msgs[s].kind = "extract" /\ OnRow(t, msgs[s].row)) => s = t

\* A message is changed, and more are published.
MovesOn(t, m, more) == msgs' = [msgs EXCEPT ![t] = m] \o more

LEMMA MessagesLeft ==
    ASSUME msgs \in Seq(Message), NEW t \in Messages, msgs' = Acked(t)
    PROVE  /\ \A i \in DOMAIN msgs' : \E o \in Messages \ {t} : msgs'[i] = msgs[o]
           /\ Keeps(t)
           /\ (\A o \in Messages : ~msgs[o].next) => \A o \in DOMAIN msgs' : ~msgs'[o].next
           /\ Alone => Alone'
<1>1. /\ \A i \in DOMAIN msgs' : \E o \in Messages \ {t} : msgs'[i] = msgs[o]
      /\ \A o \in Messages \ {t} : \E i \in DOMAIN msgs' : msgs'[i] = msgs[o]
    <2>1. /\ \A i \in DOMAIN Acked(t) : \E o \in Messages \ {t} : Acked(t)[i] = msgs[o]
          /\ \A o \in Messages \ {t} : \E i \in DOMAIN Acked(t) : Acked(t)[i] = msgs[o]
        BY AckedMessages
    <2> QED
        BY <2>1
<1>2. Len(msgs) \in Nat /\ Messages = 1..Len(msgs) /\ t \in 1..Len(msgs)
    BY DEF Messages
<1>3. DOMAIN msgs' = 1..(Len(msgs) - 1) /\ \A i \in 1..(Len(msgs) - 1) : msgs'[i] = msgs[IF i < t THEN i ELSE i + 1]
    BY DEF Acked
<1>4. ASSUME Alone, NEW i \in DOMAIN msgs', NEW j \in DOMAIN msgs',
             msgs'[i].kind = "extract", msgs'[j].kind = "extract", msgs'[j].row = msgs'[i].row
      PROVE  i = j
    <2>1. PICK a : a = IF i < t THEN i ELSE i + 1
        OBVIOUS
    <2>2. PICK b : b = IF j < t THEN j ELSE j + 1
        OBVIOUS
    <2>3. a \in Messages /\ b \in Messages /\ msgs'[i] = msgs[a] /\ msgs'[j] = msgs[b]
        BY <1>2, <1>3, <2>1, <2>2
    <2>4. a = b
        BY <1>4, <2>3 DEF Alone, OnRow
    <2> QED
        BY <1>2, <1>3, <2>1, <2>2, <2>4
<1>5. Alone => Alone'
    BY <1>4 DEF Alone, OnRow, Messages
<1> QED
    BY <1>1, <1>5 DEF Keeps

LEMMA MessagesMoved ==
    ASSUME msgs \in Seq(Message), NEW t \in Messages, NEW m \in Message, NEW more \in Seq(Message),
           MovesOn(t, m, more)
    PROVE  /\ Messages \subseteq DOMAIN msgs' /\ msgs'[t] = m
           /\ \A o \in Messages \ {t} : msgs'[o] = msgs[o]
           /\ \A i \in DOMAIN msgs' \ Messages : i - Len(msgs) \in DOMAIN more /\ msgs'[i] = more[i - Len(msgs)]
           /\ \A j \in DOMAIN more : /\ Len(msgs) + j \in DOMAIN msgs' \ Messages
                                     /\ msgs'[Len(msgs) + j] = more[j]
<1>1. PICK moved : moved = [msgs EXCEPT ![t] = m]
    OBVIOUS
<1>2. /\ moved \in Seq(Message) /\ Len(moved) = Len(msgs) /\ Len(msgs) \in Nat /\ Messages = 1..Len(msgs)
      /\ moved[t] = m /\ \A o \in Messages \ {t} : moved[o] = msgs[o]
    BY <1>1 DEF Messages
<1>3. /\ DOMAIN msgs' = 1..(Len(msgs) + Len(more)) /\ Len(more) \in Nat /\ DOMAIN more = 1..Len(more)
      /\ \A i \in 1..Len(msgs) : msgs'[i] = moved[i]
      /\ \A i \in (Len(msgs) + 1)..(Len(msgs) + Len(more)) : msgs'[i] = more[i - Len(msgs)]
    <2>1. PICK all : all = moved \o more
        OBVIOUS
    <2>2. moved \in Seq(Message) /\ more \in Seq(Message) /\ Len(moved) = Len(msgs)
        BY <1>2
    <2>3. /\ DOMAIN all = 1..(Len(moved) + Len(more)) /\ Len(more) \in Nat /\ DOMAIN more = 1..Len(more)
          /\ \A i \in 1..Len(moved) : all[i] = moved[i]
          /\ \A i \in (Len(moved) + 1)..(Len(moved) + Len(more)) : all[i] = more[i - Len(moved)]
        <3>1. /\ DOMAIN all = 1..(Len(moved) + Len(more)) /\ Len(more) \in Nat /\ DOMAIN more = 1..Len(more)
              /\ \A i \in 1..Len(moved) : all[i] = moved[i]
            BY ONLY <2>1, <2>2, Joined
        <3>2. \A i \in (Len(moved) + 1)..(Len(moved) + Len(more)) : all[i] = more[i - Len(moved)]
            BY ONLY <2>1, <2>2, Joined
        <3> QED
            BY ONLY <3>1, <3>2
    <2>4. msgs' = all
        BY <1>1, <2>1 DEF MovesOn
    <2> QED
        BY <2>2, <2>3, <2>4
<1>4. ASSUME NEW i \in DOMAIN msgs' \ Messages
      PROVE  i - Len(msgs) \in DOMAIN more /\ msgs'[i] = more[i - Len(msgs)]
    BY <1>2, <1>3
<1>5. ASSUME NEW j \in DOMAIN more
      PROVE  Len(msgs) + j \in DOMAIN msgs' \ Messages /\ msgs'[Len(msgs) + j] = more[j]
    <2>1. /\ Len(msgs) + j \in (Len(msgs) + 1)..(Len(msgs) + Len(more)) /\ (Len(msgs) + j) - Len(msgs) = j
          /\ Len(msgs) + j \in DOMAIN msgs' \ Messages
        BY <1>2, <1>3
    <2> QED
        BY <1>3, <2>1
<1> QED
    BY <1>2, <1>3, <1>4, <1>5

\* Only rows that are new, and transforms, get new messages.
LEMMA AloneMoved ==
    ASSUME msgs \in Seq(Message), NEW t \in Messages, NEW m \in Message, NEW more \in Seq(Message),
           MovesOn(t, m, more), Alone, rows \in Seq(RowRecord),
           \A o \in Messages : msgs[o].row <= Len(rows),
           OnRow(t, m.row), m.kind = "extract",
           \A j \in DOMAIN more : more[j].kind = "extract" => more[j].row > Len(rows),
           \A i, j \in DOMAIN more :
                (more[i].kind = "extract" /\ more[j].kind = "extract" /\ more[i].row = more[j].row) => i = j
    PROVE  Alone'
<1>1. /\ Messages \subseteq DOMAIN msgs' /\ msgs'[t] = m
      /\ \A o \in Messages \ {t} : msgs'[o] = msgs[o]
      /\ \A i \in DOMAIN msgs' \ Messages : i - Len(msgs) \in DOMAIN more /\ msgs'[i] = more[i - Len(msgs)]
    <2>1. /\ msgs \in Seq(Message) /\ t \in Messages /\ m \in Message /\ more \in Seq(Message)
          /\ MovesOn(t, m, more)
        OBVIOUS
    <2> QED
        BY ONLY <2>1, MessagesMoved
<1>2. \A o \in Messages : msgs'[o].row = msgs[o].row /\ msgs'[o].kind = msgs[o].kind
    BY <1>1 DEF OnRow
<1>3. \A o \in DOMAIN msgs' \ Messages : msgs'[o].kind = "extract" => msgs'[o].row > Len(rows)
    BY <1>1
<1>4. \A o \in Messages : msgs[o].row \in Nat
    <2>1. \A o \in Messages : msgs[o] \in Message
        BY DEF Messages
    <2> QED
        BY <2>1 DEF Message, MessageWith
<1>5. ASSUME NEW i \in DOMAIN msgs', NEW j \in DOMAIN msgs',
             msgs'[i].kind = "extract", msgs'[j].kind = "extract", msgs'[j].row = msgs'[i].row
      PROVE  i = j
    <2>1. Len(rows) \in Nat /\ Len(msgs) \in Nat /\ DOMAIN msgs' \subseteq Nat
        <3>1. [msgs EXCEPT ![t] = m] \in Seq(Message)
            BY DEF Messages
        <3> QED
            BY <3>1 DEF MovesOn
    <2>2. CASE i \in Messages /\ j \in Messages
        BY <1>2, <1>5, <2>2 DEF Alone, OnRow
    <2>3. CASE i \in Messages /\ j \notin Messages
        <3>1. msgs'[i].row <= Len(rows) /\ msgs'[i].row \in Nat
            BY <1>2, <1>4, <2>3
        <3>2. msgs'[j].row > Len(rows)
            BY <1>3, <1>5, <2>3
        <3> QED
            BY <1>5, <2>1, <3>1, <3>2
    <2>4. CASE i \notin Messages /\ j \in Messages
        <3>1. msgs'[j].row <= Len(rows) /\ msgs'[j].row \in Nat
            BY <1>2, <1>4, <2>4
        <3>2. msgs'[i].row > Len(rows)
            BY <1>3, <1>5, <2>4
        <3> QED
            BY <1>5, <2>1, <3>1, <3>2
    <2>5. CASE i \notin Messages /\ j \notin Messages
        <3>1. /\ i - Len(msgs) \in DOMAIN more /\ msgs'[i] = more[i - Len(msgs)]
              /\ j - Len(msgs) \in DOMAIN more /\ msgs'[j] = more[j - Len(msgs)]
            BY <1>1, <2>5
        <3>2. i - Len(msgs) = j - Len(msgs)
            BY <1>5, <3>1
        <3> QED
            BY <2>1, <3>2
    <2> QED
        BY <2>2, <2>3, <2>4, <2>5
<1> QED
    BY <1>5 DEF Alone, OnRow, Messages
-----------------------------------------------------------------------------
(* What a step does to a row and its messages.                               *)

\* Nothing that is used up comes back.
Later ==
    /\ {spent.empty, spent.losses, spent.retriggers} \subseteq Nat
    /\ spent'.empty >= spent.empty /\ spent'.losses >= spent.losses
    /\ spent'.retriggers >= spent.retriggers

LEMMA SpendLater ==
    ASSUME IsWorld, NEW what \in Faults, Spend(what)
    PROVE  /\ Later /\ (what = "empty" => spent'.empty > 0) /\ (what = "losses" => spent'.losses > 0)
           /\ (what \in {"errors", "unknown", "changes"} => spent'.empty = spent.empty)
<1>1. spent \in [Faults \cup {"retriggers", "sweeps"} -> Nat] /\ spent' = [spent EXCEPT ![what] = @ + 1]
    BY DEF IsWorld, Spend
<1>2. spent'[what] = spent[what] + 1 /\ spent[what] \in Nat /\ \A f \in Faults \cup {"retriggers", "sweeps"} :
            f # what => spent'[f] = spent[f]
    BY <1>1
<1>3. spent.empty \in Nat /\ spent.losses \in Nat /\ spent.retriggers \in Nat
    BY <1>1 DEF Faults
<1> QED
    BY <1>2, <1>3 DEF Later, Faults

LEMMA StaysLater ==
    ASSUME IsWorld, UNCHANGED spent
    PROVE  Later
<1>1. spent \in [Faults \cup {"retriggers", "sweeps"} -> Nat]
    BY DEF IsWorld
<1>2. spent.empty \in Nat /\ spent.losses \in Nat /\ spent.retriggers \in Nat
    BY <1>1 DEF Faults
<1> QED
    BY <1>2 DEF Later

\* The other rows stay, and the row holds what it has held.
Untouched(t) ==
    /\ DOMAIN rows' = Rows /\ \A o \in Rows \ {msgs[t].row} : rows'[o] = rows[o]
    /\ \A o \in Rows : rows'[o].type = rows[o].type /\ rows'[o].item = rows[o].item
Marked(t) == Untouched(t) /\ UNCHANGED fed /\ \A o \in Rows : rows'[o].content = rows[o].content

LEMMA StatusSet ==
    ASSUME Typed, NEW t \in Messages, msgs[t].row \in Rows, NEW status \in Status,
           rows' = SetStatus(t, status), UNCHANGED fed
    PROVE  Marked(t) /\ rows'[msgs[t].row].status = status
<1>1. PICK r : r = msgs[t].row
    OBVIOUS
<1>2. IsTable(rows) /\ rows \in Seq(RowRecord) /\ r \in DOMAIN rows /\ rows[r] \in RowRecord
    BY <1>1 DEF Typed, IsTable, Rows
<1>3. rows' = Mark(rows, t, status)
    BY DEF SetStatus
<1>4. /\ Grows(rows, rows') /\ DOMAIN rows' = DOMAIN rows /\ rows'[r].status = status
      /\ \A o \in DOMAIN rows \ {r} : rows'[o] = rows[o]
    BY <1>1, <1>2, <1>3, MarkedRow
<1>5. rows'[r].content = rows[r].content
    BY <1>1, <1>2, <1>3 DEF Mark, RowRecord
<1> QED
    BY <1>1, <1>4, <1>5 DEF Marked, Untouched, Grows, Rows

LEMMA RetrySet ==
    ASSUME Typed, NEW t \in Messages, msgs[t].row \in Rows, UNCHANGED fed,
           rows' = [rows EXCEPT ![msgs[t].row].status = "ON_RETRY", ![msgs[t].row].attempts = @ + 1]
    PROVE  Marked(t) /\ rows'[msgs[t].row].status = "ON_RETRY"
<1>1. PICK r : r = msgs[t].row
    OBVIOUS
<1>2. rows \in Seq(RowRecord) /\ r \in DOMAIN rows /\ rows[r] \in RowRecord /\ Rows = DOMAIN rows
    BY <1>1 DEF Typed, IsTable, Rows
<1>3. PICK one : one = [rows[r] EXCEPT !.status = "ON_RETRY"]
    OBVIOUS
<1>4. one \in RowRecord /\ one.status = "ON_RETRY" /\ one.type = rows[r].type /\ one.item = rows[r].item
        /\ one.content = rows[r].content
    BY <1>2, <1>3 DEF RowRecord, Status
<1>5. PICK two : two = [one EXCEPT !.attempts = @ + 1]
    OBVIOUS
<1>6. two.status = "ON_RETRY" /\ two.type = rows[r].type /\ two.item = rows[r].item
        /\ two.content = rows[r].content
    BY <1>4, <1>5 DEF RowRecord
<1>7. rows' = [rows EXCEPT ![r] = two]
    BY <1>1, <1>2, <1>3, <1>5
<1>8. DOMAIN rows' = Rows /\ rows'[r] = two /\ \A o \in Rows \ {r} : rows'[o] = rows[o]
    BY <1>2, <1>7
<1> QED
    BY <1>1, <1>6, <1>8 DEF Marked, Untouched

\* The delivery goes on, as the message m.
GoesTo(t, m, pc, more) ==
    /\ msgs[t].kind = "extract" /\ m \in Message /\ m.kind = "extract" /\ m.row = msgs[t].row /\ ~m.next /\ m.pc = pc
    /\ MovesOn(t, m, more)

\* It ends; it is delivered again; an answer is empty; one is stored.
Ends(t) ==
    /\ msgs[t].kind = "extract" /\ msgs' = Acked(t) /\ Marked(t) /\ rows'[msgs[t].row].status # "PENDING"
    /\ rows'[msgs[t].row].status = "SUCCESS" => msgs[t].pc = "sent"
    /\ msgs[t].pc = "stored" => spent'.losses > 0
Repeats(t) ==
    /\ msgs[t].row \in Rows /\ \E m : GoesTo(t, m, "queued", <<>>)
    /\ Marked(t) /\ rows'[msgs[t].row].status \in {"ON_RETRY", "IN_PROGRESS"}
    /\ msgs[t].pc # "queued" => spent'.losses > 0
ComesEmpty(t) == spent'.empty > 0 /\ \E m, pc : GoesTo(t, m, pc, <<>>)
Fetches(t) ==
    /\ msgs[t].row \in Rows /\ msgs[t].pc = "queued" /\ \E m : GoesTo(t, m, "stored", <<>>)
    /\ Untouched(t) /\ UNCHANGED fed /\ rows'[msgs[t].row].status = "IN_PROGRESS"

\* No message belongs to a chord.
LEMMA Unchained ==
    ASSUME Typed, Simple, NEW t \in Messages
    PROVE  /\ ~msgs[t].next /\ msgs[t].chord = 0 /\ msgs \in Seq(Message) /\ msgs[t] \in Message
           /\ msgs[t].row <= Len(rows)
<1>1. msgs \in Seq(Message) /\ chords \in Seq(Chord) /\ msgs[t] \in Message /\ msgs[t].chord <= Len(chords)
        /\ MessageFits(msgs[t], rows)
    BY DEF Typed, IsQueue, Messages
<1>2. Len(chords) = 0
    BY <1>1 DEF Simple
<1>3. msgs[t].chord \in Nat /\ msgs[t].row \in Nat
    BY <1>1 DEF Message, MessageWith
<1>4. msgs[t].row \in 0..Len(rows) /\ Len(rows) \in Nat
    BY <1>1 DEF MessageFits, Refers, Typed, IsTable
<1> QED
    BY <1>1, <1>2, <1>3, <1>4 DEF Simple

LEMMA ReturnsOnly ==
    ASSUME Typed, Simple, NEW t \in Messages, NEW value, Return(t, value) \/ Raise(t)
    PROVE  msgs' = Acked(t) /\ DOMAIN chords' = {}
<1>1. CASE Return(t, value)
    BY <1>1, Unchained DEF Return, Simple
<1>2. CASE Raise(t)
    BY <1>2 DEF Raise, Simple
<1> QED
    BY <1>1, <1>2

\* A message at another place, with nothing more to do.
LEMMA SameMessage ==
    ASSUME Typed, Simple, NEW t \in Messages, msgs[t].kind = "extract", NEW pc \in Places
    PROVE  /\ Move(t, pc) = [msgs EXCEPT ![t] = [msgs[t] EXCEPT !.pc = pc]]
           /\ [msgs[t] EXCEPT !.pc = pc] \in Message /\ [msgs[t] EXCEPT !.pc = pc].kind = "extract"
           /\ [msgs[t] EXCEPT !.pc = pc].row = msgs[t].row /\ ~[msgs[t] EXCEPT !.pc = pc].next
           /\ [msgs[t] EXCEPT !.pc = pc].pc = pc
<1>1. msgs[t] \in Message /\ ~msgs[t].next
    BY Unchained
<1>2. PICK m : m = [msgs[t] EXCEPT !.pc = pc]
    OBVIOUS
<1>3. m \in Message /\ Move(t, pc) = [msgs EXCEPT ![t] = m]
    BY <1>1, <1>2, PlacedMessage
<1>4. m.kind = "extract" /\ m.row = msgs[t].row /\ ~m.next /\ m.pc = pc
    BY <1>1, <1>2 DEF Message, MessageWith
<1> QED
    BY <1>2, <1>3, <1>4

LEMMA NoMore ==
    ASSUME Typed, NEW t \in Messages, NEW m \in Message, msgs' = [msgs EXCEPT ![t] = m]
    PROVE  MovesOn(t, m, <<>>)
<1>1. msgs \in Seq(Message) /\ t \in DOMAIN msgs
    BY DEF Typed, IsQueue, Messages
<1>2. PICK moved : moved = [msgs EXCEPT ![t] = m]
    OBVIOUS
<1>3. moved \in Seq(Message)
    BY <1>1, <1>2
<1>4. moved \o <<>> = moved
    BY <1>3
<1> QED
    BY <1>2, <1>4 DEF MovesOn

LEMMA FinishEnds ==
    ASSUME Typed, Simple, NEW t \in Messages, Finish(t)
    PROVE  Ends(t) /\ Later /\ DOMAIN chords' = {}
<1>1. msgs[t].pc = "sent" /\ msgs[t].row \in Rows /\ msgs[t].kind = "extract"
    BY Delivery DEF Finish, At
<1>2. Marked(t) /\ rows'[msgs[t].row].status = "SUCCESS"
    BY <1>1, StatusSet DEF Finish, Status
<1>3. msgs' = Acked(t) /\ DOMAIN chords' = {}
    BY ReturnsOnly DEF Finish
<1>4. Later
    BY StaysLater DEF Finish, Typed
<1> QED
    BY <1>1, <1>2, <1>3, <1>4 DEF Ends

LEMMA LostEffect ==
    ASSUME Typed, Simple, NEW t \in Messages, WorkerLost(t)
    PROVE  (Ends(t) \/ Repeats(t)) /\ Later /\ DOMAIN chords' = {}
<1>1. /\ msgs[t].row \in Rows /\ msgs[t].kind = "extract" /\ msgs[t] \in Message /\ msgs \in Seq(Message)
      /\ t \in DOMAIN msgs
    BY Delivery DEF WorkerLost
<1>2. Later /\ spent'.losses > 0
    BY SpendLater DEF WorkerLost, Faults, Typed
<1>3. Marked(t) /\ rows'[msgs[t].row].status = "IN_PROGRESS"
    BY <1>1, StatusSet DEF WorkerLost, Started, Status
<1>4. CASE Raise(t)
    <2>1. msgs' = Acked(t) /\ DOMAIN chords' = {}
        BY <1>4, ReturnsOnly
    <2> QED
        BY <1>1, <1>2, <1>3, <2>1 DEF Ends
<1>5. CASE msgs' = [Move(t, "queued") EXCEPT ![t].todo = <<>>, ![t].value = 0] /\ UNCHANGED chords
    <2>1. PICK one : one = [msgs[t] EXCEPT !.pc = "queued"]
        OBVIOUS
    <2>2. /\ one \in Message /\ Move(t, "queued") = [msgs EXCEPT ![t] = one] /\ one.kind = "extract"
          /\ one.row = msgs[t].row /\ ~one.next /\ one.pc = "queued"
        BY <1>1, <2>1, SameMessage DEF Places
    <2>3. PICK two : two = [one EXCEPT !.todo = <<>>]
        OBVIOUS
    <2>4. two \in Message /\ two.kind = "extract" /\ two.row = msgs[t].row /\ ~two.next /\ two.pc = "queued"
        BY <2>2, <2>3, MessageTypes DEF Message, MessageWith
    <2>5. PICK m : m = [two EXCEPT !.value = 0]
        OBVIOUS
    <2>6. m \in Message /\ m.kind = "extract" /\ m.row = msgs[t].row /\ ~m.next /\ m.pc = "queued"
        BY <2>4, <2>5 DEF Message, MessageWith
    <2>7. msgs' = [msgs EXCEPT ![t] = m]
        BY <1>1, <1>5, <2>2, <2>3, <2>5
    <2>8. GoesTo(t, m, "queued", <<>>)
        BY <1>1, <2>6, <2>7, NoMore DEF GoesTo
    <2> QED
        BY <1>1, <1>2, <1>3, <1>5, <2>8 DEF Repeats, Simple
<1> QED
    BY <1>4, <1>5 DEF WorkerLost

LEMMA FailsEffect ==
    ASSUME Typed, Simple, NEW t \in Messages, NEW limit, FetchFails(t, limit)
    PROVE  (Ends(t) \/ Repeats(t)) /\ Later /\ DOMAIN chords' = {}
<1>1. /\ Received(t) /\ msgs[t].row \in Rows /\ msgs[t].kind = "extract" /\ msgs[t] \in Message /\ msgs \in Seq(Message)
      /\ t \in DOMAIN msgs /\ msgs[t].pc = "queued"
    BY Delivery DEF FetchFails, Received, Taken, Waits, At
<1>2. Later
    BY SpendLater DEF FetchFails, Error, Faults, Typed
<1>3. CASE rows' = Mark(rows, t, "FAILED") /\ Return(t, 0)
    <2>1. Marked(t) /\ rows'[msgs[t].row].status = "FAILED"
        BY <1>1, <1>3, StatusSet DEF SetStatus, Status, FetchFails
    <2>2. msgs' = Acked(t) /\ DOMAIN chords' = {}
        BY <1>3, ReturnsOnly
    <2> QED
        BY <1>1, <1>2, <2>1, <2>2 DEF Ends
<1>4. CASE rows' = [rows EXCEPT ![msgs[t].row].status = "ON_RETRY", ![msgs[t].row].attempts = @ + 1]
            /\ (Raise(t) \/ (msgs' = RetryMessage(t) /\ UNCHANGED chords))
    <2>1. Marked(t) /\ rows'[msgs[t].row].status = "ON_RETRY"
        BY <1>1, <1>4, RetrySet DEF FetchFails
    <2>2. CASE Raise(t)
        <3>1. msgs' = Acked(t) /\ DOMAIN chords' = {}
            BY <2>2, ReturnsOnly
        <3> QED
            BY <1>1, <1>2, <2>1, <3>1 DEF Ends
    <2>3. CASE msgs' = RetryMessage(t) /\ UNCHANGED chords
        <3>1. PICK one : one = [msgs[t] EXCEPT !.pc = "queued"]
            OBVIOUS
        <3>2. /\ one \in Message /\ Move(t, "queued") = [msgs EXCEPT ![t] = one] /\ one.kind = "extract"
              /\ one.row = msgs[t].row /\ ~one.next /\ one.pc = "queued"
            BY <1>1, <3>1, SameMessage DEF Places
        <3>3. PICK m : m = [one EXCEPT !.retries = @ + 1]
            OBVIOUS
        <3>4. m \in Message /\ m.kind = "extract" /\ m.row = msgs[t].row /\ ~m.next /\ m.pc = "queued"
            BY <3>2, <3>3 DEF Message, MessageWith
        <3>5. msgs' = [msgs EXCEPT ![t] = m]
            BY <1>1, <2>3, <3>2, <3>3 DEF RetryMessage
        <3>6. GoesTo(t, m, "queued", <<>>)
            BY <1>1, <3>4, <3>5, NoMore DEF GoesTo
        <3> QED
            BY <1>1, <1>2, <2>1, <2>3, <3>6 DEF Repeats, Simple
    <2> QED
        BY <1>4, <2>2, <2>3
<1> QED
    BY <1>3, <1>4 DEF FetchFails, RetryOr

LEMMA OtherEffect ==
    ASSUME Typed, Simple, NEW t \in Messages, OtherError(t)
    PROVE  Ends(t) /\ Later /\ DOMAIN chords' = {}
<1>1. msgs[t].row \in Rows /\ msgs[t].pc = "queued" /\ msgs[t].kind = "extract"
    BY Delivery DEF OtherError, Received, Taken, Waits, At
<1>2. Marked(t) /\ rows'[msgs[t].row].status = "FAILED"
    BY <1>1, StatusSet DEF OtherError, Status
<1>3. msgs' = Acked(t) /\ DOMAIN chords' = {}
    BY ReturnsOnly DEF OtherError
<1>4. Later
    BY SpendLater DEF OtherError, Faults, Typed
<1> QED
    BY <1>1, <1>2, <1>3, <1>4 DEF Ends
\* A handler goes on: new rows wait, and a transform may.
Blank(row) == row.status = "PENDING" /\ row.content = 0
Sends(t, new, transforms) ==
    /\ At(t, "extract", "stored") /\ new \in Seq(RowRecord) /\ \A i \in DOMAIN new : Blank(new[i])
    /\ transforms = <<>> \/ transforms = <<Transform(msgs[t].row)>>
    /\ rows' = rows \o new /\ UNCHANGED fed
    /\ \E m : GoesTo(t, m, "sent", transforms \o NewGroup(Len(new)))

\* A transform reads what its row holds.
Runs(t) ==
    /\ msgs[t].kind = "transform" /\ msgs' = Acked(t) /\ UNCHANGED rows
    /\ fed' = fed \cup {<<c, rows[c].content>> : c \in WithOwn(msgs[t].row, {})}

LEMMA NoDataEffect ==
    ASSUME Typed, Simple, NEW t \in Messages, NoData(t)
    PROVE  ComesEmpty(t) /\ Later /\ DOMAIN chords' = {}
<1>1. msgs[t].kind = "extract" /\ msgs[t] \in Message /\ ~msgs[t].next
    <2>1. msgs[t].kind = "extract"
        BY Delivery DEF NoData
    <2> QED
        BY <2>1, Unchained
<1>2. Later /\ spent'.empty > 0
    BY SpendLater DEF NoData, Faults, Typed
<1>3. PICK one : one = [msgs[t] EXCEPT !.pc = "sent"]
    OBVIOUS
<1>4. one \in Message /\ one.kind = "extract" /\ one.row = msgs[t].row /\ ~one.next /\ one.pc = "sent"
    BY <1>1, <1>3 DEF Message, MessageWith, Places
<1>5. PICK two : two = [one EXCEPT !.todo = <<>>]
    OBVIOUS
<1>6. two \in Message /\ two.kind = "extract" /\ two.row = msgs[t].row /\ ~two.next /\ two.pc = "sent"
    BY <1>4, <1>5, MessageTypes DEF Message, MessageWith
<1>7. PICK m : m = [two EXCEPT !.value = 0]
    OBVIOUS
<1>8. m \in Message /\ m.kind = "extract" /\ m.row = msgs[t].row /\ ~m.next /\ m.pc = "sent"
    BY <1>6, <1>7 DEF Message, MessageWith
<1>9. msgs' = [msgs EXCEPT ![t] = m] /\ UNCHANGED chords
    <2>1. /\ msgs' = [msgs EXCEPT ![t].pc = "sent", ![t].todo = <<>>, ![t].value = 0]
          /\ UNCHANGED chords
        BY DEF NoData, Made
    <2>2. msgs \in Seq(Message) /\ t \in DOMAIN msgs
        BY DEF Typed, IsQueue, Messages
    <2> QED
        BY <1>3, <1>5, <1>7, <2>1, <2>2
<1>10. GoesTo(t, m, "sent", <<>>)
    BY <1>1, <1>8, <1>9, NoMore DEF GoesTo
<1> QED
    BY <1>2, <1>9, <1>10 DEF ComesEmpty, Simple

LEMMA FetchedEffect ==
    ASSUME Typed, Simple, NEW t \in Messages, PagedFetched(t)
    PROVE  (Fetches(t) \/ ComesEmpty(t)) /\ Later /\ DOMAIN chords' = {}
<1>1. PICK r : r = msgs[t].row
    OBVIOUS
<1>2. /\ Received(t) /\ r \in Rows /\ rows \in Seq(RowRecord) /\ IsTable(rows) /\ RowOf(t) = rows[r]
      /\ rows[r] \in RowRecord /\ msgs[t].kind = "extract" /\ r \in DOMAIN rows /\ msgs[t].pc = "queued"
    BY <1>1, Delivery DEF PagedFetched, RowOf, Rows, Received, Taken, Waits, At
<1>3. PICK held \in {Stored(t), RowOf(t)} :
        /\ UNCHANGED spent \/ Spend("empty")
        /\ rows' = [Started(t) EXCEPT ![r].content = held.content, ![r].valid = held.valid]
    BY <1>1 DEF PagedFetched
<1>4. Later /\ (UNCHANGED spent \/ spent'.empty > 0)
    BY <1>3, SpendLater, StaysLater DEF Faults, Typed
<1>5. \E m : GoesTo(t, m, "stored", <<>>)
    <2>1. PICK m : m = [msgs[t] EXCEPT !.pc = "stored"]
        OBVIOUS
    <2>2. /\ m \in Message /\ Move(t, "stored") = [msgs EXCEPT ![t] = m] /\ m.kind = "extract"
          /\ m.row = msgs[t].row /\ ~m.next /\ m.pc = "stored"
        BY <1>2, <2>1, SameMessage DEF Places
    <2>3. msgs' = [msgs EXCEPT ![t] = m]
        BY <2>2 DEF PagedFetched
    <2> QED
        BY <1>2, <2>2, <2>3, NoMore DEF GoesTo
<1>6. PICK begun : begun = Started(t)
    OBVIOUS
<1>7. /\ begun[r] \in RowRecord /\ begun[r].status = "IN_PROGRESS" /\ DOMAIN begun = Rows
      /\ \A o \in Rows \ {r} : begun[o] = rows[o]
      /\ begun[r].type = rows[r].type /\ begun[r].item = rows[r].item
    <2>1. "IN_PROGRESS" \in Status
        BY DEF Status
    <2>2. /\ begun[r] \in RowRecord /\ begun[r].status = "IN_PROGRESS" /\ Grows(rows, begun)
          /\ DOMAIN begun = DOMAIN rows /\ \A o \in DOMAIN rows \ {r} : begun[o] = rows[o]
        BY <1>1, <1>2, <1>6, <2>1, MarkedRow DEF Started, SetStatus
    <2> QED
        BY <1>2, <2>2 DEF Grows, Rows
<1>8. PICK one : one = [begun[r] EXCEPT !.content = held.content]
    OBVIOUS
<1>9. PICK row : row = [one EXCEPT !.valid = held.valid]
    OBVIOUS
<1>10. row.type = rows[r].type /\ row.item = rows[r].item /\ row.status = "IN_PROGRESS"
    BY <1>7, <1>8, <1>9 DEF RowRecord
<1>11. DOMAIN rows' = Rows /\ rows'[r] = row /\ \A o \in Rows \ {r} : rows'[o] = begun[o]
    BY <1>2, <1>3, <1>6, <1>7, <1>8, <1>9
<1>12. Untouched(t)
    BY <1>1, <1>7, <1>10, <1>11 DEF Untouched
<1>13. UNCHANGED <<chords, fed>>
    BY DEF PagedFetched
<1> QED
    BY <1>1, <1>2, <1>4, <1>5, <1>10, <1>11, <1>12, <1>13 DEF Fetches, ComesEmpty, Simple
LEMMA GoesOnEffect ==
    ASSUME Typed, Simple, Paged, NEW t \in Messages, At(t, "extract", "stored"),
           NEW new \in Seq(RowRecord), \A i \in DOMAIN new : Blank(new[i]),
           NEW transforms, transforms = <<>> \/ transforms = <<Transform(msgs[t].row)>>,
           PagedGoesOn(t, new, transforms)
    PROVE  Sends(t, new, transforms) /\ Later /\ DOMAIN chords' = {}
<1>1. msgs[t].kind = "extract" /\ msgs \in Seq(Message) /\ rows \in Seq(RowRecord) /\ t \in DOMAIN msgs
    BY Delivery DEF At
<1>2. transforms \in Seq(Message)
    <2>1. CASE transforms = <<>>
        BY <2>1
    <2>2. CASE transforms = <<Transform(msgs[t].row)>>
        BY <2>2, PagedTransformFits, MessageTypes
    <2> QED
        BY <2>1, <2>2
<1>3. PICK group : group = NewGroup(Len(new))
    OBVIOUS
<1>4. group \in Seq(Message)
    <2>1. PICK table : table = rows \o new
        OBVIOUS
    <2>2. Len(new) \in Nat /\ Len(table) \in Nat /\ Len(rows) + Len(new) <= Len(table)
        BY <1>1, <2>1
    <2>3. NewGroup(Len(new)) \in Seq(Plain)
        BY <1>1, <2>2, NewGroupFits
    <2> QED
        BY <1>3, <2>3, MessageTypes
<1>5. PICK m : m = [msgs[t] EXCEPT !.pc = "sent"]
    OBVIOUS
<1>6. /\ m \in Message /\ Move(t, "sent") = [msgs EXCEPT ![t] = m] /\ m.kind = "extract"
      /\ m.row = msgs[t].row /\ ~m.next /\ m.pc = "sent"
    BY <1>1, <1>5, SameMessage DEF Places
<1>7. MovesOn(t, m, transforms \o group)
    <2>1. PICK moved : moved = [msgs EXCEPT ![t] = m]
        OBVIOUS
    <2>2. moved \in Seq(Message)
        BY <1>1, <1>6, <2>1
    <2>3. msgs' = moved \o transforms \o group
        BY <1>3, <1>6, <2>1 DEF PagedGoesOn
    <2>4. moved \o transforms \o group = moved \o (transforms \o group)
        BY ONLY <1>2, <1>4, <2>2
    <2> QED
        BY <2>1, <2>3, <2>4 DEF MovesOn
<1>8. GoesTo(t, m, "sent", transforms \o NewGroup(Len(new)))
    BY <1>1, <1>3, <1>6, <1>7 DEF GoesTo
<1>9. rows' = rows \o new /\ UNCHANGED <<fed, chords, spent>>
    BY DEF PagedGoesOn
<1>10. Later /\ DOMAIN chords' = {}
    BY <1>9, StaysLater DEF Typed, Simple
<1> QED
    BY <1>8, <1>9, <1>10 DEF Sends

\* A page is followed by one at most.
LEMMA OneFollower ==
    ASSUME NEW type \in PagedTypes, NEW item, NEW p \in Followers(type, item), NEW q \in Followers(type, item)
    PROVE  p = q /\ type \in {"CEMS", "IFRC"}
<1>1. PICK walk : walk = Walks[type]
    OBVIOUS
<1>2. walk \in Seq(Items) /\ Len(walk) \in Nat /\ DOMAIN walk = 1..Len(walk)
    BY <1>1, WalksAre
<1>3. PICK i \in 1..(Len(walk) - 1) : walk[i] = item /\ p = walk[i + 1]
    BY <1>1 DEF Followers
<1>4. PICK j \in 1..(Len(walk) - 1) : walk[j] = item /\ q = walk[j + 1]
    BY <1>1 DEF Followers
<1>5. type \in {"CEMS", "IFRC"}
    <2>1. SUFFICES ASSUME type \notin {"CEMS", "IFRC"} PROVE FALSE
        OBVIOUS
    <2>2. walk = OnePage
        BY <1>1, <2>1 DEF Walks
    <2> QED
        BY <1>2, <1>3, <2>2, PagedAssumption
<1>6. walk \in {CemsPages, IfrcPages}
    BY <1>1, <1>5 DEF Walks, PagedTypes
<1>7. i = j
    <2>1. i \in DOMAIN walk /\ j \in DOMAIN walk
        BY <1>2
    <2> QED
        BY <1>3, <1>4, <1>6, <2>1, PagedAssumption
<1> QED
    BY <1>3, <1>4, <1>5, <1>7

\* The row of the next page, if there is one.
LEMMA NextPageIs ==
    ASSUME Typed, Paged, NEW t \in Messages, At(t, "extract", "stored"), RowOf(t).type \in PagedTypes
    PROVE  /\ NextPageRow(t) \in Seq(RowRecord) /\ Len(NextPageRow(t)) \in {0, 1}
           /\ \A i \in DOMAIN NextPageRow(t) :
                /\ Blank(NextPageRow(t)[i]) /\ NextPageRow(t)[i].type = RowOf(t).type
                /\ NextPageRow(t)[i].item \in Followers(RowOf(t).type, RowOf(t).item)
           /\ \A p \in Followers(RowOf(t).type, RowOf(t).item) :
                \E i \in DOMAIN NextPageRow(t) : NextPageRow(t)[i].item = p
<1>1. PICK next : next = Followers(RowOf(t).type, RowOf(t).item)
    OBVIOUS
<1>2. NextPageRow(t) \in Seq(RowRecord)
    BY NextPageRowFits
<1>3. CASE next = {}
    BY <1>1, <1>2, <1>3 DEF NextPageRow
<1>4. CASE next # {}
    <2>1. PICK p : p = CHOOSE q \in next : TRUE
        OBVIOUS
    <2>2. p \in next /\ \A q \in next : q = p
        <3>1. p \in next
            BY <1>4, <2>1
        <3> QED
            BY <1>1, <3>1, OneFollower
    <2>3. PICK row : row = Row(RowOf(t).type, p, 0)
        OBVIOUS
    <2>4. Blank(row) /\ row.type = RowOf(t).type /\ row.item = p
        BY <2>3 DEF Row, Blank
    <2>5. NextPageRow(t) = <<row>>
        BY <1>1, <1>4, <2>1, <2>3 DEF NextPageRow
    <2> QED
        BY <1>1, <1>2, <2>2, <2>4, <2>5
<1> QED
    BY <1>3, <1>4

LEMMA JoinedRows ==
    ASSUME NEW some \in Seq(RowRecord), NEW others \in Seq(RowRecord), NEW new, new = some \o others
    PROVE  /\ new \in Seq(RowRecord) /\ Len(new) = Len(some) + Len(others)
           /\ \A i \in DOMAIN some : i \in DOMAIN new /\ new[i] = some[i]
           /\ \A i \in DOMAIN others : Len(some) + i \in DOMAIN new /\ new[Len(some) + i] = others[i]
           /\ \A j \in DOMAIN new :
                \/ j \in DOMAIN some /\ new[j] = some[j]
                \/ j > Len(some) /\ j - Len(some) \in DOMAIN others /\ new[j] = others[j - Len(some)]
<1>1. /\ DOMAIN new = 1..(Len(some) + Len(others)) /\ Len(some) \in Nat /\ Len(others) \in Nat
      /\ DOMAIN some = 1..Len(some) /\ DOMAIN others = 1..Len(others)
      /\ new \in Seq(RowRecord) /\ Len(new) = Len(some) + Len(others)
    BY Joined
<1>2. /\ \A i \in 1..Len(some) : new[i] = some[i]
      /\ \A i \in (Len(some) + 1)..(Len(some) + Len(others)) : new[i] = others[i - Len(some)]
    BY Joined
<1>3. ASSUME NEW i \in DOMAIN others
      PROVE  Len(some) + i \in DOMAIN new /\ new[Len(some) + i] = others[i]
    <2>1. Len(some) + i \in (Len(some) + 1)..(Len(some) + Len(others)) /\ (Len(some) + i) - Len(some) = i
        BY <1>1
    <2> QED
        BY <1>1, <1>2, <2>1
<1>4. ASSUME NEW j \in DOMAIN new
      PROVE  \/ j \in DOMAIN some /\ new[j] = some[j]
             \/ j > Len(some) /\ j - Len(some) \in DOMAIN others /\ new[j] = others[j - Len(some)]
    <2>1. CASE j \in 1..Len(some)
        BY <1>1, <1>2, <2>1
    <2>2. CASE j \notin 1..Len(some)
        <3>1. j \in (Len(some) + 1)..(Len(some) + Len(others)) /\ j - Len(some) \in DOMAIN others /\ j > Len(some)
            BY <1>1, <2>2
        <3> QED
            BY <1>2, <3>1
    <2> QED
        BY <2>1, <2>2
<1> QED
    BY <1>1, <1>2, <1>3, <1>4

\* The activations of a page of CEMS, and the row of the next page.
CemsRows(t, details, next) ==
    LET codes == Codes[RowOf(t).item] IN
    /\ RowOf(t).type = "CEMS" /\ RowOf(t).item \in Listing(CemsPages)
    /\ details \in Seq(RowRecord) /\ Len(details) = Len(codes) /\ codes \in Seq(Items)
    /\ \A i \in DOMAIN details :
        Blank(details[i]) /\ details[i].type = "CEMS_DETAIL" /\ details[i].item = codes[i]
    /\ next \in Seq(RowRecord) /\ Len(next) \in {0, 1}
    /\ \A i \in DOMAIN next :
        Blank(next[i]) /\ next[i].type = "CEMS" /\ next[i].item \in Followers("CEMS", RowOf(t).item)

LEMMA CemsQueryEffect ==
    ASSUME Typed, Simple, Paged, NEW t \in Messages, CemsQuery(t)
    PROVE  /\ \E details, next : CemsRows(t, details, next) /\ Sends(t, details \o next, <<>>)
           /\ Later /\ DOMAIN chords' = {}
<1>1. PICK r : r = msgs[t].row
    OBVIOUS
<1>2. /\ At(t, "extract", "stored") /\ RowOf(t) = rows[r] /\ rows[r].type = "CEMS"
      /\ r \in Rows /\ rows \in Seq(RowRecord) /\ IsTable(rows) /\ r \in Nat
    <2>1. At(t, "extract", "stored") /\ RowOf(t) = rows[r] /\ rows[r].type = "CEMS"
        BY <1>1 DEF CemsQuery, RowOf
    <2> QED
        BY <1>1, <2>1, Delivery DEF At, Rows
<1>3. PICK codes : codes = Codes[rows[r].item]
    OBVIOUS
<1>4. codes \in Seq(Items) /\ rows[r].item \in Listing(CemsPages)
    <2>1. "CEMS" \in PagedTypes /\ Walks["CEMS"] = CemsPages
        BY DEF PagedTypes, Walks
    <2>2. rows[r].item \in Listing(CemsPages)
        BY <1>2, <2>1 DEF IsTable, ItemFits, Rows
    <2> QED
        BY <1>3, <2>2, PagedAssumption
<1>5. PICK details : details = [i \in DOMAIN codes |-> Row("CEMS_DETAIL", codes[i], r)]
    OBVIOUS
<1>6. details \in Seq(RowRecord) /\ DOMAIN details = DOMAIN codes /\ Len(details) = Len(codes)
    <2>1. "CEMS_DETAIL" \in RowTypes
        BY PagedRows
    <2> QED
        BY <1>2, <1>4, <1>5, <2>1, RowsOfList
<1>7. \A i \in DOMAIN details :
            Blank(details[i]) /\ details[i].type = "CEMS_DETAIL" /\ details[i].item = codes[i]
    BY <1>5 DEF Row, Blank
<1>8. PICK next : next = NextPageRow(t)
    OBVIOUS
<1>9. /\ next \in Seq(RowRecord) /\ Len(next) \in {0, 1}
      /\ \A i \in DOMAIN next :
            Blank(next[i]) /\ next[i].type = "CEMS" /\ next[i].item \in Followers("CEMS", rows[r].item)
    <2>1. RowOf(t).type \in PagedTypes
        BY <1>2 DEF PagedTypes
    <2> QED
        BY <1>2, <1>8, <2>1, NextPageIs
<1>10. PICK new : new = details \o next
    OBVIOUS
<1>11. new \in Seq(RowRecord) /\ \A i \in DOMAIN new : Blank(new[i])
    BY <1>6, <1>7, <1>9, <1>10, JoinedRows
<1>12. PICK none : none = <<>>
    OBVIOUS
<1>13. PagedGoesOn(t, new, none)
    BY <1>1, <1>2, <1>3, <1>5, <1>8, <1>10, <1>12 DEF CemsQuery
<1>14. Sends(t, new, none) /\ Later /\ DOMAIN chords' = {}
    BY <1>2, <1>11, <1>12, <1>13, GoesOnEffect
<1>15. CemsRows(t, details, next)
    BY <1>2, <1>3, <1>4, <1>6, <1>7, <1>9 DEF CemsRows
<1> QED
    BY <1>10, <1>12, <1>14, <1>15

\* A page is transformed, and the next one has its row.
PageTypes == Singles \cup {"IFRC"}
Follows(t, new, transforms) ==
    RowOf(t).type \in PageTypes =>
        /\ transforms = <<Transform(msgs[t].row)>>
        /\ \A p \in Followers(RowOf(t).type, RowOf(t).item) : \E i \in DOMAIN new : new[i].item = p
SendsOn(t) == \E new, transforms : Sends(t, new, transforms) /\ Follows(t, new, transforms)

LEMMA IfrcEffect ==
    ASSUME Typed, Simple, Paged, NEW t \in Messages, IfrcQuery(t)
    PROVE  SendsOn(t) /\ Later /\ DOMAIN chords' = {}
<1>1. At(t, "extract", "stored") /\ RowOf(t).type \in PagedTypes
    BY DEF IfrcQuery, PagedTypes
<1>2. PICK new : new = NextPageRow(t)
    OBVIOUS
<1>3. /\ new \in Seq(RowRecord) /\ \A i \in DOMAIN new : Blank(new[i])
      /\ \A p \in Followers(RowOf(t).type, RowOf(t).item) : \E i \in DOMAIN new : new[i].item = p
    BY <1>1, <1>2, NextPageIs
<1>4. PICK transforms : transforms = <<Transform(msgs[t].row)>>
    OBVIOUS
<1>5. PagedGoesOn(t, new, transforms)
    BY <1>2, <1>4 DEF IfrcQuery
<1>6. Sends(t, new, transforms) /\ Later /\ DOMAIN chords' = {}
    BY <1>1, <1>3, <1>4, <1>5, GoesOnEffect
<1> QED
    BY <1>3, <1>4, <1>6 DEF SendsOn, Follows

LEMMA SingleEffect ==
    ASSUME Typed, Simple, Paged, NEW t \in Messages, NEW single \in Singles, SingleQuery(t, single)
    PROVE  SendsOn(t) /\ Later /\ DOMAIN chords' = {}
<1>1. At(t, "extract", "stored") /\ RowOf(t).type = single
    BY DEF SingleQuery
<1>2. PICK new : new = <<>>
    OBVIOUS
<1>3. new \in Seq(RowRecord) /\ \A i \in DOMAIN new : Blank(new[i])
    BY <1>2
<1>4. PICK transforms : transforms = <<Transform(msgs[t].row)>>
    OBVIOUS
<1>5. PagedGoesOn(t, new, transforms)
    BY <1>2, <1>4 DEF SingleQuery
<1>6. Sends(t, new, transforms) /\ Later /\ DOMAIN chords' = {}
    BY <1>1, <1>3, <1>4, <1>5, GoesOnEffect
<1>7. Followers(RowOf(t).type, RowOf(t).item) = {}
    <2>1. single \in PagedTypes /\ single \notin {"CEMS", "IFRC"}
        BY DEF PagedTypes, Singles
    <2> QED
        BY <1>1, <2>1, OneFollower
<1> QED
    BY <1>4, <1>6, <1>7 DEF SendsOn, Follows

LEMMA CemsDetailEffect ==
    ASSUME Typed, Simple, Paged, NEW t \in Messages, CemsDetail(t)
    PROVE  /\ \E transforms :
                /\ Sends(t, <<>>, transforms) /\ RowOf(t).type = "CEMS_DETAIL"
                /\ transforms # <<>> \/ \E o \in CemsPrevious(msgs[t].row) :
                        rows[o].content # 0 /\ rows[o].content = RowOf(t).content
           /\ Later /\ DOMAIN chords' = {}
<1>1. At(t, "extract", "stored") /\ RowOf(t).type = "CEMS_DETAIL"
    BY DEF CemsDetail
<1>2. PICK transforms :
        /\ transforms \in {<<>>, <<Transform(msgs[t].row)>>} /\ PagedGoesOn(t, <<>>, transforms)
        /\ transforms # <<>> \/ \E o \in CemsPrevious(msgs[t].row) :
                rows[o].content # 0 /\ rows[o].content = RowOf(t).content
    <2>1. <<Transform(msgs[t].row)>> # <<>>
        OBVIOUS
    <2> QED
        BY <2>1 DEF CemsDetail, RowOf
<1>3. PICK new : new = <<>>
    OBVIOUS
<1>4. new \in Seq(RowRecord) /\ (\A i \in DOMAIN new : Blank(new[i])) /\ PagedGoesOn(t, new, transforms)
    BY <1>2, <1>3
<1>5. Sends(t, new, transforms) /\ Later /\ DOMAIN chords' = {}
    BY <1>1, <1>2, <1>4, GoesOnEffect
<1> QED
    BY <1>1, <1>2, <1>3, <1>5

LEMMA RunsEffect ==
    ASSUME Typed, Simple, NEW t \in Messages, RunTransform(t, WithOwn(msgs[t].row, {}))
    PROVE  Runs(t) /\ Later /\ DOMAIN chords' = {}
<1>1. Later
    BY StaysLater DEF RunTransform, Typed
<1> QED
    BY <1>1 DEF RunTransform, Runs, At, Simple

Goes(t) == Ends(t) \/ Repeats(t) \/ ComesEmpty(t) \/ Fetches(t) \/ Runs(t) \/ SendsOn(t)

LEMMA StepEffect ==
    ASSUME Typed, Simple, Paged, NEW t \in Messages, PagedStep(t)
    PROVE  Goes(t) /\ Later /\ DOMAIN chords' = {}
<1>1. CASE Finish(t)
    BY <1>1, FinishEnds DEF Goes
<1>2. CASE WorkerLost(t)
    BY <1>2, LostEffect DEF Goes
<1>3. CASE PagedFetched(t)
    BY <1>3, FetchedEffect DEF Goes
<1>4. CASE CemsQuery(t)
    <2>1. PICK details, next : CemsRows(t, details, next) /\ Sends(t, details \o next, <<>>)
        BY <1>4, CemsQueryEffect
    <2>2. RowOf(t).type \notin PageTypes
        BY <2>1 DEF CemsRows, PageTypes, Singles
    <2> QED
        BY <1>4, <2>1, <2>2, CemsQueryEffect DEF Goes, SendsOn, Follows
<1>5. CASE CemsDetail(t)
    <2>1. PICK transforms : Sends(t, <<>>, transforms) /\ RowOf(t).type = "CEMS_DETAIL"
        BY <1>5, CemsDetailEffect
    <2>2. RowOf(t).type \notin PageTypes
        BY <2>1 DEF PageTypes, Singles
    <2> QED
        BY <1>5, <2>1, <2>2, CemsDetailEffect DEF Goes, SendsOn, Follows
<1>6. CASE IfrcQuery(t)
    BY <1>6, IfrcEffect DEF Goes
<1>7. CASE \E single \in Singles : SingleQuery(t, single)
    BY <1>7, SingleEffect DEF Goes
<1>8. CASE PagedGoesWrong(t)
    BY <1>8, OtherEffect, FailsEffect, NoDataEffect DEF PagedGoesWrong, RateLimited, RequestError, Goes
<1>9. CASE RunTransform(t, WithOwn(msgs[t].row, {}))
    BY <1>9, RunsEffect DEF Goes
<1>10. (GfdQuery(t) \/ EmdatQuery(t) \/ GlideQuery(t) \/ IduQuery(t) \/ GiddQuery(t)
            \/ IbtracsQuery(t) \/ DesinventarQuery(t)) => \E single \in Singles : SingleQuery(t, single)
    BY DEF GfdQuery, EmdatQuery, GlideQuery, IduQuery, GiddQuery, IbtracsQuery, DesinventarQuery, Singles
<1> QED
    BY <1>1, <1>2, <1>3, <1>4, <1>5, <1>6, <1>7, <1>8, <1>9, <1>10 DEF PagedStep

-----------------------------------------------------------------------------
(* No row has two deliveries.                                                *)

\* What a handler publishes: the transform of its row, and the tasks of new rows.
Publishes(t, new, transforms, more) ==
    /\ more \in Seq(Message) /\ Len(new) \in Nat /\ Len(rows) \in Nat /\ Len(transforms) \in {0, 1}
    /\ \A j \in DOMAIN more : ~more[j].next /\ more[j].pc = "queued"
    /\ \A j \in DOMAIN more :
         \/ more[j].kind = "transform" /\ more[j].row = msgs[t].row
         \/ /\ more[j].kind = "extract" /\ more[j].row = Len(rows) + (j - Len(transforms))
            /\ j - Len(transforms) \in 1..Len(new)
    /\ transforms # <<>> => \E j \in DOMAIN more : more[j].kind = "transform" /\ more[j].row = msgs[t].row
    /\ \A i \in 1..Len(new) : \E j \in DOMAIN more : more[j].kind = "extract" /\ more[j].row = Len(rows) + i

LEMMA PublishedParts ==
    ASSUME Typed, Paged, NEW t \in Messages, NEW new, NEW transforms, Sends(t, new, transforms),
           NEW more, more = transforms \o NewGroup(Len(new))
    PROVE  Publishes(t, new, transforms, more)
<1>1. /\ At(t, "extract", "stored") /\ new \in Seq(RowRecord) /\ rows \in Seq(RowRecord)
      /\ transforms = <<>> \/ transforms = <<Transform(msgs[t].row)>>
    BY DEF Sends, Typed, IsTable
<1>2. Len(new) \in Nat /\ Len(rows) \in Nat
    BY <1>1
<1>3. PICK group : group = NewGroup(Len(new))
    OBVIOUS
<1>4. group \in Seq(Message) /\ DOMAIN group = 1..Len(new) /\ \A i \in 1..Len(new) : group[i] = Extract(Len(rows) + i, 0)
    <2>1. PICK table : table = rows \o new
        OBVIOUS
    <2>2. Len(new) \in Nat /\ Len(table) \in Nat /\ Len(rows) + Len(new) <= Len(table)
        BY <1>1, <2>1
    <2>3. NewGroup(Len(new)) \in Seq(Plain)
        BY <1>1, <2>2, NewGroupFits
    <2> QED
        BY <1>2, <1>3, <2>3, MessageTypes DEF NewGroup
<1>5. \A i \in 1..Len(new) :
        /\ group[i].kind = "extract" /\ group[i].row = Len(rows) + i /\ ~group[i].next /\ group[i].pc = "queued"
    BY <1>4 DEF Extract
<1>6. PICK m : m = Transform(msgs[t].row)
    OBVIOUS
<1>7. m.kind = "transform" /\ m.row = msgs[t].row /\ ~m.next /\ m.pc = "queued"
    BY <1>6 DEF Transform, Extract
<1>8. transforms \in Seq(Message) /\ Len(transforms) \in {0, 1} /\ \A i \in DOMAIN transforms : transforms[i] = m
    <2>1. CASE transforms = <<>>
        BY <2>1
    <2>2. CASE transforms = <<Transform(msgs[t].row)>>
        <3>1. transforms \in Seq(Message)
            BY <1>1, <2>2, PagedTransformFits, MessageTypes
        <3> QED
            BY <1>6, <2>2, <3>1
    <2> QED
        BY <1>1, <2>1, <2>2
<1>9. /\ more \in Seq(Message) /\ DOMAIN more = 1..(Len(transforms) + Len(group)) /\ Len(group) = Len(new)
      /\ \A i \in 1..Len(transforms) : more[i] = transforms[i]
      /\ DOMAIN transforms = 1..Len(transforms)
    BY <1>2, <1>3, <1>4, <1>8, Joined
<1>10. \A i \in (Len(transforms) + 1)..(Len(transforms) + Len(group)) : more[i] = group[i - Len(transforms)]
    BY <1>3, <1>4, <1>8, Joined
<1>11. ASSUME NEW j \in DOMAIN more
       PROVE  \/ j \in DOMAIN transforms /\ more[j] = m
              \/ j - Len(transforms) \in 1..Len(new) /\ more[j] = group[j - Len(transforms)]
    <2>1. CASE j \in 1..Len(transforms)
        BY <1>8, <1>9, <2>1
    <2>2. CASE j \notin 1..Len(transforms)
        <3>1. j \in (Len(transforms) + 1)..(Len(transforms) + Len(group)) /\ j - Len(transforms) \in 1..Len(new)
            BY <1>2, <1>8, <1>9, <2>2
        <3> QED
            BY <1>10, <3>1
    <2> QED
        BY <2>1, <2>2
<1>12. \A j \in DOMAIN more : ~more[j].next /\ more[j].pc = "queued"
    BY <1>5, <1>7, <1>11
<1>13. \A j \in DOMAIN more :
                \/ more[j].kind = "transform" /\ more[j].row = msgs[t].row
                \/ /\ more[j].kind = "extract" /\ more[j].row = Len(rows) + (j - Len(transforms))
                   /\ j - Len(transforms) \in 1..Len(new)
    BY <1>5, <1>7, <1>11
<1>14. transforms # <<>> => \E j \in DOMAIN more : more[j].kind = "transform" /\ more[j].row = msgs[t].row
    <2>1. transforms # <<>> => 1 \in DOMAIN transforms /\ 1 \in DOMAIN more
        BY <1>2, <1>8, <1>9
    <2> QED
        BY <1>7, <1>8, <1>9, <2>1
<1>15. ASSUME NEW i \in 1..Len(new) PROVE \E j \in DOMAIN more : more[j].kind = "extract" /\ more[j].row = Len(rows) + i
    <2>1. /\ Len(transforms) + i \in (Len(transforms) + 1)..(Len(transforms) + Len(group))
          /\ (Len(transforms) + i) - Len(transforms) = i /\ Len(transforms) + i \in DOMAIN more
        BY <1>2, <1>8, <1>9
    <2> QED
        BY <1>5, <1>10, <2>1
<1> QED
    BY <1>2, <1>8, <1>9, <1>12, <1>13, <1>14, <1>15 DEF Publishes

LEMMA MovesAlone ==
    ASSUME Typed, Simple, Alone, NEW t \in Messages, NEW m, NEW pc, NEW more \in Seq(Message), GoesTo(t, m, pc, more),
           \A j \in DOMAIN more : ~more[j].next,
           \A j \in DOMAIN more : more[j].kind = "extract" => more[j].row > Len(rows),
           \A i, j \in DOMAIN more :
                (more[i].kind = "extract" /\ more[j].kind = "extract" /\ more[i].row = more[j].row) => i = j
    PROVE  (\A o \in DOMAIN msgs' : ~msgs'[o].next) /\ Alone'
<1>1. /\ msgs \in Seq(Message) /\ rows \in Seq(RowRecord)
      /\ \A o \in Messages : ~msgs[o].next /\ msgs[o].row <= Len(rows)
    BY Unchained DEF Typed, IsTable, IsQueue
<1>2. /\ m \in Message /\ m.kind = "extract" /\ m.row = msgs[t].row /\ ~m.next /\ MovesOn(t, m, more)
      /\ OnRow(t, m.row)
    BY DEF GoesTo, OnRow
<1>3. Alone'
    BY <1>1, <1>2, AloneMoved
<1>4. /\ msgs'[t] = m /\ \A o \in Messages \ {t} : msgs'[o] = msgs[o]
      /\ \A i \in DOMAIN msgs' \ Messages : i - Len(msgs) \in DOMAIN more /\ msgs'[i] = more[i - Len(msgs)]
    BY <1>1, <1>2, MessagesMoved
<1>5. \A o \in DOMAIN msgs' : ~msgs'[o].next
    BY <1>1, <1>2, <1>4
<1> QED
    BY <1>3, <1>5

LEMMA StepAlone ==
    ASSUME Typed, Simple, Alone, Paged, NEW t \in Messages, Goes(t), DOMAIN chords' = {}
    PROVE  Simple' /\ Alone'
<1>1. msgs \in Seq(Message) /\ \A o \in Messages : ~msgs[o].next
    BY Unchained DEF Typed, IsQueue
<1>2. CASE msgs' = Acked(t)
    BY <1>1, <1>2, MessagesLeft DEF Simple, Messages
<1>3. ASSUME NEW m, NEW pc, GoesTo(t, m, pc, <<>>) PROVE Simple' /\ Alone'
    <2>1. PICK none : none = <<>>
        OBVIOUS
    <2>2. none \in Seq(Message) /\ DOMAIN none = {} /\ GoesTo(t, m, pc, none)
        BY <1>3, <2>1
    <2>3. (\A o \in DOMAIN msgs' : ~msgs'[o].next) /\ Alone'
        BY <2>2, MovesAlone
    <2> QED
        BY <2>3 DEF Simple, Messages
<1>4. ASSUME NEW new, NEW transforms, Sends(t, new, transforms) PROVE Simple' /\ Alone'
    <2>1. PICK more : more = transforms \o NewGroup(Len(new))
        OBVIOUS
    <2>2. /\ more \in Seq(Message) /\ Len(new) \in Nat /\ Len(rows) \in Nat /\ Len(transforms) \in {0, 1}
          /\ \A j \in DOMAIN more : ~more[j].next
          /\ \A j \in DOMAIN more :
                \/ more[j].kind = "transform" /\ more[j].row = msgs[t].row
                \/ /\ more[j].kind = "extract" /\ more[j].row = Len(rows) + (j - Len(transforms))
                   /\ j - Len(transforms) \in 1..Len(new)
        <3>1. Publishes(t, new, transforms, more)
            BY <1>4, <2>1, PublishedParts
        <3> QED
            BY ONLY <3>1 DEF Publishes
    <2>3. \A j \in DOMAIN more : more[j].kind = "extract" => more[j].row > Len(rows)
        BY <2>2
    <2>4. \A i, j \in DOMAIN more :
                (more[i].kind = "extract" /\ more[j].kind = "extract" /\ more[i].row = more[j].row) => i = j
        <3>1. DOMAIN more \subseteq Nat
            BY <2>2
        <3> QED
            BY <2>2, <3>1
    <2>5. PICK m : GoesTo(t, m, "sent", more)
        BY <1>4, <2>1 DEF Sends
    <2>6. (\A o \in DOMAIN msgs' : ~msgs'[o].next) /\ Alone'
        BY <2>2, <2>3, <2>4, <2>5, MovesAlone
    <2> QED
        BY <2>6 DEF Simple, Messages
<1> QED
    BY <1>2, <1>3, <1>4 DEF Goes, Ends, Repeats, ComesEmpty, Fetches, Runs, SendsOn

-----------------------------------------------------------------------------
(* Whatever has been stored by a page that is through is read, and the next   *)
(* page has a row.                                                            *)

Served(r) == Reads(r) \/ \E t \in Messages : msgs[t].kind = "transform" /\ msgs[t].row = r
Followed(r) == \A p \in Followers(rows[r].type, rows[r].item) : \E o \in Rows : rows[o].item = p
Through(r) == rows[r].status = "SUCCESS" \/ \E t \in Messages : At(t, "extract", "sent") /\ msgs[t].row = r
Due(r) == rows[r].type \in PageTypes /\ rows[r].content # 0 /\ Through(r)

PagesServed == spent.empty = 0 => \A r \in Rows : Due(r) => Served(r) /\ Followed(r)

RowsLast == Rows \subseteq DOMAIN rows' /\ \A o \in Rows : rows'[o].type = rows[o].type /\ rows'[o].item = rows[o].item

LEMMA StillServed ==
    ASSUME PagesServed, spent.empty = 0, NEW t \in Messages, Keeps(t), RowsLast, NEW r \in Rows,
           rows'[r].content = rows[r].content, fed \subseteq fed', Through(r), Due(r)',
           Reads(r)' \/ msgs[t].kind # "transform" \/ msgs[t].row # r
    PROVE  Served(r)' /\ Followed(r)'
<1>1. Served(r) /\ Followed(r)
    BY DEF PagesServed, Due, RowsLast
<1>2. Followed(r)'
    BY <1>1 DEF Followed, RowsLast, Rows
<1>3. CASE Reads(r)
    BY <1>2, <1>3 DEF Reads, Served
<1>4. CASE \E o \in Messages : msgs[o].kind = "transform" /\ msgs[o].row = r
    <2>1. PICK o \in Messages : msgs[o].kind = "transform" /\ msgs[o].row = r
        BY <1>4
    <2>2. CASE o = t
        BY <1>2, <2>1, <2>2 DEF Served
    <2>3. CASE o # t
        <3>1. PICK i \in DOMAIN msgs' : msgs'[i] = msgs[o]
            BY <2>3 DEF Keeps
        <3> QED
            BY <1>2, <2>1, <3>1 DEF Served, Messages
    <2> QED
        BY <2>2, <2>3
<1> QED
    BY <1>1, <1>2, <1>3, <1>4 DEF Served

\* The row has been through before, if its status and what is sent have been there.
LEMMA ThroughBefore ==
    ASSUME NEW r, Through(r)', rows'[r].status = "SUCCESS" => Through(r),
           \A i \in DOMAIN msgs' :
                (msgs'[i].kind = "extract" /\ msgs'[i].pc = "sent" /\ msgs'[i].row = r) => Through(r)
    PROVE  Through(r)
BY DEF Through, At, Messages

LEMMA EndsServed ==
    ASSUME Typed, PagesServed, spent.empty = 0, NEW t \in Messages, Ends(t),
           NEW r \in DOMAIN rows', Due(r)'
    PROVE  Served(r)' /\ Followed(r)'
<1>1. msgs \in Seq(Message)
    BY DEF Typed, IsQueue
<1>2. Keeps(t) /\ \A i \in DOMAIN msgs' : \E o \in Messages \ {t} : msgs'[i] = msgs[o]
    BY <1>1, MessagesLeft DEF Ends
<1>3. /\ RowsLast /\ DOMAIN rows' = Rows /\ rows'[r].content = rows[r].content /\ UNCHANGED fed
      /\ \A o \in Rows \ {msgs[t].row} : rows'[o] = rows[o]
    BY DEF Ends, Marked, Untouched, RowsLast, Rows
<1>4. Through(r)
    <2>1. ASSUME rows'[r].status = "SUCCESS" PROVE Through(r)
        <3>1. CASE r = msgs[t].row
            <4>1. msgs[t].pc = "sent"
                BY <2>1, <3>1 DEF Ends
            <4>2. msgs[t].kind = "extract"
                BY <4>1, Delivery
            <4> QED
                BY <3>1, <4>1, <4>2 DEF Through, At
        <3>2. CASE r # msgs[t].row
            BY <1>3, <2>1, <3>2 DEF Through
        <3> QED
            BY <3>1, <3>2
    <2>2. \A i \in DOMAIN msgs' :
                (msgs'[i].kind = "extract" /\ msgs'[i].pc = "sent" /\ msgs'[i].row = r) => Through(r)
        BY <1>2 DEF Through, At
    <2>3. Through(r)'
        BY DEF Due
    <2> QED
        BY <2>1, <2>2, <2>3, ThroughBefore
<1> QED
    BY <1>2, <1>3, <1>4, StillServed DEF Ends

\* The delivery starts again, or holds an answer: its row is not through.
LEMMA RedoneServed ==
    ASSUME Typed, Alone, PagesServed, spent.empty = 0, NEW t \in Messages, NEW m, NEW pc,
           GoesTo(t, m, pc, <<>>), pc # "sent", Untouched(t), rows'[msgs[t].row].status # "SUCCESS",
           UNCHANGED fed, NEW r \in DOMAIN rows', Due(r)'
    PROVE  Served(r)' /\ Followed(r)'
<1>1. PICK none : none = <<>>
    OBVIOUS
<1>2. msgs \in Seq(Message) /\ none \in Seq(Message) /\ DOMAIN none = {} /\ m \in Message /\ MovesOn(t, m, none)
    BY <1>1 DEF Typed, IsQueue, GoesTo
<1>3. /\ Messages \subseteq DOMAIN msgs' /\ msgs'[t] = m /\ \A o \in Messages \ {t} : msgs'[o] = msgs[o]
      /\ DOMAIN msgs' \subseteq Messages
    BY <1>2, MessagesMoved
<1>4. Keeps(t)
    BY <1>3 DEF Keeps
<1>5. /\ RowsLast /\ DOMAIN rows' = Rows /\ \A o \in Rows \ {msgs[t].row} : rows'[o] = rows[o]
    BY DEF Untouched, RowsLast, Rows
<1>6. msgs[t].kind = "extract" /\ m.pc # "sent" /\ m.row = msgs[t].row
    BY DEF GoesTo
<1>7. Through(r)'
    BY DEF Due
<1>8. r # msgs[t].row
    <2>1. SUFFICES ASSUME r = msgs[t].row PROVE FALSE
        OBVIOUS
    <2>2. PICK i \in DOMAIN msgs' : msgs'[i].kind = "extract" /\ msgs'[i].pc = "sent" /\ msgs'[i].row = r
        BY <1>7, <2>1 DEF Through, At, Messages
    <2>3. i # t /\ i \in Messages /\ msgs[i].kind = "extract" /\ msgs[i].row = msgs[t].row
        BY <1>3, <1>6, <2>1, <2>2
    <2> QED
        BY <1>6, <2>3 DEF Alone, OnRow
<1>9. Through(r)
    <2>1. rows'[r].status = "SUCCESS" => Through(r)
        BY <1>5, <1>8 DEF Through
    <2>2. \A i \in DOMAIN msgs' :
                (msgs'[i].kind = "extract" /\ msgs'[i].pc = "sent" /\ msgs'[i].row = r) => Through(r)
        BY <1>3, <1>6 DEF Through, At
    <2> QED
        BY <1>7, <2>1, <2>2, ThroughBefore
<1>10. rows'[r].content = rows[r].content
    BY <1>5, <1>8
<1> QED
    BY <1>4, <1>5, <1>6, <1>9, <1>10, StillServed

LEMMA RowsAdded ==
    ASSUME rows \in Seq(RowRecord), NEW new \in Seq(RowRecord), rows' = rows \o new
    PROVE  /\ Rows \subseteq DOMAIN rows' /\ \A o \in Rows : rows'[o] = rows[o]
           /\ \A o \in DOMAIN rows' \ Rows : o - Len(rows) \in DOMAIN new /\ rows'[o] = new[o - Len(rows)]
           /\ \A i \in DOMAIN new : Len(rows) + i \in DOMAIN rows' \ Rows /\ rows'[Len(rows) + i] = new[i]
           /\ RowsLast
<1>1. PICK later : later = rows \o new
    OBVIOUS
<1>2. /\ later \in Seq(RowRecord) /\ \A i \in DOMAIN rows : i \in DOMAIN later /\ later[i] = rows[i]
      /\ \A i \in DOMAIN new : Len(rows) + i \in DOMAIN later /\ later[Len(rows) + i] = new[i]
      /\ \A j \in DOMAIN later :
            \/ j \in DOMAIN rows /\ later[j] = rows[j]
            \/ j > Len(rows) /\ j - Len(rows) \in DOMAIN new /\ later[j] = new[j - Len(rows)]
    BY <1>1, JoinedRows
<1>3. Rows = 1..Len(rows) /\ Len(rows) \in Nat /\ DOMAIN rows = Rows /\ DOMAIN new \subseteq Nat \ {0} /\ rows' = later
    BY <1>1 DEF Rows
<1>4. \A i \in DOMAIN new : Len(rows) + i \notin Rows
    BY <1>3
<1> QED
    BY <1>2, <1>3, <1>4 DEF RowsLast

LEMMA SendsServed ==
    ASSUME Typed, Paged, PagesServed, spent.empty = 0, NEW t \in Messages, NEW new, NEW transforms,
           Sends(t, new, transforms), Follows(t, new, transforms), NEW r \in DOMAIN rows', Due(r)'
    PROVE  Served(r)' /\ Followed(r)'
<1>1. PICK more : more = transforms \o NewGroup(Len(new))
    OBVIOUS
<1>2. PICK m : GoesTo(t, m, "sent", more)
    BY <1>1 DEF Sends
<1>3. Publishes(t, new, transforms, more)
    BY <1>1, PublishedParts
<1>4. more \in Seq(Message) /\ msgs \in Seq(Message) /\ m \in Message /\ MovesOn(t, m, more)
    BY <1>2, <1>3 DEF Publishes, GoesTo, Typed, IsQueue
<1>5. /\ Messages \subseteq DOMAIN msgs' /\ msgs'[t] = m
      /\ \A o \in Messages \ {t} : msgs'[o] = msgs[o]
      /\ \A i \in DOMAIN msgs' \ Messages : i - Len(msgs) \in DOMAIN more /\ msgs'[i] = more[i - Len(msgs)]
      /\ \A j \in DOMAIN more : Len(msgs) + j \in DOMAIN msgs' \ Messages /\ msgs'[Len(msgs) + j] = more[j]
    BY <1>4, MessagesMoved
<1>6. Keeps(t)
    BY <1>5 DEF Keeps
<1>7. rows \in Seq(RowRecord) /\ new \in Seq(RowRecord) /\ rows' = rows \o new
    BY DEF Sends, Typed, IsTable
<1>8. /\ Rows \subseteq DOMAIN rows' /\ \A o \in Rows : rows'[o] = rows[o]
      /\ \A o \in DOMAIN rows' \ Rows : o - Len(rows) \in DOMAIN new /\ rows'[o] = new[o - Len(rows)]
      /\ \A i \in DOMAIN new : Len(rows) + i \in DOMAIN rows' \ Rows /\ rows'[Len(rows) + i] = new[i]
      /\ RowsLast
    BY <1>7, RowsAdded
<1>9. r \in Rows
    <2>1. rows'[r].content # 0
        BY DEF Due
    <2>2. \A i \in DOMAIN new : new[i].content = 0
        BY DEF Sends, Blank
    <2> QED
        BY <1>8, <2>1, <2>2
<1>10. Through(r)'
    BY DEF Due
<1>11. msgs[t].kind = "extract" /\ m.row = msgs[t].row
    BY <1>2 DEF GoesTo
<1>12. CASE r # msgs[t].row
    <2>1. Through(r)
        <3>1. rows'[r].status = "SUCCESS" => Through(r)
            BY <1>8, <1>9 DEF Through
        <3>2. \A j \in DOMAIN more : more[j].pc # "sent"
            BY <1>3 DEF Publishes
        <3>3. \A i \in DOMAIN msgs' :
                (msgs'[i].kind = "extract" /\ msgs'[i].pc = "sent" /\ msgs'[i].row = r) => Through(r)
            BY <1>5, <1>11, <1>12, <3>2 DEF Through, At
        <3> QED
            BY <1>10, <3>1, <3>3, ThroughBefore
    <2>2. rows'[r].content = rows[r].content /\ UNCHANGED fed
        BY <1>8, <1>9 DEF Sends
    <2> QED
        BY <1>6, <1>8, <1>9, <1>11, <2>1, <2>2, StillServed
<1>13. CASE r = msgs[t].row
    <2>1. RowOf(t).type \in PageTypes
        BY <1>8, <1>9, <1>13 DEF Due, RowOf
    <2>2. /\ transforms # <<>>
          /\ \A p \in Followers(rows[r].type, rows[r].item) : \E i \in DOMAIN new : new[i].item = p
        <3>1. /\ transforms = <<Transform(msgs[t].row)>>
              /\ \A p \in Followers(rows[r].type, rows[r].item) : \E i \in DOMAIN new : new[i].item = p
            BY <1>13, <2>1 DEF Follows, RowOf
        <3>2. <<Transform(msgs[t].row)>> # <<>>
            OBVIOUS
        <3> QED
            BY <3>1, <3>2
    <2>3. Followed(r)'
        <3>1. rows'[r] = rows[r]
            BY <1>8, <1>9
        <3>2. ASSUME NEW p \in Followers(rows[r].type, rows[r].item) PROVE \E o \in DOMAIN rows' : rows'[o].item = p
            <4>1. PICK i \in DOMAIN new : new[i].item = p
                BY <2>2
            <4>2. Len(rows) + i \in DOMAIN rows' /\ rows'[Len(rows) + i].item = p
                BY <1>8, <4>1
            <4> QED
                BY <4>2
        <3> QED
            BY <3>1, <3>2 DEF Followed, Rows
    <2>4. Served(r)'
        <3>1. PICK j \in DOMAIN more : more[j].kind = "transform" /\ more[j].row = r
            BY <1>3, <1>13, <2>2 DEF Publishes
        <3> QED
            BY <1>5, <3>1 DEF Served, Messages
    <2> QED
        BY <2>3, <2>4
<1> QED
    BY <1>12, <1>13

LEMMA RunsServed ==
    ASSUME Typed, PagesServed, spent.empty = 0, NEW t \in Messages, Runs(t), NEW r \in DOMAIN rows', Due(r)'
    PROVE  Served(r)' /\ Followed(r)'
<1>1. msgs \in Seq(Message)
    BY DEF Typed, IsQueue
<1>2. Keeps(t) /\ \A i \in DOMAIN msgs' : \E o \in Messages \ {t} : msgs'[i] = msgs[o]
    BY <1>1, MessagesLeft DEF Runs
<1>3. RowsLast /\ DOMAIN rows' = Rows /\ rows' = rows /\ fed \subseteq fed' /\ rows'[r].content # 0
    BY DEF Runs, RowsLast, Rows, Due
<1>4. Through(r)
    <2>1. rows'[r].status = "SUCCESS" => Through(r)
        BY <1>3 DEF Through
    <2>2. \A i \in DOMAIN msgs' :
                (msgs'[i].kind = "extract" /\ msgs'[i].pc = "sent" /\ msgs'[i].row = r) => Through(r)
        BY <1>2 DEF Through, At
    <2>3. Through(r)'
        BY DEF Due
    <2> QED
        BY <2>1, <2>2, <2>3, ThroughBefore
<1>5. Reads(r)' \/ msgs[t].row # r
    <2>1. SUFFICES ASSUME msgs[t].row = r PROVE Reads(r)'
        OBVIOUS
    <2>2. <<r, rows[r].content>> \in fed'
        BY <1>3, <2>1 DEF Runs, WithOwn
    <2> QED
        BY <1>3, <2>2 DEF Reads
<1> QED
    BY <1>2, <1>3, <1>4, <1>5, StillServed

LEMMA StepServed ==
    ASSUME Typed, Alone, Paged, PagesServed, NEW t \in Messages, Goes(t), Later
    PROVE  PagesServed'
<1>1. SUFFICES ASSUME spent'.empty = 0, NEW r \in DOMAIN rows', Due(r)' PROVE Served(r)' /\ Followed(r)'
    BY DEF PagesServed, Rows
<1>2. spent.empty = 0 /\ ~ComesEmpty(t)
    BY <1>1 DEF Later, ComesEmpty
<1>3. CASE Ends(t)
    BY <1>1, <1>2, <1>3, EndsServed
<1>4. CASE Repeats(t)
    <2>1. PICK m : GoesTo(t, m, "queued", <<>>)
        BY <1>4 DEF Repeats
    <2>2. Untouched(t) /\ rows'[msgs[t].row].status # "SUCCESS" /\ UNCHANGED fed
        BY <1>4 DEF Repeats, Marked
    <2> QED
        BY <1>1, <1>2, <2>1, <2>2, RedoneServed
<1>5. CASE Fetches(t)
    <2>1. PICK m : GoesTo(t, m, "stored", <<>>)
        BY <1>5 DEF Fetches
    <2>2. Untouched(t) /\ rows'[msgs[t].row].status # "SUCCESS" /\ UNCHANGED fed
        BY <1>5 DEF Fetches
    <2> QED
        BY <1>1, <1>2, <2>1, <2>2, RedoneServed
<1>6. CASE Runs(t)
    BY <1>1, <1>2, <1>6, RunsServed
<1>7. CASE SendsOn(t)
    BY <1>1, <1>2, <1>7, SendsServed DEF SendsOn
<1> QED
    BY <1>2, <1>3, <1>4, <1>5, <1>6, <1>7 DEF Goes

\* All is quiet, and rows are run that had no delivery.
LEMMA QuietServed ==
    ASSUME Typed, Quiet, PagesServed, RowsLast, UNCHANGED fed, spent'.empty = spent.empty,
           \A o \in Rows : rows'[o].content = rows[o].content /\ (rows'[o].status = "SUCCESS" => rows[o].status = "SUCCESS"),
           \A o \in DOMAIN rows' \ Rows : rows'[o].content = 0,
           \A i \in DOMAIN msgs' : msgs'[i].pc = "queued"
    PROVE  PagesServed'
<1>1. SUFFICES ASSUME spent'.empty = 0, NEW r \in DOMAIN rows', Due(r)' PROVE Served(r)' /\ Followed(r)'
    BY DEF PagesServed, Rows
<1>2. r \in Rows /\ rows'[r].status = "SUCCESS"
    BY <1>1 DEF Due, Through, At, Messages
<1>3. Due(r)
    BY <1>1, <1>2 DEF Due, Through, RowsLast
<1>4. Reads(r) /\ Followed(r)
    <2>1. Served(r) /\ Followed(r)
        BY <1>1, <1>2, <1>3 DEF PagesServed
    <2>2. Messages = {}
        BY DEF Quiet, Messages
    <2> QED
        BY <2>1, <2>2 DEF Served
<1>5. Reads(r)'
    BY <1>2, <1>4 DEF Reads
<1>6. Followed(r)'
    BY <1>2, <1>4 DEF Followed, RowsLast, Rows
<1> QED
    BY <1>5, <1>6 DEF Served

LEMMA QuietAlone ==
    ASSUME DOMAIN chords' = {}, \A i \in DOMAIN msgs' : ~msgs'[i].next,
           \A i, j \in DOMAIN msgs' : msgs'[i].row = msgs'[j].row => i = j
    PROVE  Simple' /\ Alone'
BY DEF Simple, Alone, OnRow, Messages

LEMMA NextDayServes ==
    ASSUME Typed, Simple, PagesServed, PagedNextDay
    PROVE  Simple' /\ Alone' /\ PagesServed'
<1>1. rows \in Seq(RowRecord) /\ rows # <<>> /\ rows[1] \in RowRecord /\ Len(rows) \in Nat
    BY DEF Typed, IsTable
<1>2. PICK row : row = Row(rows[1].type, rows[1].item, 0)
    OBVIOUS
<1>3. row \in RowRecord /\ row.content = 0
    BY <1>1, <1>2, RowNew DEF RowRecord, Row
<1>4. PICK new : new = <<row>>
    OBVIOUS
<1>5. new \in Seq(RowRecord) /\ DOMAIN new = {1} /\ new[1] = row
    BY <1>3, <1>4
<1>6. rows' = rows \o new
    <2>1. rows' = Append(rows, row)
        BY <1>2 DEF PagedNextDay
    <2> QED
        BY <1>1, <1>3, <1>4, <2>1
<1>7. /\ \A o \in Rows : rows'[o] = rows[o]
      /\ \A o \in DOMAIN rows' \ Rows : o - Len(rows) \in DOMAIN new /\ rows'[o] = new[o - Len(rows)]
      /\ RowsLast
    BY <1>1, <1>5, <1>6, RowsAdded
<1>8. DOMAIN msgs' = {1} /\ ~msgs'[1].next /\ msgs'[1].pc = "queued"
    BY DEF PagedNextDay, NewGroup, Extract
<1>9. UNCHANGED <<fed, spent, chords>> /\ Quiet
    BY DEF PagedNextDay
<1>10. PagesServed'
    <2>1. \A o \in DOMAIN rows' \ Rows : rows'[o].content = 0
        BY <1>3, <1>5, <1>7
    <2> QED
        BY <1>7, <1>8, <1>9, <2>1, QuietServed
<1>11. Simple' /\ Alone'
    BY <1>8, <1>9, QuietAlone DEF Simple
<1> QED
    BY <1>10, <1>11

\* InOrder lists no element twice.
LEMMA RetriggerServes ==
    ASSUME Typed, Simple, PagesServed, NEW status \in {"FAILED", "PENDING"}, Retrigger(status, Itself)
    PROVE  Simple' /\ Alone' /\ PagesServed'
<1>1. PICK S : S = {r \in Rows : rows[r].status = status}
    OBVIOUS
<1>2. rows \in Seq(RowRecord) /\ Len(rows) \in Nat /\ Rows = 1..Len(rows) /\ S \subseteq 1..Len(rows)
    BY <1>1 DEF Typed, IsTable, Rows
<1>3. PICK chosen : chosen = InOrder(S)
    OBVIOUS
<1>4. /\ chosen \in Seq(S) /\ DOMAIN chosen = 1..Cardinality(S)
      /\ \A i, j \in DOMAIN chosen : chosen[i] = chosen[j] => i = j
    <2>1. InOrder(S) \in Seq(S) /\ DOMAIN InOrder(S) = 1..Cardinality(S)
        BY <1>2, InOrderLists
    <2>2. \A i, j \in 1..Cardinality(S) : InOrder(S)[i] = InOrder(S)[j] => i = j
        BY <1>2, InOrderOnce
    <2> QED
        BY <1>3, <2>1, <2>2
<1>5. /\ Quiet /\ Retriggered(IF status = "PENDING" THEN "sweeps" ELSE "retriggers")
      /\ rows' = [r \in Rows |-> [rows[r] EXCEPT !.status = IF @ = status THEN "PENDING" ELSE @]]
      /\ msgs' = [i \in DOMAIN chosen |-> Itself[chosen[i]]]
      /\ UNCHANGED <<chords, world, ended, fed>>
    BY <1>1, <1>3 DEF Retrigger
<1>6. \A i \in DOMAIN chosen : chosen[i] \in Rows
    <2>1. \A i \in DOMAIN chosen : chosen[i] \in S
        <3>1. chosen \in Seq(S)
            BY <1>4
        <3> QED
            BY ONLY <3>1
    <2> QED
        BY <1>1, <2>1
<1>7. DOMAIN msgs' = DOMAIN chosen /\ \A i \in DOMAIN msgs' : msgs'[i] = Extract(chosen[i], 0)
    BY <1>5, <1>6 DEF Itself
<1>8. \A i \in DOMAIN msgs' : msgs'[i].row = chosen[i] /\ ~msgs'[i].next /\ msgs'[i].pc = "queued"
    BY <1>7 DEF Extract
<1>9. Simple' /\ Alone'
    BY <1>4, <1>5, <1>7, <1>8, QuietAlone DEF Simple
<1>10. DOMAIN rows' = Rows /\ \A o \in Rows :
            /\ rows'[o].type = rows[o].type /\ rows'[o].item = rows[o].item /\ rows'[o].content = rows[o].content
            /\ rows'[o].status = "SUCCESS" => rows[o].status = "SUCCESS"
    <2>1. DOMAIN rows' = Rows
        BY <1>5
    <2>2. ASSUME NEW o \in Rows
          PROVE  /\ rows'[o].type = rows[o].type /\ rows'[o].item = rows[o].item /\ rows'[o].content = rows[o].content
                 /\ rows'[o].status = "SUCCESS" => rows[o].status = "SUCCESS"
        <3>1. rows[o] \in RowRecord
            BY <1>2 DEF Rows
        <3>2. rows'[o] = [rows[o] EXCEPT !.status = IF @ = status THEN "PENDING" ELSE @]
            BY <1>5
        <3> QED
            BY <3>1, <3>2 DEF RowRecord
    <2> QED
        BY <2>1, <2>2
<1>11. spent'.empty = spent.empty
    <2>1. spent \in [Faults \cup {"retriggers", "sweeps"} -> Nat]
        BY DEF Typed, IsWorld
    <2> QED
        BY <1>5, <2>1 DEF Retriggered, Faults
<1>12. RowsLast
    BY <1>10 DEF RowsLast
<1>13. PagesServed'
    BY <1>5, <1>8, <1>10, <1>11, <1>12, QuietServed
<1> QED
    BY <1>9, <1>13

LEMMA ChangeServes ==
    ASSUME Typed, Simple, Alone, PagesServed, UNCHANGED <<rows, msgs, chords, fed>>, spent'.empty = spent.empty
    PROVE  Simple' /\ Alone' /\ PagesServed'
<1>1. Simple' /\ Alone'
    BY DEF Simple, Alone, OnRow, Messages
<1>2. PagesServed'
    BY DEF PagesServed, Due, Through, Served, Followed, Reads, Rows, Messages, At
<1> QED
    BY <1>1, <1>2

-----------------------------------------------------------------------------
(* The inductive invariant about the pages.                                  *)

PagedInv == Paged => Simple /\ Alone /\ PagesServed

LEMMA PagedInvInit == Init => PagedInv
<1> SUFFICES ASSUME Init, Paged PROVE Simple /\ Alone /\ PagesServed
    BY DEF PagedInv
<1>1. PagedInit(source)
    BY DEF Init, Paged, PagedTypes, Singles
<1>2. PICK row : row = Row(source, Walks[source][1], 0)
    OBVIOUS
<1>3. rows = <<row>> /\ msgs = [i \in DOMAIN rows |-> Extract(i, 0)] /\ chords = <<>> /\ row.content = 0
    BY <1>1, <1>2 DEF PagedInit, InitRows, Row
<1>4. DOMAIN msgs = {1} /\ ~msgs[1].next
    BY <1>3 DEF Extract
<1> QED
    BY <1>3, <1>4 DEF Simple, Alone, OnRow, Messages, PagesServed, Due, Rows

LEMMA PagedInvNext == Typed /\ PagedInv /\ [Next]_<<source, vars>> => PagedInv'
<1> SUFFICES ASSUME Typed, PagedInv, [Next]_<<source, vars>>, Paged' PROVE Simple' /\ Alone' /\ PagesServed'
    BY DEF PagedInv
<1>1. UNCHANGED source /\ Paged /\ Simple /\ Alone /\ PagesServed
    BY DEF Next, PagedInv, Paged
<1>2. CASE UNCHANGED <<source, vars>>
    BY <1>1, <1>2, ChangeServes DEF vars
<1>3. CASE PagedNextDay
    BY <1>1, <1>3, NextDayServes
<1>4. CASE \E t \in Messages : PagedStep(t)
    BY <1>1, <1>4, StepEffect, StepAlone, StepServed
<1>5. CASE \E status \in {"FAILED", "PENDING"} : Retrigger(status, Itself)
    BY <1>1, <1>5, RetriggerServes
<1>6. CASE \E i \in Items : Change(i)
    <2>1. UNCHANGED <<rows, msgs, chords, fed>> /\ Spend("changes")
        BY <1>6 DEF Change
    <2>2. spent'.empty = spent.empty
        BY <2>1, SpendLater DEF Faults, Typed
    <2> QED
        BY <1>1, <2>1, <2>2, ChangeServes
<1>7. ~(UNCHANGED <<source, vars>>) => PagedNext
    BY <1>1 DEF Next, Paged, PagedTypes, Singles
<1> QED
    BY <1>2, <1>3, <1>4, <1>5, <1>6, <1>7 DEF PagedNext

LEMMA QuietFollowed == Typed /\ PagedInv => PagesFollowed
<1> SUFFICES ASSUME Typed, PagedInv, NEW r \in Settled(Singles \cup {"IFRC"})
             PROVE  Reads(r) /\ \A p \in Followers(rows[r].type, rows[r].item) : \E o \in Rows : rows[o].item = p
    BY DEF PagesFollowed
<1>1. Quiet /\ spent.empty = 0 /\ r \in Rows /\ rows[r].type \in PageTypes /\ Good(r)
    BY DEF Settled, PageTypes
<1>2. Paged
    <2>1. rows[r].type \in TypesOf(source) /\ rows[r].type \in PagedTypes
        BY <1>1 DEF Typed, PageTypes, PagedTypes
    <2>2. CASE source \in {"DISASTERCHARTER", "GDACS", "USGS", "PDC", "CEMS"}
        BY <1>1, <2>1, <2>2 DEF TypesOf, PageTypes, Singles, ChildTypes, PdcChildTypes
    <2>3. CASE source \notin {"DISASTERCHARTER", "GDACS", "USGS", "PDC", "CEMS"}
        BY <2>1, <2>3 DEF TypesOf, Paged
    <2> QED
        BY <2>2, <2>3
<1>3. Served(r) /\ Followed(r)
    BY <1>1, <1>2 DEF PagedInv, PagesServed, Due, Through, Good
<1>4. Messages = {}
    BY <1>1 DEF Quiet, Messages
<1> QED
    BY <1>3, <1>4 DEF Served, Followed

(* No page and no transform of the sources that walk through pages is lost, and *)
(* of those that make one request: when all is quiet, what a page holds has     *)
(* been read, and the page after it has its row, whatever was retried,          *)
(* redelivered or retriggered (handle_type_query of ifrc_event/extract.py and   *)
(* of the sources of one request), unless an answer came empty.                 *)
THEOREM PagesLead == SourcesSpec => []PagesFollowed
<1>1. Init => Typed /\ AllAttended /\ PagedInv
    BY InitEstablishes, PagedInvInit
<1>2. Typed /\ AllAttended /\ PagedInv /\ [Next]_<<source, vars>> => (Typed /\ AllAttended /\ PagedInv)'
    BY NextKeeps, PagedInvNext
<1>3. Typed /\ AllAttended /\ PagedInv => PagesFollowed
    BY QuietFollowed
<1> QED
    BY <1>1, <1>2, <1>3, PTL DEF SourcesSpec

-----------------------------------------------------------------------------
(* CEMS: two rows of one URL are never extracted together, if each activation  *)
(* is listed once and neither losses nor retriggers bring them together.       *)

Undisturbed == spent.losses = 0 /\ spent.retriggers = 0 /\ spent.empty = 0

Active(r) == \E t \in Messages : OnRow(t, r) /\ msgs[t].pc \in {"queued", "stored"}

\* A pending row has its message; a row that is to be fetched holds nothing.
Awaited == \A r \in Rows : rows[r].status = "PENDING" => \E t \in Messages : OnRow(t, r)
Unread == \A r \in Rows, t \in Messages : (OnRow(t, r) /\ msgs[t].pc = "queued") => rows[r].content = 0

\* One page and one row of an activation at a time, and none of an activation to come.
OneAtATime ==
    \A r, o \in Rows :
        (/\ Active(r) /\ Active(o) /\ rows[r].type = rows[o].type
         /\ rows[r].type = "CEMS" \/ rows[r].item = rows[o].item) => r = o
Ahead ==
    \A r, o \in Rows : \A j, k \in DOMAIN CemsPages :
        (/\ Active(r) /\ rows[r].type = "CEMS" /\ rows[r].item = CemsPages[k] /\ j >= k
         /\ Active(o) /\ rows[o].type = "CEMS_DETAIL") => rows[o].item \notin Listing(Codes[CemsPages[j]])

\* What a row holds has been read, or a transform is to read it, or the row is at work.
Comes(r) ==
    \E t \in Messages :
        /\ msgs[t].kind = "transform" /\ msgs[t].row \in SameUrl(r)
        /\ rows[msgs[t].row].content = rows[r].content
Arrived(r) == \E t \in Messages : OnRow(t, r) /\ msgs[t].pc = "stored"
Held(r) == (rows[r].type = "CEMS_DETAIL" /\ rows[r].content # 0) => CemsContentRead(r) \/ Comes(r) \/ Arrived(r)

InTurn == Awaited /\ Unread /\ OneAtATime /\ Ahead /\ \A r \in Rows : Held(r)

LEMMA OrderKept ==
    ASSUME OneAtATime, Ahead, DOMAIN rows' = Rows, RowsLast, \A r \in Rows : Active(r)' => Active(r)
    PROVE  OneAtATime' /\ Ahead'
<1>1. \A r \in Rows : rows'[r].type = rows[r].type /\ rows'[r].item = rows[r].item
    BY DEF RowsLast
<1>2. OneAtATime'
    BY <1>1 DEF OneAtATime, Rows
<1>3. Ahead'
    <2>1. \A r, o \in Rows : \A j, k \in DOMAIN CemsPages :
            (/\ Active(r)' /\ rows'[r].type = "CEMS" /\ rows'[r].item = CemsPages[k] /\ j >= k
             /\ Active(o)' /\ rows'[o].type = "CEMS_DETAIL") => rows'[o].item \notin Listing(Codes[CemsPages[j]])
        BY <1>1 DEF Ahead
    <2> QED
        BY <2>1 DEF Ahead, Rows
<1> QED
    BY <1>2, <1>3

LEMMA SameUrlLater ==
    ASSUME RowsLast, NEW r \in Rows, NEW o \in SameUrl(r)
    PROVE  o \in SameUrl(r)'
BY DEF SameUrl, RowsLast, Rows

LEMMA StillHeld ==
    ASSUME RowsLast, NEW r \in Rows, Held(r), NEW t \in Messages, Keeps(t), fed \subseteq fed',
           rows'[r].content = rows[r].content,
           \A o \in Rows : rows[o].content # 0 => rows'[o].content = rows[o].content,
           ~(OnRow(t, r) /\ msgs[t].pc = "stored"),
           (msgs[t].kind = "transform" /\ rows[msgs[t].row].content # 0) =>
                <<msgs[t].row, rows[msgs[t].row].content>> \in fed'
    PROVE  Held(r)'
<1>1. SUFFICES ASSUME rows[r].type = "CEMS_DETAIL", rows[r].content # 0
               PROVE  (CemsContentRead(r) \/ Comes(r) \/ Arrived(r))'
    BY DEF Held, RowsLast
<1>2. CASE CemsContentRead(r)
    <2>1. PICK f \in fed : f[1] \in SameUrl(r) /\ f[2] = rows[r].content
        BY <1>2 DEF CemsContentRead
    <2>2. f \in fed' /\ f[1] \in SameUrl(r)' /\ f[2] = rows'[r].content
        BY <2>1, SameUrlLater
    <2> QED
        BY <2>2 DEF CemsContentRead
<1>3. CASE Comes(r)
    <2>1. PICK o \in Messages :
            /\ msgs[o].kind = "transform" /\ msgs[o].row \in SameUrl(r)
            /\ rows[msgs[o].row].content = rows[r].content
        BY <1>3 DEF Comes
    <2>2. msgs[o].row \in SameUrl(r)' /\ msgs[o].row \in Rows
        BY <2>1, SameUrlLater DEF SameUrl
    <2>3. rows'[msgs[o].row].content = rows'[r].content
        BY <1>1, <2>1, <2>2
    <2>4. CASE o = t
        <3>1. <<msgs[o].row, rows[msgs[o].row].content>> \in fed'
            BY <1>1, <2>1, <2>4
        <3>2. CemsContentRead(r)'
            BY <2>1, <2>2, <3>1 DEF CemsContentRead
        <3> QED
            BY <3>2
    <2>5. CASE o # t
        <3>1. PICK i \in DOMAIN msgs' : msgs'[i] = msgs[o]
            BY <2>5 DEF Keeps
        <3>2. Comes(r)'
            BY <2>1, <2>2, <2>3, <3>1 DEF Comes, Messages
        <3> QED
            BY <3>2
    <2> QED
        BY <2>4, <2>5
<1>4. CASE Arrived(r)
    <2>1. PICK o \in Messages : OnRow(o, r) /\ msgs[o].pc = "stored"
        BY <1>4 DEF Arrived
    <2>2. PICK i \in DOMAIN msgs' : msgs'[i] = msgs[o]
        BY <2>1 DEF Keeps
    <2>3. Arrived(r)'
        BY <2>1, <2>2 DEF Arrived, OnRow, Messages
    <2> QED
        BY <2>3
<1> QED
    BY <1>1, <1>2, <1>3, <1>4 DEF Held

LEMMA AckedInTurn ==
    ASSUME Typed, Alone, InTurn, NEW t \in Messages, msgs' = Acked(t), RowsLast, DOMAIN rows' = Rows,
           \A o \in Rows : rows'[o].content = rows[o].content, fed \subseteq fed',
           \A o \in Rows : rows'[o].status = "PENDING" => rows[o].status = "PENDING" /\ ~OnRow(t, o),
           msgs[t].kind = "extract" => msgs[t].pc # "stored",
           (msgs[t].kind = "transform" /\ rows[msgs[t].row].content # 0) =>
                <<msgs[t].row, rows[msgs[t].row].content>> \in fed'
    PROVE  InTurn'
<1>1. /\ msgs \in Seq(Message) /\ Keeps(t)
      /\ \A i \in DOMAIN msgs' : \E o \in Messages \ {t} : msgs'[i] = msgs[o]
    BY MessagesLeft DEF Typed, IsQueue
<1>2. Awaited'
    <2>1. ASSUME NEW r \in Rows, rows'[r].status = "PENDING" PROVE \E i \in DOMAIN msgs' : OnRow(i, r)'
        <3>1. rows[r].status = "PENDING" /\ ~OnRow(t, r)
            BY <2>1
        <3>2. PICK o \in Messages : OnRow(o, r)
            BY <3>1 DEF InTurn, Awaited
        <3>3. PICK i \in DOMAIN msgs' : msgs'[i] = msgs[o]
            BY <1>1, <3>1, <3>2 DEF Keeps
        <3> QED
            BY <3>2, <3>3 DEF OnRow
    <2> QED
        BY <2>1 DEF Awaited, Rows, Messages
<1>3. Unread'
    <2>1. ASSUME NEW r \in Rows, NEW i \in DOMAIN msgs', msgs'[i].kind = "extract", msgs'[i].pc = "queued",
                 msgs'[i].row = r
          PROVE  rows'[r].content = 0
        <3>1. PICK o \in Messages : msgs'[i] = msgs[o]
            BY <1>1
        <3> QED
            BY <2>1, <3>1 DEF InTurn, Unread, OnRow
    <2> QED
        BY <2>1 DEF Unread, OnRow, Messages, Rows
<1>4. \A r \in Rows : Active(r)' => Active(r)
    BY <1>1 DEF Active, OnRow, Messages
<1>5. OneAtATime' /\ Ahead'
    BY <1>4, OrderKept DEF InTurn
<1>6. ASSUME NEW r \in Rows PROVE Held(r)'
    <2>1. Held(r) /\ ~(OnRow(t, r) /\ msgs[t].pc = "stored")
        BY DEF InTurn, OnRow
    <2> QED
        BY <1>1, <2>1, StillHeld
<1> QED
    BY <1>2, <1>3, <1>5, <1>6 DEF InTurn, Rows

LEMMA RedoneInTurn ==
    ASSUME Typed, Alone, InTurn, NEW t \in Messages, NEW m, NEW pc \in {"queued", "stored"},
           GoesTo(t, m, pc, <<>>), msgs[t].pc = "queued", Untouched(t), UNCHANGED fed, msgs[t].row \in Rows,
           rows'[msgs[t].row].status # "PENDING",
           pc = "queued" => rows'[msgs[t].row].content = rows[msgs[t].row].content
    PROVE  InTurn'
<1>1. PICK none : none = <<>>
    OBVIOUS
<1>2. PICK r0 : r0 = msgs[t].row
    OBVIOUS
<1>3. msgs \in Seq(Message) /\ none \in Seq(Message) /\ DOMAIN none = {} /\ m \in Message /\ MovesOn(t, m, none)
    BY <1>1 DEF Typed, IsQueue, GoesTo
<1>4. /\ Messages \subseteq DOMAIN msgs' /\ msgs'[t] = m /\ \A o \in Messages \ {t} : msgs'[o] = msgs[o]
      /\ DOMAIN msgs' \subseteq Messages
    BY <1>3, MessagesMoved
<1>5. Keeps(t)
    BY <1>4 DEF Keeps
<1>6. /\ RowsLast /\ DOMAIN rows' = Rows /\ \A o \in Rows \ {r0} : rows'[o] = rows[o]
      /\ msgs[t].kind = "extract" /\ m.kind = "extract" /\ m.row = r0 /\ m.pc = pc
    BY <1>2 DEF Untouched, RowsLast, Rows, GoesTo
<1>7. rows[r0].content = 0 /\ r0 \in Rows /\ OnRow(t, r0)
    BY <1>2, <1>6 DEF InTurn, Unread, OnRow
<1>8. \A o \in Messages : \A r : OnRow(o, r) /\ r = r0 => o = t
    BY <1>2, <1>6 DEF Alone, OnRow
<1>9. Awaited'
    <2>1. ASSUME NEW r \in Rows, rows'[r].status = "PENDING" PROVE \E i \in DOMAIN msgs' : OnRow(i, r)'
        <3>1. r # r0 /\ rows[r].status = "PENDING"
            BY <1>2, <1>6, <2>1
        <3>2. PICK o \in Messages : OnRow(o, r)
            BY <3>1 DEF InTurn, Awaited
        <3>3. o # t /\ msgs'[o] = msgs[o] /\ o \in DOMAIN msgs'
            BY <1>2, <1>4, <3>1, <3>2 DEF OnRow
        <3> QED
            BY <3>2, <3>3 DEF OnRow
    <2> QED
        BY <1>6, <2>1 DEF Awaited, Rows, Messages
<1>10. Unread'
    <2>1. ASSUME NEW r \in Rows, NEW i \in DOMAIN msgs', msgs'[i].kind = "extract", msgs'[i].pc = "queued",
                 msgs'[i].row = r
          PROVE  rows'[r].content = 0
        <3>1. CASE i = t
            BY <1>2, <1>4, <1>6, <1>7, <2>1, <3>1
        <3>2. CASE i # t
            <4>1. i \in Messages /\ msgs'[i] = msgs[i] /\ OnRow(i, r)
                BY <1>4, <2>1, <3>2 DEF OnRow
            <4>2. r # r0
                BY <1>8, <3>2, <4>1
            <4> QED
                BY <1>6, <2>1, <4>1, <4>2 DEF InTurn, Unread
        <3> QED
            BY <3>1, <3>2
    <2> QED
        BY <1>6, <2>1 DEF Unread, OnRow, Messages, Rows
<1>11. \A r \in Rows : Active(r)' => Active(r)
    <2>1. ASSUME NEW r \in Rows, NEW i \in DOMAIN msgs', msgs'[i].kind = "extract", msgs'[i].row = r,
                 msgs'[i].pc \in {"queued", "stored"}
          PROVE  Active(r)
        <3>1. CASE i = t
            BY <1>2, <1>4, <1>6, <2>1, <3>1 DEF Active, OnRow
        <3>2. CASE i # t
            BY <1>4, <2>1, <3>2 DEF Active, OnRow
        <3> QED
            BY <3>1, <3>2
    <2> QED
        BY <2>1 DEF Active, OnRow, Messages
<1>12. OneAtATime' /\ Ahead'
    BY <1>6, <1>11, OrderKept DEF InTurn
<1>13. ASSUME NEW r \in Rows PROVE Held(r)'
    <2>1. CASE r # r0
        <3>1. rows'[r].content = rows[r].content /\ ~OnRow(t, r)
            BY <1>2, <1>6, <2>1 DEF OnRow
        <3>2. \A o \in Rows : rows[o].content # 0 => rows'[o].content = rows[o].content
            BY <1>6, <1>7
        <3>3. Held(r)
            BY DEF InTurn
        <3> QED
            BY <1>5, <1>6, <3>1, <3>2, <3>3, StillHeld
    <2>2. CASE r = r0 /\ pc = "queued"
        BY <1>2, <1>7, <2>2 DEF Held
    <2>3. CASE r = r0 /\ pc = "stored"
        <3>1. Arrived(r)'
            BY <1>4, <1>6, <2>3 DEF Arrived, OnRow, Messages
        <3> QED
            BY <3>1 DEF Held
    <2> QED
        BY <2>1, <2>2, <2>3
<1> QED
    BY <1>6, <1>9, <1>10, <1>12, <1>13 DEF InTurn, Rows

\* The queue after a handler has gone on.
SentQueue(t, new, transforms) ==
    /\ Keeps(t) /\ \E i \in DOMAIN msgs' : msgs'[i].kind = "extract" /\ msgs'[i].row = msgs[t].row
    /\ \A i \in DOMAIN msgs' : msgs'[i].kind = "extract" =>
        \/ \E o \in Messages \ {t} : msgs'[i] = msgs[o]
        \/ msgs'[i].row = msgs[t].row /\ msgs'[i].pc = "sent"
        \/ \E k \in DOMAIN new : msgs'[i].row = Len(rows) + k
    /\ \A k \in DOMAIN new : \E i \in DOMAIN msgs' : msgs'[i].kind = "extract" /\ msgs'[i].row = Len(rows) + k
    /\ transforms # <<>> => \E i \in DOMAIN msgs' : msgs'[i].kind = "transform" /\ msgs'[i].row = msgs[t].row

LEMMA SentQueueIs ==
    ASSUME Typed, Paged, NEW t \in Messages, NEW new, NEW transforms, Sends(t, new, transforms)
    PROVE  SentQueue(t, new, transforms)
<1>1. PICK more : more = transforms \o NewGroup(Len(new))
    OBVIOUS
<1>2. PICK m : GoesTo(t, m, "sent", more)
    BY <1>1 DEF Sends
<1>3. Publishes(t, new, transforms, more)
    BY <1>1, PublishedParts
<1>4. more \in Seq(Message) /\ msgs \in Seq(Message) /\ m \in Message /\ MovesOn(t, m, more)
    BY <1>2, <1>3 DEF Publishes, GoesTo, Typed, IsQueue
<1>5. /\ Messages \subseteq DOMAIN msgs' /\ msgs'[t] = m
      /\ \A o \in Messages \ {t} : msgs'[o] = msgs[o]
      /\ \A i \in DOMAIN msgs' \ Messages : i - Len(msgs) \in DOMAIN more /\ msgs'[i] = more[i - Len(msgs)]
      /\ \A j \in DOMAIN more : Len(msgs) + j \in DOMAIN msgs' \ Messages /\ msgs'[Len(msgs) + j] = more[j]
    BY <1>4, MessagesMoved
<1>6. m.row = msgs[t].row /\ m.pc = "sent" /\ m.kind = "extract" /\ DOMAIN new = 1..Len(new)
    BY <1>2 DEF GoesTo, Sends
<1>7. Keeps(t) /\ \E i \in DOMAIN msgs' : msgs'[i].kind = "extract" /\ msgs'[i].row = msgs[t].row
    BY <1>5, <1>6 DEF Keeps
<1>8. ASSUME NEW i \in DOMAIN msgs', msgs'[i].kind = "extract"
      PROVE  \/ \E o \in Messages \ {t} : msgs'[i] = msgs[o]
             \/ msgs'[i].row = msgs[t].row /\ msgs'[i].pc = "sent"
             \/ \E k \in DOMAIN new : msgs'[i].row = Len(rows) + k
    <2>1. CASE i \in Messages
        BY <1>5, <1>6, <2>1
    <2>2. CASE i \notin Messages
        <3>1. PICK j \in DOMAIN more : msgs'[i] = more[j]
            BY <1>5, <2>2
        <3>2. \/ more[j].kind = "transform"
              \/ more[j].row = Len(rows) + (j - Len(transforms)) /\ j - Len(transforms) \in 1..Len(new)
            BY <1>3 DEF Publishes
        <3> QED
            BY <1>6, <1>8, <3>1, <3>2
    <2> QED
        BY <2>1, <2>2
<1>9. ASSUME NEW k \in DOMAIN new
      PROVE  \E i \in DOMAIN msgs' : msgs'[i].kind = "extract" /\ msgs'[i].row = Len(rows) + k
    <2>1. PICK j \in DOMAIN more : more[j].kind = "extract" /\ more[j].row = Len(rows) + k
        BY <1>3, <1>6 DEF Publishes
    <2> QED
        BY <1>5, <2>1
<1>10. transforms # <<>> => \E i \in DOMAIN msgs' : msgs'[i].kind = "transform" /\ msgs'[i].row = msgs[t].row
    <2>1. transforms # <<>> => \E j \in DOMAIN more : more[j].kind = "transform" /\ more[j].row = msgs[t].row
        BY <1>3 DEF Publishes
    <2> QED
        BY <1>5, <2>1
<1> QED
    BY <1>7, <1>8, <1>9, <1>10 DEF SentQueue

\* A handler that goes on leaves the other rows as they are.
LEMMA SendsKept ==
    ASSUME Typed, Paged, Alone, InTurn, NEW t \in Messages, NEW new, NEW transforms, Sends(t, new, transforms)
    PROVE  /\ Awaited' /\ Unread' /\ \A r \in Rows : Active(r)' => Active(r) /\ r # msgs[t].row
           /\ \A r \in DOMAIN rows' : r # msgs[t].row => Held(r)'
<1>1. PICK r0 : r0 = msgs[t].row
    OBVIOUS
<1>2. SentQueue(t, new, transforms) /\ msgs[t].pc = "stored" /\ r0 \in Rows /\ msgs[t].kind = "extract"
    BY <1>1, SentQueueIs, Delivery DEF Sends, At
<1>3. /\ Keeps(t) /\ \E i \in DOMAIN msgs' : msgs'[i].kind = "extract" /\ msgs'[i].row = r0
      /\ \A i \in DOMAIN msgs' : msgs'[i].kind = "extract" =>
            \/ \E o \in Messages \ {t} : msgs'[i] = msgs[o]
            \/ msgs'[i].row = r0 /\ msgs'[i].pc = "sent"
            \/ \E k \in DOMAIN new : msgs'[i].row = Len(rows) + k
      /\ \A k \in DOMAIN new : \E i \in DOMAIN msgs' : msgs'[i].kind = "extract" /\ msgs'[i].row = Len(rows) + k
    BY <1>1, <1>2 DEF SentQueue
<1>4. rows \in Seq(RowRecord) /\ new \in Seq(RowRecord) /\ rows' = rows \o new /\ UNCHANGED fed
    BY DEF Sends, Typed, IsTable
<1>5. /\ Rows \subseteq DOMAIN rows' /\ \A o \in Rows : rows'[o] = rows[o]
      /\ \A o \in DOMAIN rows' \ Rows : o - Len(rows) \in DOMAIN new /\ rows'[o] = new[o - Len(rows)]
      /\ \A i \in DOMAIN new : Len(rows) + i \in DOMAIN rows' \ Rows /\ rows'[Len(rows) + i] = new[i]
      /\ RowsLast
    BY <1>4, RowsAdded
<1>6. \A o \in DOMAIN rows' \ Rows : rows'[o].content = 0 /\ Len(rows) + (o - Len(rows)) = o
    <2>1. \A i \in DOMAIN new : new[i].content = 0
        BY DEF Sends, Blank
    <2>2. Len(rows) \in Nat /\ DOMAIN rows' \subseteq Nat
        BY <1>4
    <2> QED
        BY <1>5, <2>1, <2>2
<1>7. Awaited'
    <2>1. ASSUME NEW r \in DOMAIN rows', rows'[r].status = "PENDING" PROVE \E i \in DOMAIN msgs' : OnRow(i, r)'
        <3>1. CASE r \in Rows /\ r # r0
            <4>1. rows[r].status = "PENDING"
                BY <1>5, <2>1, <3>1
            <4>2. PICK o \in Messages : OnRow(o, r)
                BY <3>1, <4>1 DEF InTurn, Awaited
            <4>3. PICK i \in DOMAIN msgs' : msgs'[i] = msgs[o]
                BY <1>1, <1>3, <3>1, <4>2 DEF Keeps, OnRow
            <4> QED
                BY <4>2, <4>3 DEF OnRow
        <3>2. CASE r = r0
            BY <1>3, <3>2 DEF OnRow
        <3>3. CASE r \notin Rows
            <4>1. r - Len(rows) \in DOMAIN new /\ Len(rows) + (r - Len(rows)) = r
                BY <1>5, <1>6, <3>3
            <4> QED
                BY <1>3, <4>1 DEF OnRow
        <3> QED
            BY <3>1, <3>2, <3>3
    <2> QED
        BY <2>1 DEF Awaited, Rows, Messages
<1>8. Unread'
    <2>1. ASSUME NEW r \in DOMAIN rows', NEW i \in DOMAIN msgs', msgs'[i].kind = "extract", msgs'[i].pc = "queued",
                 msgs'[i].row = r
          PROVE  rows'[r].content = 0
        <3>1. CASE r \notin Rows
            BY <1>6, <3>1
        <3>2. CASE r \in Rows
            <4>1. PICK o \in Messages : msgs'[i] = msgs[o]
                BY <1>3, <1>5, <2>1, <3>2
            <4> QED
                BY <1>5, <2>1, <3>2, <4>1 DEF InTurn, Unread, OnRow
        <3> QED
            BY <3>1, <3>2
    <2> QED
        BY <2>1 DEF Unread, OnRow, Messages, Rows
<1>9. ASSUME NEW r \in Rows, Active(r)' PROVE Active(r) /\ r # r0
    <2>1. PICK i \in DOMAIN msgs' : msgs'[i].kind = "extract" /\ msgs'[i].row = r /\ msgs'[i].pc \in {"queued", "stored"}
        BY <1>9 DEF Active, OnRow, Messages
    <2>2. PICK o \in Messages \ {t} : msgs'[i] = msgs[o]
        BY <1>3, <1>5, <2>1
    <2>3. msgs[o].row # r0
        BY <1>1, <1>2, <2>1, <2>2 DEF Alone, OnRow
    <2> QED
        BY <2>1, <2>2, <2>3 DEF Active, OnRow
<1>10. ASSUME NEW r \in DOMAIN rows', r # r0 PROVE Held(r)'
    <2>1. CASE r \in Rows
        <3>1. /\ Held(r) /\ rows'[r].content = rows[r].content /\ ~OnRow(t, r) /\ msgs[t].kind # "transform"
              /\ \A o \in Rows : rows[o].content # 0 => rows'[o].content = rows[o].content
            BY <1>1, <1>2, <1>5, <1>10, <2>1 DEF InTurn, OnRow
        <3> QED
            BY <1>3, <1>4, <1>5, <2>1, <3>1, StillHeld
    <2>2. CASE r \notin Rows
        BY <1>6, <2>2 DEF Held
    <2> QED
        BY <2>1, <2>2
<1> QED
    BY <1>1, <1>7, <1>8, <1>9, <1>10

\* The row of an activation: skipped only if another row of the URL holds the same, whose
\* content has been read or is to be.
LEMMA DetailInTurn ==
    ASSUME Typed, Paged, Alone, InTurn, NEW t \in Messages, NEW transforms, Sends(t, <<>>, transforms),
           RowOf(t).type = "CEMS_DETAIL",
           transforms # <<>> \/ \E o \in CemsPrevious(msgs[t].row) :
                rows[o].content # 0 /\ rows[o].content = RowOf(t).content
    PROVE  InTurn'
<1>1. PICK r0 : r0 = msgs[t].row
    OBVIOUS
<1>2. PICK new : new = <<>>
    OBVIOUS
<1>3. Sends(t, new, transforms) /\ new \in Seq(RowRecord) /\ DOMAIN new = {}
    BY <1>2
<1>4. /\ Awaited' /\ Unread' /\ \A r \in Rows : Active(r)' => Active(r) /\ r # r0
      /\ \A r \in DOMAIN rows' : r # r0 => Held(r)'
    BY <1>1, <1>3, SendsKept
<1>5. rows \in Seq(RowRecord) /\ rows' = rows \o new /\ UNCHANGED fed /\ msgs[t].pc = "stored"
    BY <1>3 DEF Sends, Typed, IsTable, At
<1>6. DOMAIN rows' = Rows /\ RowsLast /\ \A o \in Rows : rows'[o] = rows[o]
    BY <1>3, <1>5, RowsAdded
<1>7. OneAtATime' /\ Ahead'
    BY <1>4, <1>6, OrderKept DEF InTurn
<1>8. /\ SentQueue(t, new, transforms) /\ r0 \in Rows /\ msgs[t].kind = "extract" /\ rows[r0].type = "CEMS_DETAIL"
      /\ rows[r0].content = RowOf(t).content
    BY <1>1, <1>3, <1>5, SentQueueIs, Delivery DEF RowOf
<1>9. Held(r0)'
    <2>1. SUFFICES ASSUME rows[r0].content # 0 PROVE (CemsContentRead(r0) \/ Comes(r0))'
        BY <1>6, <1>8 DEF Held
    <2>2. CASE transforms # <<>>
        <3>1. PICK i \in DOMAIN msgs' : msgs'[i].kind = "transform" /\ msgs'[i].row = r0
            BY <1>1, <1>8, <2>2 DEF SentQueue
        <3>2. r0 \in SameUrl(r0)'
            BY <1>6, <1>8 DEF SameUrl, Rows
        <3>3. Comes(r0)'
            BY <3>1, <3>2 DEF Comes, Messages
        <3> QED
            BY <3>3
    <2>3. ASSUME NEW o \in CemsPrevious(r0), rows[o].content # 0, rows[o].content = rows[r0].content
          PROVE  (CemsContentRead(r0) \/ Comes(r0))'
        <3>1. o \in Rows /\ o # r0 /\ rows[o].type = rows[r0].type /\ rows[o].item = rows[r0].item
            BY DEF CemsPrevious, SameUrl
        <3>2. SameUrl(o)' = SameUrl(r0)'
            BY <1>6, <1>8, <3>1 DEF SameUrl
        <3>3. (CemsContentRead(o) \/ Comes(o) \/ Arrived(o))'
            <4>1. Held(o)'
                BY <1>4, <1>6, <3>1
            <4> QED
                BY <1>6, <1>8, <2>3, <3>1, <4>1 DEF Held
        <3>4. ~Arrived(o)'
            <4>1. SUFFICES ASSUME Arrived(o)' PROVE FALSE
                OBVIOUS
            <4>2. Active(o)'
                BY <4>1 DEF Arrived, Active
            <4>3. Active(o)
                BY <1>4, <3>1, <4>2
            <4>4. Active(r0)
                BY <1>1, <1>5, <1>8 DEF Active, OnRow
            <4> QED
                BY <1>8, <3>1, <4>3, <4>4 DEF InTurn, OneAtATime
        <3>5. rows'[o].content = rows'[r0].content
            BY <1>6, <1>8, <2>3, <3>1
        <3>6. CemsContentRead(o)' => CemsContentRead(r0)'
            BY <3>2, <3>5 DEF CemsContentRead
        <3>7. Comes(o)' => Comes(r0)'
            BY <3>2, <3>5 DEF Comes
        <3> QED
            BY <3>3, <3>4, <3>6, <3>7
    <2> QED
        BY <1>1, <1>8, <2>2, <2>3
<1>10. \A r \in Rows : Held(r)'
    BY <1>4, <1>6, <1>9
<1> QED
    BY <1>4, <1>6, <1>7, <1>10 DEF InTurn, Rows

\* No page lists an activation twice, and no two pages list the same.  Nothing in the code sees
\* to that, it is the service that lists each activation once; where it does not, two rows of an
\* activation are extracted together and may each be skipped for the other.
CodesOnce ==
    \A p, q \in Listing(CemsPages) : \A i \in DOMAIN Codes[p], j \in DOMAIN Codes[q] :
        Codes[p][i] = Codes[q][j] => p = q /\ i = j

\* A page of CEMS: the rows of its activations, and that of the next page.
LEMMA PageInTurn ==
    ASSUME CodesOnce, Typed, Paged, Alone, InTurn, NEW t \in Messages, NEW details, NEW next,
           CemsRows(t, details, next), Sends(t, details \o next, <<>>)
    PROVE  InTurn'
<1>1. PICK r0 : r0 = msgs[t].row
    OBVIOUS
<1>2. PICK new : new = details \o next
    OBVIOUS
<1>3. PICK none : none = <<>>
    OBVIOUS
<1>4. Sends(t, new, none)
    BY <1>2, <1>3
<1>5. /\ Awaited' /\ Unread' /\ \A r \in Rows : Active(r)' => Active(r) /\ r # r0
      /\ \A r \in DOMAIN rows' : r # r0 => Held(r)'
    BY <1>1, <1>4, SendsKept
<1>6. PICK codes : codes = Codes[RowOf(t).item]
    OBVIOUS
<1>7. /\ rows[r0].type = "CEMS" /\ rows[r0].item \in Listing(CemsPages)
      /\ codes = Codes[rows[r0].item] /\ codes \in Seq(Items)
      /\ details \in Seq(RowRecord) /\ Len(details) = Len(codes)
      /\ \A i \in DOMAIN details : details[i].type = "CEMS_DETAIL" /\ details[i].item = codes[i]
      /\ next \in Seq(RowRecord) /\ Len(next) \in {0, 1}
      /\ \A i \in DOMAIN next : next[i].type = "CEMS" /\ next[i].item \in Followers("CEMS", rows[r0].item)
    BY <1>1, <1>6 DEF CemsRows, RowOf
<1>8. PICK k \in DOMAIN CemsPages : rows[r0].item = CemsPages[k]
    BY <1>7 DEF Listing
<1>9. /\ CemsPages \in Seq(Items) /\ Len(CemsPages) \in Nat /\ DOMAIN CemsPages = 1..Len(CemsPages)
      /\ \A i, j \in DOMAIN CemsPages : CemsPages[i] = CemsPages[j] => i = j
    BY PagedAssumption
<1>10. \A p \in Followers("CEMS", rows[r0].item) : k + 1 \in DOMAIN CemsPages /\ p = CemsPages[k + 1]
    <2>1. "CEMS" \in PagedTypes /\ Walks["CEMS"] = CemsPages
        BY DEF PagedTypes, Walks
    <2>2. ASSUME NEW p \in Followers("CEMS", rows[r0].item)
          PROVE  k + 1 \in DOMAIN CemsPages /\ p = CemsPages[k + 1]
        <3>1. PICK i \in 1..(Len(CemsPages) - 1) : CemsPages[i] = CemsPages[k] /\ p = CemsPages[i + 1]
            BY <1>8, <2>1 DEF Followers
        <3>2. i \in DOMAIN CemsPages /\ i + 1 \in DOMAIN CemsPages
            BY <1>9
        <3>3. i = k
            BY <1>8, <1>9, <3>1, <3>2
        <3> QED
            BY <3>1, <3>2, <3>3
    <2> QED
        BY <2>2
<1>11. rows \in Seq(RowRecord) /\ new \in Seq(RowRecord) /\ rows' = rows \o new /\ msgs[t].pc = "stored"
    BY <1>4 DEF Sends, Typed, IsTable, At
<1>12. /\ Rows \subseteq DOMAIN rows' /\ \A o \in Rows : rows'[o] = rows[o]
       /\ \A o \in DOMAIN rows' \ Rows : o - Len(rows) \in DOMAIN new /\ rows'[o] = new[o - Len(rows)]
    BY <1>11, RowsAdded
<1>13. Len(rows) \in Nat /\ Len(details) \in Nat /\ DOMAIN rows' \subseteq Nat /\ DOMAIN details = DOMAIN codes
    BY <1>7, <1>11
<1>14. ASSUME NEW o \in DOMAIN rows' \ Rows
       PROVE  \/ /\ o - Len(rows) \in DOMAIN codes /\ rows'[o].type = "CEMS_DETAIL"
                 /\ rows'[o].item = codes[o - Len(rows)]
              \/ /\ o = Len(rows) + Len(details) + 1 /\ rows'[o].type = "CEMS"
                 /\ k + 1 \in DOMAIN CemsPages /\ rows'[o].item = CemsPages[k + 1]
    <2>1. PICK j : j = o - Len(rows)
        OBVIOUS
    <2>2. j \in DOMAIN new /\ rows'[o] = new[j]
        BY <1>12, <2>1
    <2>3. \/ j \in DOMAIN details /\ new[j] = details[j]
          \/ j > Len(details) /\ j - Len(details) \in DOMAIN next /\ new[j] = next[j - Len(details)]
        BY <1>2, <1>7, <2>2, JoinedRows
    <2>4. CASE j \in DOMAIN details /\ new[j] = details[j]
        BY <1>7, <1>13, <2>1, <2>2, <2>4
    <2>5. CASE j > Len(details) /\ j - Len(details) \in DOMAIN next /\ new[j] = next[j - Len(details)]
        <3>1. j - Len(details) = 1
            BY <1>7, <2>5
        <3>2. o = Len(rows) + Len(details) + 1
            BY <1>13, <2>1, <3>1
        <3>3. rows'[o].type = "CEMS" /\ rows'[o].item \in Followers("CEMS", rows[r0].item)
            BY <1>7, <2>2, <2>5
        <3> QED
            BY <1>10, <3>2, <3>3
    <2> QED
        BY <2>3, <2>4, <2>5
<1>15. r0 \in Rows /\ Active(r0)
    BY <1>1, <1>4, <1>11, Delivery DEF Active, OnRow, Sends, At
<1>16. \A r \in Rows : Active(r)' => Active(r) /\ rows[r].type # "CEMS"
    BY <1>5, <1>7, <1>15 DEF InTurn, OneAtATime
<1>17. ASSUME NEW r \in Rows, Active(r)', rows[r].type = "CEMS_DETAIL", NEW j \in DOMAIN CemsPages, j >= k
       PROVE  rows[r].item \notin Listing(Codes[CemsPages[j]])
    BY <1>7, <1>8, <1>15, <1>16, <1>17 DEF InTurn, Ahead
<1>18. codes = Codes[CemsPages[k]] /\ CemsPages[k] \in Listing(CemsPages) /\ k >= k /\ k \in Nat
    BY <1>7, <1>8, <1>9
<1>19. ASSUME NEW r \in Rows, NEW o \in DOMAIN rows' \ Rows, Active(r)', rows[r].type = rows'[o].type
       PROVE  rows'[o].type = "CEMS_DETAIL" /\ rows[r].item # rows'[o].item
    <2>1. /\ o - Len(rows) \in DOMAIN codes /\ rows'[o].type = "CEMS_DETAIL"
          /\ rows'[o].item = codes[o - Len(rows)]
        BY <1>14, <1>16, <1>19
    <2>2. rows'[o].item \in Listing(Codes[CemsPages[k]])
        BY <1>18, <2>1 DEF Listing
    <2> QED
        BY <1>17, <1>18, <1>19, <2>1, <2>2
<1>20. ASSUME NEW r \in DOMAIN rows' \ Rows, NEW o \in DOMAIN rows' \ Rows, rows'[r].type = rows'[o].type,
              rows'[r].type = "CEMS" \/ rows'[r].item = rows'[o].item
       PROVE  r = o
    <2>1. CASE rows'[r].type = "CEMS"
        BY <1>14, <1>20, <2>1
    <2>2. CASE rows'[r].type # "CEMS"
        <3>1. /\ r - Len(rows) \in DOMAIN codes /\ o - Len(rows) \in DOMAIN codes
              /\ codes[r - Len(rows)] = codes[o - Len(rows)]
            BY <1>14, <1>20, <2>2
        <3>2. r - Len(rows) = o - Len(rows)
            BY <1>18, <3>1 DEF CodesOnce
        <3> QED
            BY <1>13, <3>2
    <2> QED
        BY <2>1, <2>2
<1>21. OneAtATime'
    <2>1. ASSUME NEW r \in DOMAIN rows', NEW o \in DOMAIN rows', Active(r)', Active(o)', rows'[r].type = rows'[o].type,
                 rows'[r].type = "CEMS" \/ rows'[r].item = rows'[o].item
          PROVE  r = o
        <3>1. CASE r \in Rows /\ o \in Rows
            BY <1>12, <1>16, <2>1, <3>1 DEF InTurn, OneAtATime
        <3>2. CASE r \in Rows /\ o \notin Rows
            BY <1>12, <1>19, <2>1, <3>2
        <3>3. CASE r \notin Rows /\ o \in Rows
            BY <1>12, <1>19, <2>1, <3>3
        <3>4. CASE r \notin Rows /\ o \notin Rows
            BY <1>20, <2>1, <3>4
        <3> QED
            BY <3>1, <3>2, <3>3, <3>4
    <2> QED
        BY <2>1 DEF OneAtATime, Rows
<1>22. Ahead'
    <2>1. ASSUME NEW r \in DOMAIN rows', NEW o \in DOMAIN rows', NEW j \in DOMAIN CemsPages, NEW l \in DOMAIN CemsPages,
                 Active(r)', rows'[r].type = "CEMS", rows'[r].item = CemsPages[l], j >= l,
                 Active(o)', rows'[o].type = "CEMS_DETAIL"
          PROVE  rows'[o].item \notin Listing(Codes[CemsPages[j]])
        <3>1. r \notin Rows
            BY <1>12, <1>16, <2>1
        <3>2. k + 1 \in DOMAIN CemsPages /\ rows'[r].item = CemsPages[k + 1]
            BY <1>14, <2>1, <3>1
        <3>3. l = k + 1
            BY <1>9, <2>1, <3>2
        <3>4. j >= k /\ j # k
            BY <1>9, <1>18, <2>1, <3>3
        <3>5. CASE o \in Rows
            BY <1>12, <1>17, <2>1, <3>4, <3>5
        <3>6. CASE o \notin Rows
            <4>1. o - Len(rows) \in DOMAIN codes /\ rows'[o].item = codes[o - Len(rows)]
                BY <1>14, <2>1, <3>6
            <4>2. SUFFICES ASSUME NEW i \in DOMAIN Codes[CemsPages[j]], Codes[CemsPages[j]][i] = rows'[o].item
                           PROVE  FALSE
                BY DEF Listing
            <4>3. CemsPages[j] \in Listing(CemsPages)
                BY DEF Listing
            <4>4. CemsPages[k] = CemsPages[j]
                BY <1>18, <4>1, <4>2, <4>3 DEF CodesOnce
            <4> QED
                BY <1>9, <3>4, <4>4
        <3> QED
            BY <3>5, <3>6
    <2> QED
        BY <2>1 DEF Ahead, Rows
<1>23. Held(r0)'
    BY <1>7, <1>12, <1>15 DEF Held
<1> QED
    BY <1>5, <1>21, <1>22, <1>23 DEF InTurn, Rows

LEMMA StepInTurn ==
    ASSUME CodesOnce, Typed, Simple, Alone, Paged, source = "CEMS", InTurn, Undisturbed',
           NEW t \in Messages, PagedStep(t)
    PROVE  InTurn'
<1>1. spent'.losses = 0 /\ spent'.empty = 0
    BY DEF Undisturbed
<1>2. CASE Ends(t)
    <2>1. /\ msgs' = Acked(t) /\ Marked(t) /\ rows'[msgs[t].row].status # "PENDING" /\ msgs[t].kind = "extract"
          /\ msgs[t].pc # "stored"
        BY <1>1, <1>2 DEF Ends
    <2>2. /\ RowsLast /\ DOMAIN rows' = Rows /\ UNCHANGED fed
          /\ \A o \in Rows : rows'[o].content = rows[o].content
          /\ \A o \in Rows \ {msgs[t].row} : rows'[o] = rows[o]
        BY <2>1 DEF Marked, Untouched, RowsLast, Rows
    <2>3. \A o \in Rows : rows'[o].status = "PENDING" => rows[o].status = "PENDING" /\ ~OnRow(t, o)
        BY <2>1, <2>2 DEF OnRow
    <2> QED
        BY <2>1, <2>2, <2>3, AckedInTurn
<1>3. CASE Repeats(t)
    <2>1. PICK m : GoesTo(t, m, "queued", <<>>)
        BY <1>3 DEF Repeats
    <2>2. /\ msgs[t].pc = "queued" /\ Untouched(t) /\ UNCHANGED fed /\ msgs[t].row \in Rows
          /\ rows'[msgs[t].row].status # "PENDING" /\ rows'[msgs[t].row].content = rows[msgs[t].row].content
        BY <1>1, <1>3 DEF Repeats, Marked
    <2> QED
        BY <2>1, <2>2, RedoneInTurn
<1>4. CASE Fetches(t)
    <2>1. PICK m : GoesTo(t, m, "stored", <<>>)
        BY <1>4 DEF Fetches
    <2>2. /\ msgs[t].pc = "queued" /\ Untouched(t) /\ UNCHANGED fed /\ msgs[t].row \in Rows
          /\ rows'[msgs[t].row].status # "PENDING"
        BY <1>4 DEF Fetches
    <2> QED
        BY <2>1, <2>2, RedoneInTurn
<1>5. ~ComesEmpty(t)
    BY <1>1 DEF ComesEmpty
<1>6. CASE Runs(t)
    <2>1. /\ msgs[t].kind = "transform" /\ msgs' = Acked(t) /\ UNCHANGED rows
          /\ fed' = fed \cup {<<c, rows[c].content>> : c \in WithOwn(msgs[t].row, {})}
        BY <1>6 DEF Runs
    <2>2. RowsLast /\ DOMAIN rows' = Rows /\ fed \subseteq fed'
        BY <2>1 DEF RowsLast, Rows
    <2>3. rows[msgs[t].row].content # 0 => <<msgs[t].row, rows[msgs[t].row].content>> \in fed'
        BY <2>1 DEF WithOwn
    <2>4. \A o \in Rows : rows'[o].status = "PENDING" => rows[o].status = "PENDING" /\ ~OnRow(t, o)
        BY <2>1 DEF OnRow
    <2> QED
        BY <2>1, <2>2, <2>3, <2>4, AckedInTurn
<1>7. CASE CemsQuery(t)
    BY <1>7, CemsQueryEffect, PageInTurn
<1>8. CASE CemsDetail(t)
    BY <1>8, CemsDetailEffect, DetailInTurn
<1>9. CASE IfrcQuery(t) \/ \E single \in Singles : SingleQuery(t, single)
    <2>1. At(t, "extract", "stored") /\ RowOf(t).type \in PageTypes
        BY <1>9 DEF IfrcQuery, SingleQuery, PageTypes
    <2>2. RowOf(t).type \in TypesOf(source)
        BY <2>1, Delivery DEF Typed, RowOf, At
    <2> QED
        BY <2>1, <2>2 DEF TypesOf, PageTypes, Singles
<1>10. CASE Finish(t) \/ WorkerLost(t) \/ PagedFetched(t) \/ RunTransform(t, WithOwn(msgs[t].row, {}))
    BY <1>2, <1>3, <1>4, <1>5, <1>6, <1>10, FinishEnds, LostEffect, FetchedEffect, RunsEffect
<1>11. CASE PagedGoesWrong(t)
    BY <1>2, <1>3, <1>5, <1>11, OtherEffect, FailsEffect, NoDataEffect DEF PagedGoesWrong, RateLimited, RequestError
<1>12. (GfdQuery(t) \/ EmdatQuery(t) \/ GlideQuery(t) \/ IduQuery(t) \/ GiddQuery(t)
            \/ IbtracsQuery(t) \/ DesinventarQuery(t)) => \E single \in Singles : SingleQuery(t, single)
    BY DEF GfdQuery, EmdatQuery, GlideQuery, IduQuery, GiddQuery, IbtracsQuery, DesinventarQuery, Singles
<1> QED
    BY <1>7, <1>8, <1>9, <1>10, <1>11, <1>12 DEF PagedStep

\* When all is quiet, no row is pending, and what the rows hold has been read.
LEMMA QuietRead ==
    ASSUME Quiet, InTurn
    PROVE  /\ \A r \in Rows : rows[r].status # "PENDING"
           /\ \A r \in Rows : (rows[r].type = "CEMS_DETAIL" /\ rows[r].content # 0) => CemsContentRead(r)
<1>1. Messages = {}
    BY DEF Quiet, Messages
<1> QED
    BY <1>1 DEF InTurn, Awaited, Held, Comes, Arrived

LEMMA NextDayInTurn ==
    ASSUME Typed, InTurn, PagedNextDay
    PROVE  InTurn'
<1>1. rows \in Seq(RowRecord) /\ rows # <<>> /\ rows[1] \in RowRecord /\ Len(rows) \in Nat
    BY DEF Typed, IsTable
<1>2. PICK row : row = Row(rows[1].type, rows[1].item, 0)
    OBVIOUS
<1>3. row \in RowRecord /\ row.content = 0
    BY <1>1, <1>2, RowNew DEF RowRecord, Row
<1>4. PICK new : new = <<row>>
    OBVIOUS
<1>5. new \in Seq(RowRecord) /\ DOMAIN new = {1} /\ new[1] = row
    BY <1>3, <1>4
<1>6. rows' = rows \o new
    <2>1. rows' = Append(rows, row)
        BY <1>2 DEF PagedNextDay
    <2> QED
        BY <1>1, <1>3, <1>4, <2>1
<1>7. PICK added : added = Len(rows) + 1
    OBVIOUS
<1>8. /\ RowsLast /\ \A o \in Rows : rows'[o] = rows[o]
      /\ DOMAIN rows' = Rows \cup {added} /\ added \notin Rows /\ rows'[added].content = 0
    <2>1. /\ RowsLast /\ \A o \in Rows : rows'[o] = rows[o] /\ o \in DOMAIN rows'
          /\ \A o \in DOMAIN rows' \ Rows : o - Len(rows) \in DOMAIN new
          /\ \A i \in DOMAIN new : Len(rows) + i \in DOMAIN rows' \ Rows /\ rows'[Len(rows) + i] = new[i]
        BY <1>1, <1>5, <1>6, RowsAdded
    <2>2. DOMAIN rows' \subseteq Nat
        BY <1>1, <1>5, <1>6
    <2>3. \A o \in DOMAIN rows' \ Rows : o = added
        BY <1>1, <1>5, <1>7, <2>1, <2>2
    <2>4. 1 \in DOMAIN new /\ new[1].content = 0
        BY <1>3, <1>5
    <2>5. added \in DOMAIN rows' \ Rows /\ rows'[added].content = 0
        BY ONLY <1>7, <2>1, <2>4
    <2>6. \A o \in Rows : rows'[o] = rows[o] /\ o \in DOMAIN rows'
        BY ONLY <2>1
    <2>7. DOMAIN rows' = Rows \cup {added}
        BY ONLY <2>3, <2>5, <2>6
    <2> QED
        BY ONLY <2>1, <2>5, <2>6, <2>7
<1>9. DOMAIN msgs' = {1} /\ msgs'[1].kind = "extract" /\ msgs'[1].row = added /\ msgs'[1].pc = "queued"
    BY <1>7 DEF PagedNextDay, NewGroup, Extract
<1>10. UNCHANGED fed /\ Quiet
    BY DEF PagedNextDay
<1>11. /\ \A r \in Rows : rows[r].status # "PENDING"
       /\ \A r \in Rows : (rows[r].type = "CEMS_DETAIL" /\ rows[r].content # 0) => CemsContentRead(r)
    BY <1>10, QuietRead
<1>12. \A r : Active(r)' => r = added
    BY <1>9 DEF Active, OnRow, Messages
<1>13. Awaited' /\ Unread'
    BY <1>8, <1>9, <1>11 DEF Awaited, Unread, OnRow, Messages, Rows
<1>14. OneAtATime' /\ Ahead'
    BY <1>12 DEF OneAtATime, Ahead
<1>15. ASSUME NEW r \in DOMAIN rows' PROVE Held(r)'
    <2>1. CASE r = added
        BY <1>8, <2>1 DEF Held
    <2>2. CASE r # added
        <3>1. r \in Rows /\ rows'[r] = rows[r]
            BY <1>8, <2>2
        <3>2. CemsContentRead(r) => CemsContentRead(r)'
            <4>1. ASSUME NEW f \in fed, f[1] \in SameUrl(r), f[2] = rows[r].content PROVE CemsContentRead(r)'
                <5>1. f \in fed' /\ f[1] \in SameUrl(r)' /\ f[2] = rows'[r].content
                    BY <1>8, <1>10, <3>1, <4>1, SameUrlLater
                <5> QED
                    BY <5>1 DEF CemsContentRead
            <4> QED
                BY <4>1 DEF CemsContentRead
        <3> QED
            BY <1>11, <3>1, <3>2 DEF Held
    <2> QED
        BY <2>1, <2>2
<1> QED
    BY <1>13, <1>14, <1>15 DEF InTurn, Rows

\* There is no pending row to sweep up.
LEMMA SweepNever ==
    ASSUME Typed, InTurn, Undisturbed', NEW status \in {"FAILED", "PENDING"}, Retrigger(status, Itself)
    PROVE  FALSE
<1>1. PICK S : S = {r \in Rows : rows[r].status = status}
    OBVIOUS
<1>2. Quiet /\ InOrder(S) # <<>> /\ Retriggered(IF status = "PENDING" THEN "sweeps" ELSE "retriggers")
    BY <1>1 DEF Retrigger
<1>3. status = "PENDING"
    <2>1. SUFFICES ASSUME status = "FAILED" PROVE FALSE
        OBVIOUS
    <2>2. spent \in [Faults \cup {"retriggers", "sweeps"} -> Nat]
        BY DEF Typed, IsWorld
    <2>3. spent'.retriggers = spent.retriggers + 1 /\ spent.retriggers \in Nat
        BY <1>2, <2>1, <2>2 DEF Retriggered
    <2> QED
        BY <2>3 DEF Undisturbed
<1>4. S = {}
    BY <1>1, <1>2, <1>3, QuietRead
<1>5. InOrder(S) \in Seq(S) /\ Len(InOrder(S)) = Cardinality(S)
    <2>1. S \subseteq 1..0
        BY <1>4
    <2> QED
        BY <2>1, InOrderLists
<1>6. Cardinality(S) = 0
    BY <1>4, FS_EmptySet
<1> QED
    BY ONLY <1>2, <1>5, <1>6

LEMMA InTurnStays ==
    ASSUME InTurn, UNCHANGED <<rows, msgs, fed>>
    PROVE  InTurn'
<1>1. Awaited' /\ Unread'
    BY DEF InTurn, Awaited, Unread, OnRow, Rows, Messages
<1>2. OneAtATime' /\ Ahead'
    BY DEF InTurn, OneAtATime, Ahead, Active, OnRow, Rows, Messages
<1>3. \A r \in Rows : Held(r)'
    BY DEF InTurn, Held, CemsContentRead, Comes, Arrived, SameUrl, OnRow, Rows, Messages
<1> QED
    BY <1>1, <1>2, <1>3 DEF InTurn, Rows

-----------------------------------------------------------------------------
(* The inductive invariant about CEMS.                                       *)

CemsInv == (source = "CEMS" /\ Undisturbed) => InTurn

LEMMA CemsInvInit == Init => CemsInv
<1> SUFFICES ASSUME Init, source = "CEMS" PROVE InTurn
    BY DEF CemsInv
<1>1. PagedInit(source)
    BY DEF Init, PagedTypes, Singles
<1>2. PICK row : row = Row(source, Walks[source][1], 0)
    OBVIOUS
<1>3. rows = <<row>> /\ msgs = [i \in DOMAIN rows |-> Extract(i, 0)] /\ row.content = 0
    BY <1>1, <1>2 DEF PagedInit, InitRows, Row
<1>4. DOMAIN rows = {1} /\ DOMAIN msgs = {1} /\ rows[1].content = 0 /\ msgs[1].kind = "extract" /\ msgs[1].row = 1
    BY <1>3 DEF Extract
<1>5. Awaited /\ Unread
    BY <1>4 DEF Awaited, Unread, OnRow, Messages, Rows
<1>6. OneAtATime /\ Ahead
    BY <1>4 DEF OneAtATime, Ahead, Rows
<1>7. \A r \in Rows : Held(r)
    BY <1>4 DEF Held, Rows
<1> QED
    BY <1>5, <1>6, <1>7 DEF InTurn

LEMMA UndisturbedBefore ==
    ASSUME Later, Undisturbed'
    PROVE  Undisturbed
BY DEF Later, Undisturbed

LEMMA CemsInvNext ==
    ASSUME CodesOnce
    PROVE  Typed /\ PagedInv /\ CemsInv /\ [Next]_<<source, vars>> => CemsInv'
<1> SUFFICES ASSUME Typed, PagedInv, CemsInv, [Next]_<<source, vars>>, source' = "CEMS", Undisturbed' PROVE InTurn'
    BY DEF CemsInv
<1>1. source = "CEMS" /\ Paged /\ Simple /\ Alone
    BY DEF Next, PagedInv, Paged, PagedTypes
<1>2. Undisturbed => InTurn
    BY <1>1 DEF CemsInv
<1>3. CASE UNCHANGED <<source, vars>>
    <2>1. Undisturbed
        BY <1>3 DEF vars, Undisturbed
    <2> QED
        BY <1>2, <1>3, <2>1, InTurnStays DEF vars
<1>4. CASE PagedNextDay
    <2>1. Undisturbed
        BY <1>4 DEF PagedNextDay, Undisturbed
    <2> QED
        BY <1>2, <1>4, <2>1, NextDayInTurn
<1>5. CASE \E t \in Messages : PagedStep(t)
    <2>1. PICK t \in Messages : PagedStep(t)
        BY <1>5
    <2>2. Undisturbed
        BY <1>1, <2>1, StepEffect, UndisturbedBefore
    <2> QED
        BY <1>1, <1>2, <2>1, <2>2, StepInTurn
<1>6. CASE \E status \in {"FAILED", "PENDING"} : Retrigger(status, Itself)
    <2>1. PICK status \in {"FAILED", "PENDING"} : Retrigger(status, Itself)
        BY <1>6
    <2>2. Undisturbed
        <3>1. spent \in [Faults \cup {"retriggers", "sweeps"} -> Nat]
            BY DEF Typed, IsWorld
        <3>2. spent' = [spent EXCEPT ![IF status = "PENDING" THEN "sweeps" ELSE "retriggers"] = @ + 1]
            BY <2>1 DEF Retrigger, Retriggered
        <3>3. spent'.losses = spent.losses /\ spent'.empty = spent.empty /\ spent.retriggers \in Nat
            BY <3>1, <3>2 DEF Faults
        <3>4. spent'.retriggers = spent.retriggers \/ spent'.retriggers = spent.retriggers + 1
            BY <3>1, <3>2
        <3> QED
            BY <3>3, <3>4 DEF Undisturbed
    <2> QED
        BY <1>2, <2>1, <2>2, SweepNever
<1>7. CASE \E i \in Items : Change(i)
    <2>1. UNCHANGED <<rows, msgs, chords, fed>> /\ Spend("changes")
        BY <1>7 DEF Change
    <2>2. Undisturbed
        BY <2>1, SpendLater, UndisturbedBefore DEF Faults, Typed
    <2> QED
        BY <1>2, <2>1, <2>2, InTurnStays
<1>8. ~(UNCHANGED <<source, vars>>) => PagedNext
    BY <1>1 DEF Next
<1> QED
    BY <1>3, <1>4, <1>5, <1>6, <1>7, <1>8 DEF PagedNext

LEMMA QuietFed == Typed /\ CemsInv => CemsContentFed
<1> SUFFICES ASSUME Typed, CemsInv, spent.losses = 0, spent.retriggers = 0, NEW r \in Settled({"CEMS_DETAIL"})
             PROVE  CemsContentRead(r)
    BY DEF CemsContentFed
<1>1. Quiet /\ spent.empty = 0 /\ r \in Rows /\ rows[r].type = "CEMS_DETAIL" /\ rows[r].content # 0
    BY DEF Settled, Good
<1>2. source = "CEMS"
    <2>1. "CEMS_DETAIL" \in TypesOf(source)
        BY <1>1 DEF Typed
    <2>2. CASE source \in {"DISASTERCHARTER", "GDACS", "USGS", "PDC"}
        BY <2>1, <2>2 DEF TypesOf, ChildTypes, PdcChildTypes
    <2>3. CASE source \notin {"DISASTERCHARTER", "GDACS", "USGS", "PDC", "CEMS"}
        <3>1. source = "CEMS_DETAIL"
            BY <2>1, <2>3 DEF TypesOf
        <3>2. source \in SourceNames
            BY SourcesAssumption DEF Typed
        <3> QED
            BY <3>1, <3>2 DEF SourceNames, PagedTypes, Singles
    <2> QED
        BY <2>2, <2>3
<1>3. InTurn
    BY <1>1, <1>2 DEF CemsInv, Undisturbed
<1> QED
    BY <1>1, <1>3, QuietRead

(* The comparison of hashes that lets CEMS skip a transform (handle_type_detail  *)
(* of cems/extract.py) loses no content, where no page lists an activation that  *)
(* it or another page lists too: two rows of one URL are never extracted at the  *)
(* same time, so the row that has the same content has been read, or is to be.   *)
THEOREM CemsLosesNothing ==
    ASSUME CodesOnce
    PROVE  SourcesSpec => []CemsContentFed
<1>1. Init => Typed /\ AllAttended /\ PagedInv /\ CemsInv
    BY InitEstablishes, PagedInvInit, CemsInvInit
<1>2. Typed /\ AllAttended /\ PagedInv /\ CemsInv /\ [Next]_<<source, vars>>
        => (Typed /\ AllAttended /\ PagedInv /\ CemsInv)'
    BY NextKeeps, PagedInvNext, CemsInvNext
<1>3. Typed /\ AllAttended /\ PagedInv /\ CemsInv => CemsContentFed
    BY QuietFed
<1> QED
    BY <1>1, <1>2, <1>3, PTL DEF SourcesSpec

-----------------------------------------------------------------------------
(* A chord that is not broken counts the parts that are still queued.        *)

Exact(queue, known) ==
    \A c \in DOMAIN known : ~known[c].broken => known[c].left = Cardinality(PartsOf(queue, c))

\* The body of a chord that ends with the transform of a row.
After(r) == <<<<Transform(r)>>>>

\* A chord waits with nothing, or with the transform of a row, which is gone when all its
\* parts are.
EndsWell(chord) ==
    /\ chord.body = <<>> \/ \E r \in Nat : chord.body = After(r)
    /\ ~chord.broken /\ chord.left = 0 => chord.body = <<>>

\* Only extractions are parts of chords.
Bound(queue, known) ==
    /\ Exact(queue, known) /\ \A c \in DOMAIN known : EndsWell(known[c])
    /\ \A t \in DOMAIN queue : queue[t].kind # "extract" => queue[t].chord = 0

LEMMA ExactMore ==
    ASSUME NEW queue \in Seq(Message), NEW known \in Seq(Chord), Exact(queue, known),
           NEW more \in Seq(Message), \A i \in DOMAIN more : more[i].chord = 0
    PROVE  Exact(queue \o more, known)
<1>1. ASSUME NEW c \in DOMAIN known PROVE PartsOf(queue \o more, c) = PartsOf(queue, c)
    <2>1. \A i \in DOMAIN more : more[i].chord # c
        OBVIOUS
    <2> QED
        BY <2>1, PartsOfMore
<1> QED
    BY <1>1 DEF Exact

LEMMA ExactMoved ==
    ASSUME NEW queue, NEW known, Exact(queue, known), NEW later, DOMAIN later = DOMAIN queue,
           \A t \in DOMAIN queue : later[t].chord = queue[t].chord
    PROVE  Exact(later, known)
<1>1. \A c : PartsOf(later, c) = PartsOf(queue, c)
    BY DEF PartsOf
<1> QED
    BY <1>1 DEF Exact

\* A part is acknowledged and counted.
LEMMA ExactAcked ==
    ASSUME msgs \in Seq(Message), NEW t \in Messages, Exact(msgs, chords), NEW later, DOMAIN later = DOMAIN chords,
           \A c \in DOMAIN chords :
                \/ later[c].broken
                \/ /\ ~chords[c].broken
                   /\ later[c].left = IF msgs[t].chord = c THEN chords[c].left - 1 ELSE chords[c].left
    PROVE  Exact(Acked(t), later)
<1> SUFFICES ASSUME NEW c \in DOMAIN later, ~later[c].broken
             PROVE  later[c].left = Cardinality(PartsOf(Acked(t), c))
    BY DEF Exact
<1>1. ~chords[c].broken /\ later[c].left = IF msgs[t].chord = c THEN chords[c].left - 1 ELSE chords[c].left
    OBVIOUS
<1>2. chords[c].left = Cardinality(PartsOf(msgs, c))
    BY <1>1 DEF Exact
<1>3. Cardinality(PartsOf(Acked(t), c)) =
        IF msgs[t].chord = c THEN Cardinality(PartsOf(msgs, c)) - 1 ELSE Cardinality(PartsOf(msgs, c))
    BY PartsOfAcked
<1> QED
    BY <1>1, <1>2, <1>3

\* A chord is added, with its header.
LEMMA ExactChord ==
    ASSUME NEW queue \in Seq(Message), NEW known \in Seq(Chord), Exact(queue, known),
           \A t \in DOMAIN queue : queue[t].chord <= Len(known),
           NEW head \in Seq(Message), \A j \in DOMAIN head : head[j].chord = Len(known) + 1,
           NEW chord \in Chord, chord.left = Len(head)
    PROVE  Exact(queue \o head, Append(known, chord))
<1>1. PICK all : all = Append(known, chord)
    OBVIOUS
<1>2. PICK c : c = Len(known) + 1
    OBVIOUS
<1>3. /\ all \in Seq(Chord) /\ Len(all) = c /\ DOMAIN all = DOMAIN known \cup {c} /\ c \notin DOMAIN known
      /\ all[c] = chord /\ \A d \in DOMAIN known : all[d] = known[d]
    BY <1>1, <1>2
<1>4. /\ Len(queue) \in Nat /\ Len(head) \in Nat /\ Len(known) \in Nat
      /\ DOMAIN queue = 1..Len(queue) /\ DOMAIN head = 1..Len(head)
      /\ DOMAIN (queue \o head) = 1..(Len(queue) + Len(head))
      /\ \A i \in 1..Len(queue) : (queue \o head)[i] = queue[i]
      /\ \A i \in (Len(queue) + 1)..(Len(queue) + Len(head)) : (queue \o head)[i] = head[i - Len(queue)]
    OBVIOUS
<1>5. ASSUME NEW d \in DOMAIN known PROVE PartsOf(queue \o head, d) = PartsOf(queue, d)
    <2>1. \A i \in DOMAIN head : head[i].chord # d
        BY <1>2, <1>3
    <2> QED
        BY <2>1, PartsOfMore
<1>6. PartsOf(queue \o head, c) = (Len(queue) + 1)..(Len(queue) + Len(head))
    <2>1. \A t \in DOMAIN queue : queue[t].chord # c
        <3>1. \A t \in DOMAIN queue : queue[t] \in Message
            OBVIOUS
        <3>2. \A m \in Message : m.chord \in Nat
            BY DEF Message, MessageWith
        <3> QED
            BY <1>2, <1>4, <3>1, <3>2
    <2>2. \A i \in (Len(queue) + 1)..(Len(queue) + Len(head)) : i - Len(queue) \in DOMAIN head
        BY <1>4
    <2>3. \A i \in (Len(queue) + 1)..(Len(queue) + Len(head)) : (queue \o head)[i].chord = c
        BY <1>2, <1>4, <2>2
    <2>4. \A i \in DOMAIN (queue \o head) : i \in DOMAIN queue \/ i \in (Len(queue) + 1)..(Len(queue) + Len(head))
        BY <1>4
    <2>5. \A i \in (Len(queue) + 1)..(Len(queue) + Len(head)) : i \in DOMAIN (queue \o head)
        BY <1>4
    <2> QED
        BY <1>4, <2>1, <2>3, <2>4, <2>5 DEF PartsOf
<1>7. Cardinality(PartsOf(queue \o head, c)) = Len(head)
    <2>1. Len(queue) + 1 \in Int /\ Len(queue) + Len(head) \in Int
        BY <1>4
    <2>2. Cardinality((Len(queue) + 1)..(Len(queue) + Len(head))) =
            IF Len(queue) + 1 > Len(queue) + Len(head) THEN 0
            ELSE (Len(queue) + Len(head)) - (Len(queue) + 1) + 1
        BY <2>1, FS_Interval
    <2> QED
        BY <1>4, <1>6, <2>2
<1> QED
    BY <1>1, <1>3, <1>5, <1>7 DEF Exact

\* What publishing does with one group, and with a group and a transform that follows it.
LEMMA PublishNone ==
    ASSUME NEW queue, NEW known
    PROVE  Published(queue, known, <<>>) = [msgs |-> queue, chords |-> known]
<1>1. Len(Only(<<>>, {})) = 0
    <2>1. <<>> \in Seq(Nat) /\ {} \subseteq DOMAIN <<>>
        OBVIOUS
    <2>2. Len(Only(<<>>, {})) = Cardinality({})
        BY <2>1, OnlyLists
    <2> QED
        BY <2>2, FS_EmptySet
<1>2. {i \in DOMAIN <<>> : <<>>[i] # <<>>} = {}
    OBVIOUS
<1> QED
    BY <1>1, <1>2 DEF Published

Filled(groups) == {i \in DOMAIN groups : groups[i] # <<>>}
Kept(groups) == Only(groups, Filled(groups))

LEMMA PublishedKept ==
    ASSUME NEW queue, NEW known, NEW groups
    PROVE  Published(queue, known, groups) =
               IF Len(Kept(groups)) = 0 THEN [msgs |-> queue, chords |-> known]
               ELSE IF Len(Kept(groups)) = 1 THEN [msgs |-> queue \o Kept(groups)[1], chords |-> known]
               ELSE [msgs |-> queue \o Header(Kept(groups)[1], Len(known) + 1),
                     chords |-> Append(known, [left |-> Len(Kept(groups)[1]), broken |-> FALSE,
                                               body |-> Tail(Kept(groups))])]
    BY DEF Published, Header, Kept, Filled

LEMMA PublishOne ==
    ASSUME NEW queue \in Seq(Message), NEW known, NEW g \in Seq(Plain)
    PROVE  Published(queue, known, <<g>>) = [msgs |-> queue \o g, chords |-> known]
<1>1. PICK groups : groups = <<g>>
    OBVIOUS
<1>2. groups \in Seq(Seq(Plain)) /\ DOMAIN groups = {1} /\ groups[1] = g
    BY <1>1
<1>3. PICK places : places = Filled(groups)
    OBVIOUS
<1>4. /\ Len(Only(groups, places)) = Cardinality(places) /\ Cardinality(places) \in Nat
      /\ \A i \in DOMAIN Only(groups, places) : \E p \in places : Only(groups, places)[i] = groups[p]
      /\ Only(groups, places) \in Seq(Seq(Plain))
    <2>1. places \subseteq DOMAIN groups
        BY <1>3 DEF Filled
    <2> QED
        BY <1>2, <2>1, OnlyLists
<1>5. CASE g = <<>>
    <2>1. places = {}
        BY <1>2, <1>3, <1>5 DEF Filled
    <2>2. Len(Only(groups, places)) = 0
        BY <1>4, <2>1, FS_EmptySet
    <2>3. queue \o g = queue
        BY <1>5
    <2>4. Published(queue, known, groups) = [msgs |-> queue, chords |-> known]
        <3>1. Kept(groups) = Only(groups, places)
            BY <1>3 DEF Kept
        <3>2. Len(Kept(groups)) = 0
            BY <2>2, <3>1
        <3> QED
            BY <3>2, PublishedKept
    <2> QED
        BY <1>1, <2>3, <2>4
<1>6. CASE g # <<>>
    <2>1. places = {1}
        BY <1>2, <1>3, <1>6 DEF Filled
    <2>2. Len(Only(groups, places)) = 1
        BY <1>4, <2>1, FS_Singleton
    <2>3. 1 \in DOMAIN Only(groups, places)
        BY <1>4, <2>2
    <2>4. Only(groups, places)[1] = g
        BY <1>2, <1>4, <2>1, <2>3
    <2>5. Published(queue, known, groups) = [msgs |-> queue \o g, chords |-> known]
        <3>1. Kept(groups) = Only(groups, places)
            BY <1>3 DEF Kept
        <3>2. Len(Kept(groups)) = 1 /\ Kept(groups)[1] = g
            BY <2>2, <2>4, <3>1, Zenon
        <3>3. Len(Kept(groups)) # 0
            BY <3>2
        <3> QED
            BY <3>2, <3>3, PublishedKept
    <2> QED
        BY <1>1, <2>5
<1> QED
    BY <1>5, <1>6

LEMMA OnlyBoth ==
    ASSUME NEW a, NEW b
    PROVE  Only(<<a, b>>, {1, 2}) = <<a, b>>
<1>1. Cardinality({1, 2}) = 2
    <2>1. IsFiniteSet({1}) /\ Cardinality({1}) = 1
        BY FS_Singleton
    <2>2. 2 \notin {1} /\ {1, 2} = {1} \cup {2}
        OBVIOUS
    <2> QED
        BY <2>1, <2>2, FS_AddElement
<1>2. {y \in {1, 2} : y < 1} = {} /\ {y \in {1, 2} : y < 2} = {1}
    OBVIOUS
<1>3. Cardinality({y \in {1, 2} : y < 1}) = 0 /\ Cardinality({y \in {1, 2} : y < 2}) = 1
    BY <1>2, FS_EmptySet, FS_Singleton
<1>4. \A x \in {1, 2} : Cardinality({y \in {1, 2} : y < x}) = 0 <=> x = 1
    BY <1>3
<1>5. \A x \in {1, 2} : Cardinality({y \in {1, 2} : y < x}) = 1 <=> x = 2
    BY <1>3
<1>6. (CHOOSE x \in {1, 2} : Cardinality({y \in {1, 2} : y < x}) = 1 - 1) = 1
    BY <1>4
<1>7. (CHOOSE x \in {1, 2} : Cardinality({y \in {1, 2} : y < x}) = 2 - 1) = 2
    BY <1>5
<1>8. InOrder({1, 2})[1] = 1 /\ InOrder({1, 2})[2] = 2
    BY <1>1, <1>6, <1>7 DEF InOrder
<1>9. Only(<<a, b>>, {1, 2}) = [i \in 1..2 |-> <<a, b>>[InOrder({1, 2})[i]]]
    BY <1>1 DEF Only
<1> QED
    BY <1>8, <1>9

LEMMA PublishTwo ==
    ASSUME NEW queue \in Seq(Message), NEW known, NEW g \in Seq(Plain), NEW m \in Plain
    PROVE  Published(queue, known, <<g, <<m>>>>) =
               IF g = <<>> THEN [msgs |-> queue \o <<m>>, chords |-> known]
               ELSE [msgs |-> queue \o Header(g, Len(known) + 1),
                     chords |-> Append(known, [left |-> Len(g), broken |-> FALSE, body |-> <<<<m>>>>])]
<1>1. PICK h : h = <<m>>
    OBVIOUS
<1>h. h \in Seq(Plain) /\ h # <<>>
    BY <1>1
<1>2. PICK groups : groups = <<g, h>>
    OBVIOUS
<1>3. groups \in Seq(Seq(Plain)) /\ DOMAIN groups = {1, 2} /\ groups[1] = g /\ groups[2] = h
    BY <1>h, <1>2
<1>4. PICK places : places = Filled(groups)
    OBVIOUS
<1>5. CASE g = <<>>
    <2>1. places = {2} /\ places \subseteq DOMAIN groups
        BY <1>h, <1>3, <1>4, <1>5 DEF Filled
    <2>2. /\ Len(Only(groups, places)) = Cardinality(places)
          /\ Only(groups, places) \in Seq(Seq(Plain))
          /\ \A i \in DOMAIN Only(groups, places) : \E p \in places : Only(groups, places)[i] = groups[p]
        BY <1>3, <2>1, OnlyLists
    <2>3. Len(Only(groups, places)) = 1
        BY <2>1, <2>2, FS_Singleton
    <2>4. 1 \in DOMAIN Only(groups, places)
        BY <2>2, <2>3
    <2>5. Only(groups, places)[1] = h
        BY <1>3, <2>1, <2>2, <2>4
    <2>6. Published(queue, known, groups) = [msgs |-> queue \o h, chords |-> known]
        <3>1. Kept(groups) = Only(groups, places)
            BY <1>4 DEF Kept
        <3>2. Len(Kept(groups)) = 1 /\ Kept(groups)[1] = h
            BY <2>3, <2>5, <3>1, Zenon
        <3>3. Len(Kept(groups)) # 0
            BY <3>2
        <3> QED
            BY <3>2, <3>3, PublishedKept
    <2> QED
        BY <1>1, <1>2, <1>5, <2>6
<1>6. CASE g # <<>>
    <2>1. places = {1, 2}
        BY <1>h, <1>3, <1>4, <1>6 DEF Filled
    <2>2. Kept(groups) = Only(groups, places)
        BY <1>4 DEF Kept
    <2>3. Kept(groups) = <<g, h>>
        BY <1>2, <2>1, <2>2, OnlyBoth
    <2>4. /\ Len(Kept(groups)) # 0 /\ Len(Kept(groups)) # 1
          /\ Kept(groups)[1] = g /\ Tail(Kept(groups)) = <<h>>
        BY <2>3
    <2>6. Published(queue, known, groups) =
            [msgs |-> queue \o Header(g, Len(known) + 1),
             chords |-> Append(known, [left |-> Len(g), broken |-> FALSE, body |-> <<h>>])]
        BY <2>4, PublishedKept
    <2> QED
        BY <1>1, <1>2, <1>6, <2>6
<1> QED
    BY <1>5, <1>6

-----------------------------------------------------------------------------
(* What a task does to the chords.                                           *)

\* The transform of a row waits for a chord that can still end, or is queued.
Waiting(a) == \E c \in DOMAIN chords : chords[c].body = After(a) /\ ~chords[c].broken
Sent(a) == \E t \in Messages : msgs[t].kind = "transform" /\ msgs[t].row = a

\* The chords stay, but for the body of those that have no parts left.
ChordsGoOn ==
    /\ DOMAIN chords \subseteq DOMAIN chords'
    /\ \A c \in DOMAIN chords :
        /\ chords'[c].broken <=> chords[c].broken
        /\ chords'[c].body = chords[c].body \/ PartsOf(msgs', c) = {}
    /\ \A c \in DOMAIN chords' \ DOMAIN chords : ~chords'[c].broken

LEMMA TransformIs ==
    ASSUME NEW r \in Nat
    PROVE  /\ Transform(r) \in Plain /\ Transform(r) \in Message
           /\ Transform(r).kind = "transform" /\ Transform(r).row = r /\ Transform(r).chord = 0
           /\ ~Transform(r).next /\ Transform(r).pc = "queued" /\ Transform(r).failed = 0
<1>1. PICK e : e = Extract(r, 0)
    OBVIOUS
<1>2. e \in Plain
    BY <1>1, MessageTypes DEF Extract, Plain, MessageWith, Kinds, Places
<1>3. e.row = r /\ e.chord = 0 /\ ~e.next /\ e.pc = "queued" /\ e.failed = 0
    BY <1>1 DEF Extract
<1>4. PICK m : m = [e EXCEPT !.kind = "transform"]
    OBVIOUS
<1>5. m = Transform(r)
    BY <1>1, <1>4 DEF Transform
<1>6. m \in Plain /\ m.kind = "transform" /\ m.row = r /\ m.chord = 0 /\ ~m.next /\ m.pc = "queued" /\ m.failed = 0
    BY <1>2, <1>3, <1>4 DEF Plain, MessageWith, Kinds
<1> QED
    BY <1>5, <1>6, MessageTypes

\* After a row is a group with that one transform, and nothing else.
LEMMA AfterIs ==
    ASSUME NEW a \in Nat, NEW b \in Nat, After(a) = After(b)
    PROVE  a = b
<1>1. Transform(a) = Transform(b)
    BY DEF After
<1> QED
    BY <1>1, TransformIs

LEMMA AfterNotNone ==
    ASSUME NEW a
    PROVE  After(a) # <<>>
    BY DEF After

\* The delivery moves on, and messages without a chord are published.
LEMMA MovesBound ==
    ASSUME msgs \in Seq(Message), chords \in Seq(Chord), Bound(msgs, chords), NEW t \in Messages,
           NEW m \in Message, m.chord = msgs[t].chord, m.kind = msgs[t].kind,
           NEW more \in Seq(Message), \A i \in DOMAIN more : more[i].chord = 0,
           MovesOn(t, m, more), UNCHANGED chords
    PROVE  Bound(msgs', chords') /\ ChordsGoOn
<1>1. PICK moved : moved = [msgs EXCEPT ![t] = m]
    OBVIOUS
<1>2. moved \in Seq(Message) /\ DOMAIN moved = Messages /\ moved[t] = m /\ \A o \in Messages \ {t} : moved[o] = msgs[o]
    BY <1>1 DEF Messages
<1>3. Exact(msgs, chords)
    BY DEF Bound
<1>4. Exact(moved, chords)
    <2>1. DOMAIN moved = DOMAIN msgs /\ \A o \in DOMAIN msgs : moved[o].chord = msgs[o].chord
        BY <1>2 DEF Messages
    <2> QED
        BY <1>3, <2>1, ExactMoved
<1>5. msgs' = moved \o more
    BY <1>1 DEF MovesOn
<1>6. Exact(msgs', chords')
    BY <1>2, <1>4, <1>5, ExactMore
<1>7. ASSUME NEW i \in DOMAIN msgs', msgs'[i].kind # "extract"
      PROVE  msgs'[i].chord = 0
    <2>1. i \in DOMAIN moved \/ \E j \in DOMAIN more : msgs'[i] = more[j]
        <3>1. /\ DOMAIN msgs' = 1..(Len(moved) + Len(more)) /\ Len(moved) \in Nat /\ Len(more) \in Nat
              /\ DOMAIN moved = 1..Len(moved) /\ DOMAIN more = 1..Len(more)
              /\ \A j \in (Len(moved) + 1)..(Len(moved) + Len(more)) : msgs'[j] = more[j - Len(moved)]
            BY <1>2, <1>5, Joined
        <3>2. i \in 1..Len(moved) \/ i \in (Len(moved) + 1)..(Len(moved) + Len(more))
            BY <3>1
        <3>3. i \in (Len(moved) + 1)..(Len(moved) + Len(more)) => i - Len(moved) \in 1..Len(more)
            BY <3>1
        <3> QED
            BY <3>1, <3>2, <3>3
    <2>2. CASE i \in DOMAIN moved
        <3>1. msgs'[i] = moved[i]
            BY <1>2, <1>5, <2>2
        <3>2. msgs[i].kind # "extract" /\ moved[i].chord = msgs[i].chord
            BY <1>2, <1>7, <2>2, <3>1
        <3> QED
            BY <1>2, <2>2, <3>1, <3>2 DEF Bound, Messages
    <2> QED
        BY <2>1, <2>2
<1>8. ChordsGoOn
    BY DEF ChordsGoOn
<1> QED
    BY <1>6, <1>7, <1>8 DEF Bound

LEMMA LeftBound ==
    ASSUME msgs \in Seq(Message), Bound(msgs, chords), NEW t \in Messages
    PROVE  \A i \in DOMAIN Acked(t) : Acked(t)[i].kind # "extract" => Acked(t)[i].chord = 0
<1>1. \A i \in DOMAIN Acked(t) : \E o \in Messages \ {t} : Acked(t)[i] = msgs[o]
    BY AckedMessages
<1> QED
    BY <1>1 DEF Bound, Messages

\* A transform ends.
LEMMA RunsBound ==
    ASSUME msgs \in Seq(Message), chords \in Seq(Chord), Bound(msgs, chords), NEW t \in Messages,
           msgs[t].chord = 0, msgs' = Acked(t), UNCHANGED chords
    PROVE  Bound(msgs', chords') /\ ChordsGoOn
<1>1. \A c \in DOMAIN chords : c # 0
    OBVIOUS
<1>2. Exact(Acked(t), chords)
    BY <1>1, ExactAcked DEF Bound
<1>3. ChordsGoOn
    BY DEF ChordsGoOn
<1> QED
    BY <1>2, <1>3, LeftBound DEF Bound

\* The task raises.
LEMMA RaiseBound ==
    ASSUME msgs \in Seq(Message), chords \in Seq(Chord), Bound(msgs, chords), NEW t \in Messages, Raise(t)
    PROVE  /\ Bound(msgs', chords') /\ DOMAIN chords' = DOMAIN chords
           /\ \A c \in DOMAIN chords : /\ chords'[c].body = chords[c].body
                                       /\ chords'[c].broken <=> chords[c].broken \/ c = msgs[t].chord
<1>1. msgs' = Acked(t) /\ DOMAIN chords' = DOMAIN chords
    BY DEF Raise
<1>2. ASSUME NEW c \in DOMAIN chords
      PROVE  /\ chords'[c].left = chords[c].left /\ chords'[c].body = chords[c].body
             /\ chords'[c].broken <=> chords[c].broken \/ c = msgs[t].chord
    <2>1. chords[c] \in Chord
        OBVIOUS
    <2>2. chords'[c] = IF c = msgs[t].chord THEN [chords[c] EXCEPT !.broken = TRUE] ELSE chords[c]
        BY DEF Raise
    <2> QED
        BY <2>1, <2>2 DEF Chord
<1>3. Exact(Acked(t), chords')
    BY <1>1, <1>2, ExactAcked DEF Bound
<1>4. \A c \in DOMAIN chords' : EndsWell(chords'[c])
    BY <1>1, <1>2 DEF Bound, EndsWell
<1> QED
    BY <1>1, <1>2, <1>3, <1>4, LeftBound DEF Bound

\* A group is published as the header of a chord that the transform of a row waits for.
SentOf(t) == [msgs[t] EXCEPT !.pc = "sent"]
Opens(t, g, r) ==
    \/ g = <<>> /\ MovesOn(t, SentOf(t), <<Transform(r)>>) /\ UNCHANGED chords
    \/ /\ g # <<>> /\ MovesOn(t, SentOf(t), Header(g, Len(chords) + 1))
       /\ chords' = Append(chords, [left |-> Len(g), broken |-> FALSE, body |-> After(r)])

LEMMA DispatchOpens ==
    ASSUME msgs \in Seq(Message), NEW t \in Messages, Dispatch(t), NEW g \in Seq(Plain), NEW r \in Nat,
           msgs[t].todo = <<g, <<Transform(r)>>>>
    PROVE  Opens(t, g, r)
<1>1. PICK queue : queue = Move(t, "sent")
    OBVIOUS
<1>m. PICK m : m = SentOf(t)
    OBVIOUS
<1>2. queue \in Seq(Message) /\ queue = [msgs EXCEPT ![t] = m]
    <2>1. msgs[t] \in Message /\ "sent" \in Places
        BY DEF Messages, Places
    <2>2. m \in Message /\ Move(t, "sent") = [msgs EXCEPT ![t] = m]
        BY <1>m, <2>1, PlacedMessage DEF SentOf
    <2>3. queue = [msgs EXCEPT ![t] = m]
        BY <1>1, <2>2
    <2> QED
        BY <2>2, <2>3 DEF Messages
<1>3. Transform(r) \in Plain
    BY TransformIs
<1>p. PICK P : P = Published(queue, chords, msgs[t].todo)
    OBVIOUS
<1>4. msgs' = P.msgs /\ chords' = P.chords
    BY <1>1, <1>p DEF Dispatch, Publish
<1>5. P =
        IF g = <<>> THEN [msgs |-> queue \o <<Transform(r)>>, chords |-> chords]
        ELSE [msgs |-> queue \o Header(g, Len(chords) + 1),
              chords |-> Append(chords, [left |-> Len(g), broken |-> FALSE, body |-> After(r)])]
    <2>1. PICK tr : tr = Transform(r)
        OBVIOUS
    <2>2. tr \in Plain /\ P = Published(queue, chords, <<g, <<tr>>>>)
        BY <1>3, <1>p, <2>1
    <2>3. P = IF g = <<>> THEN [msgs |-> queue \o <<tr>>, chords |-> chords]
              ELSE [msgs |-> queue \o Header(g, Len(chords) + 1),
                    chords |-> Append(chords, [left |-> Len(g), broken |-> FALSE, body |-> <<<<tr>>>>])]
        BY <1>2, <2>2, PublishTwo
    <2>4. After(r) = <<<<tr>>>>
        BY <2>1 DEF After
    <2> QED
        BY <2>1, <2>3, <2>4
<1>6. CASE g = <<>>
    <2>1. msgs' = queue \o <<Transform(r)>> /\ chords' = chords
        BY <1>4, <1>5, <1>6
    <2>2. MovesOn(t, m, <<Transform(r)>>)
        BY <1>2, <2>1 DEF MovesOn
    <2> QED
        BY <1>m, <1>6, <2>1, <2>2 DEF Opens
<1>7. CASE g # <<>>
    <2>1. /\ msgs' = queue \o Header(g, Len(chords) + 1)
          /\ chords' = Append(chords, [left |-> Len(g), broken |-> FALSE, body |-> After(r)])
        BY <1>4, <1>5, <1>7
    <2>2. MovesOn(t, m, Header(g, Len(chords) + 1))
        BY <1>2, <2>1 DEF MovesOn
    <2> QED
        BY <1>m, <1>7, <2>1, <2>2 DEF Opens
<1> QED
    BY <1>6, <1>7

LEMMA DispatchSends ==
    ASSUME msgs \in Seq(Message), NEW t \in Messages, Dispatch(t), NEW g \in Seq(Plain), msgs[t].todo = <<g>>
    PROVE  MovesOn(t, SentOf(t), g) /\ UNCHANGED chords
<1>1. PICK queue : queue = Move(t, "sent")
    OBVIOUS
<1>m. PICK m : m = SentOf(t)
    OBVIOUS
<1>2. queue \in Seq(Message) /\ queue = [msgs EXCEPT ![t] = m]
    <2>1. msgs[t] \in Message /\ "sent" \in Places
        BY DEF Messages, Places
    <2>2. m \in Message /\ Move(t, "sent") = [msgs EXCEPT ![t] = m]
        BY <1>m, <2>1, PlacedMessage DEF SentOf
    <2>3. queue = [msgs EXCEPT ![t] = m]
        BY <1>1, <2>2
    <2> QED
        BY <2>2, <2>3 DEF Messages
<1>p. PICK P : P = Published(queue, chords, msgs[t].todo)
    OBVIOUS
<1>3. msgs' = P.msgs /\ chords' = P.chords
    BY <1>1, <1>p DEF Dispatch, Publish
<1>4. P = [msgs |-> queue \o g, chords |-> chords]
    BY <1>2, <1>p, PublishOne
<1>5. msgs' = queue \o g /\ chords' = chords
    BY <1>3, <1>4
<1>6. MovesOn(t, m, g)
    BY <1>2, <1>5 DEF MovesOn
<1> QED
    BY <1>m, <1>5, <1>6

LEMMA SentOfIs ==
    ASSUME NEW t \in Messages, msgs[t] \in Message
    PROVE  /\ SentOf(t) \in Message /\ SentOf(t).pc = "sent" /\ SentOf(t).kind = msgs[t].kind
           /\ SentOf(t).row = msgs[t].row /\ SentOf(t).chord = msgs[t].chord /\ SentOf(t).next = msgs[t].next
           /\ SentOf(t).failed = msgs[t].failed /\ SentOf(t).value = msgs[t].value
           /\ SentOf(t).todo = msgs[t].todo
    BY DEF SentOf, Message, MessageWith, Places

LEMMA HeaderIs ==
    ASSUME NEW g \in Seq(Plain), NEW c \in Nat
    PROVE  /\ Header(g, c) \in Seq(Message) /\ Len(Header(g, c)) = Len(g) /\ DOMAIN Header(g, c) = DOMAIN g
           /\ \A j \in DOMAIN g :
                /\ Header(g, c)[j].chord = c /\ Header(g, c)[j].kind = g[j].kind /\ Header(g, c)[j].row = g[j].row
                /\ Header(g, c)[j].next = g[j].next /\ Header(g, c)[j].pc = g[j].pc
                /\ Header(g, c)[j].failed = g[j].failed
<1>1. ASSUME NEW j \in DOMAIN g
      PROVE  /\ Header(g, c)[j] \in Message
             /\ Header(g, c)[j].chord = c /\ Header(g, c)[j].kind = g[j].kind /\ Header(g, c)[j].row = g[j].row
             /\ Header(g, c)[j].next = g[j].next /\ Header(g, c)[j].pc = g[j].pc
             /\ Header(g, c)[j].failed = g[j].failed
    <2>1. PICK m \in Plain : m = g[j]
        OBVIOUS
    <2>2. PICK h : h = [m EXCEPT !.chord = c]
        OBVIOUS
    <2>3. h = Header(g, c)[j]
        BY <2>1, <2>2 DEF Header
    <2>4. /\ h \in Plain /\ h.chord = c /\ h.kind = m.kind /\ h.row = m.row /\ h.next = m.next
          /\ h.pc = m.pc /\ h.failed = m.failed
        BY <2>2 DEF Plain, MessageWith
    <2> QED
        BY <2>1, <2>3, <2>4, MessageTypes
<1>2. DOMAIN Header(g, c) = 1..Len(g) /\ Len(g) \in Nat /\ DOMAIN g = 1..Len(g)
    BY DEF Header
<1>3. Header(g, c) \in [1..Len(g) -> Message]
    BY <1>1, <1>2 DEF Header
<1> QED
    BY <1>1, <1>2, <1>3

LEMMA OpensBound ==
    ASSUME msgs \in Seq(Message), chords \in Seq(Chord), Bound(msgs, chords), NEW t \in Messages,
           \A o \in Messages : msgs[o].chord <= Len(chords),
           NEW g \in Seq(Plain), \A j \in DOMAIN g : g[j].kind = "extract", NEW r \in Nat, Opens(t, g, r)
    PROVE  /\ Bound(msgs', chords') /\ ChordsGoOn /\ (Waiting(r)' \/ Sent(r)')
           /\ \A a \in Nat : Waiting(a) => Waiting(a)'
<1>1. PICK m \in Message : m = SentOf(t) /\ m.kind = msgs[t].kind /\ m.chord = msgs[t].chord
    <2>1. msgs[t] \in Message
        BY DEF Messages
    <2> QED
        BY <2>1, SentOfIs
<1>2. CASE g = <<>> /\ MovesOn(t, SentOf(t), <<Transform(r)>>) /\ UNCHANGED chords
    <2>1. PICK more : more = <<Transform(r)>>
        OBVIOUS
    <2>2. more \in Seq(Message) /\ DOMAIN more = {1} /\ more[1] = Transform(r)
        BY <2>1, TransformIs
    <2>m. MovesOn(t, m, more) /\ \A i \in DOMAIN more : more[i].chord = 0
        BY <1>1, <1>2, <2>1, <2>2, TransformIs
    <2>3. Bound(msgs', chords') /\ ChordsGoOn
        BY <1>1, <1>2, <2>2, <2>m, MovesBound
    <2>4. \E i \in DOMAIN msgs' : msgs'[i] = Transform(r)
        <3>1. \A j \in DOMAIN more : Len(msgs) + j \in DOMAIN msgs' /\ msgs'[Len(msgs) + j] = more[j]
            BY <2>2, <2>m, MessagesMoved
        <3> QED
            BY <2>2, <3>1
    <2>5. \A a \in Nat : Waiting(a) => Waiting(a)'
        BY <1>2 DEF Waiting
    <2> QED
        BY <2>3, <2>4, <2>5, TransformIs DEF Sent, Messages
<1>3. CASE /\ g # <<>> /\ MovesOn(t, SentOf(t), Header(g, Len(chords) + 1))
           /\ chords' = Append(chords, [left |-> Len(g), broken |-> FALSE, body |-> After(r)])
    <2>1. PICK moved : moved = [msgs EXCEPT ![t] = m]
        OBVIOUS
    <2>2. /\ moved \in Seq(Message) /\ DOMAIN moved = Messages /\ moved[t] = m
          /\ \A o \in Messages \ {t} : moved[o] = msgs[o]
        BY <1>1, <2>1 DEF Messages
    <2>3. \A o \in Messages : moved[o].chord = msgs[o].chord /\ moved[o].kind = msgs[o].kind
        BY <1>1, <2>2
    <2>4. PICK head : head = Header(g, Len(chords) + 1)
        OBVIOUS
    <2>5. /\ head \in Seq(Message) /\ Len(head) = Len(g) /\ DOMAIN head = DOMAIN g
          /\ \A j \in DOMAIN g : head[j].chord = Len(chords) + 1 /\ head[j].kind = "extract"
        <3>1. Len(chords) + 1 \in Nat
            OBVIOUS
        <3> QED
            BY <2>4, <3>1, HeaderIs
    <2>6. PICK chord : chord = [left |-> Len(g), broken |-> FALSE, body |-> After(r)]
        OBVIOUS
    <2>7. chord \in Chord /\ chord.left = Len(g) /\ chord.broken = FALSE /\ chord.body = After(r) /\ Len(g) # 0
        <3>1. After(r) \in Groups
            BY TransformIs DEF After, Groups
        <3> QED
            BY <1>3, <2>6, <3>1 DEF Chord
    <2>8. msgs' = moved \o head /\ chords' = Append(chords, chord)
        BY <1>1, <1>3, <2>1, <2>4, <2>6 DEF MovesOn
    <2>9. Exact(moved, chords)
        <3>1. Exact(msgs, chords) /\ DOMAIN moved = DOMAIN msgs
            BY <2>2 DEF Bound, Messages
        <3> QED
            BY <2>3, <3>1, ExactMoved DEF Messages
    <2>10. Exact(msgs', chords')
        <3>1. \A o \in DOMAIN moved : moved[o].chord <= Len(chords)
            BY <2>2, <2>3
        <3> QED
            BY <2>2, <2>5, <2>7, <2>8, <2>9, <3>1, ExactChord
    <2>11. /\ DOMAIN chords' = DOMAIN chords \cup {Len(chords) + 1} /\ chords'[Len(chords) + 1] = chord
           /\ Len(chords) + 1 \notin DOMAIN chords
           /\ \A c \in DOMAIN chords : chords'[c] = chords[c]
        BY <2>7, <2>8
    <2>12. \A c \in DOMAIN chords' : EndsWell(chords'[c])
        BY <2>7, <2>11 DEF Bound, EndsWell
    <2>13. \A i \in DOMAIN msgs' : msgs'[i].kind # "extract" => msgs'[i].chord = 0
        <3>1. /\ \A o \in Messages : msgs'[o] = moved[o]
              /\ \A i \in DOMAIN msgs' \ Messages : i - Len(msgs) \in DOMAIN head /\ msgs'[i] = head[i - Len(msgs)]
            <4>1. MovesOn(t, m, head)
                BY <1>1, <1>3, <2>4
            <4>2. /\ msgs'[t] = m /\ \A o \in Messages \ {t} : msgs'[o] = msgs[o]
                  /\ \A i \in DOMAIN msgs' \ Messages : i - Len(msgs) \in DOMAIN head /\ msgs'[i] = head[i - Len(msgs)]
                BY <2>5, <4>1, MessagesMoved
            <4> QED
                BY <2>2, <4>2
        <3>2. \A i \in Messages : msgs'[i].kind # "extract" => msgs'[i].chord = 0
            BY <2>3, <3>1 DEF Bound, Messages
        <3>3. \A i \in DOMAIN msgs' \ Messages : msgs'[i].kind = "extract"
            BY <2>5, <3>1
        <3> QED
            BY <3>2, <3>3
    <2>14. ChordsGoOn
        BY <2>7, <2>11 DEF ChordsGoOn
    <2>15. Waiting(r)'
        BY <2>7, <2>11 DEF Waiting
    <2>16. \A a \in Nat : Waiting(a) => Waiting(a)'
        BY <2>11 DEF Waiting
    <2> QED
        BY <2>10, <2>12, <2>13, <2>14, <2>15, <2>16 DEF Bound
<1> QED
    BY <1>2, <1>3 DEF Opens

\* The message that goes on with the result of the first task of a chain.
NextOf(t, value) == [Extract(value, 0) EXCEPT !.chord = msgs[t].chord]

\* What a task that returns leaves: the other messages, and what its chain or chord publishes.
Leaves(t, value) ==
    \A i \in DOMAIN msgs' :
        \/ \E o \in Messages \ {t} : msgs'[i] = msgs[o]
        \/ \E r \in Nat : msgs'[i] = Transform(r)
        \/ msgs[t].next /\ msgs'[i] = NextOf(t, value)

\* Chord c counts the part t.
Counts(t, later) ==
    LET c == msgs[t].chord IN
    /\ later \in Seq(Chord) /\ DOMAIN later = DOMAIN chords /\ c \in DOMAIN chords
    /\ later[c].left = chords[c].left - 1 /\ (later[c].broken <=> chords[c].broken)
    /\ \A d \in DOMAIN chords : d # c => later[d] = chords[d]

LEMMA CountBound ==
    ASSUME msgs \in Seq(Message), chords \in Seq(Chord), Bound(msgs, chords), NEW t \in Messages,
           NEW later, Counts(t, later),
           EndsWell(later[msgs[t].chord])
    PROVE  Bound(Acked(t), later)
<1>1. PICK c : c = msgs[t].chord
    OBVIOUS
<1>2. /\ later \in Seq(Chord) /\ DOMAIN later = DOMAIN chords /\ c \in DOMAIN chords
      /\ later[c].left = chords[c].left - 1 /\ (later[c].broken <=> chords[c].broken)
      /\ \A d \in DOMAIN chords : d # c => later[d] = chords[d]
    BY <1>1 DEF Counts
<1>3. \A d \in DOMAIN chords :
            \/ later[d].broken
            \/ /\ ~chords[d].broken
               /\ later[d].left = IF msgs[t].chord = d THEN chords[d].left - 1 ELSE chords[d].left
    BY <1>1, <1>2
<1>4. Exact(Acked(t), later)
    BY <1>2, <1>3, ExactAcked DEF Bound
<1>5. \A d \in DOMAIN later : EndsWell(later[d])
    BY <1>1, <1>2 DEF Bound
<1> QED
    BY <1>4, <1>5, LeftBound DEF Bound

LEMMA CountGoesOn ==
    ASSUME msgs \in Seq(Message), chords \in Seq(Chord), NEW t \in Messages, Counts(t, chords'),
           msgs[t].chord # 0,
           \/ chords'[msgs[t].chord].body = chords[msgs[t].chord].body
           \/ PartsOf(msgs', msgs[t].chord) = {}
    PROVE  ChordsGoOn
    BY DEF Counts, ChordsGoOn

LEMMA ReturnBound ==
    ASSUME NEW table \in Seq(RowRecord), IsQueue(msgs, chords, table), Bound(msgs, chords), NEW t \in Messages,
           CeleryRetries \in Nat, NEW value \in 0..Len(table), Return(t, value)
    PROVE  /\ Bound(msgs', chords') /\ ChordsGoOn /\ Leaves(t, value)
           /\ \A a \in Nat : Waiting(a) => Waiting(a)' \/ Sent(a)'
<1>1. msgs \in Seq(Message) /\ chords \in Seq(Chord) /\ msgs[t] \in Message
    BY DEF IsQueue, Messages
<1>2. PICK c : c = msgs[t].chord
    OBVIOUS
<1>3. /\ \A i \in DOMAIN Acked(t) : \E o \in Messages \ {t} : Acked(t)[i] = msgs[o]
      /\ Acked(t) \in Seq(Message)
    BY <1>1, AckedMessages
<1>4. CASE msgs[t].next /\ msgs' = Append(Acked(t), NextOf(t, value)) /\ UNCHANGED chords
    <2>1. PICK next : next = NextOf(t, value)
        OBVIOUS
    <2>2. IsQueue(Append(Acked(t), next), chords, table)
        BY <2>1, NextQueue DEF NextOf
    <2>3. msgs' \in Seq(Message) /\ msgs' = Append(Acked(t), next)
        BY <1>4, <2>1, <2>2 DEF IsQueue
    <2>4. next \in Message /\ next.chord = c /\ next.kind = "extract"
        <3>1. Extract(value, 0) \in Plain /\ Extract(value, 0).kind = "extract"
            <4>1. Len(table) \in Nat /\ 0 \in 0..Len(table)
                OBVIOUS
            <4> QED
                <5>1. Extract(value, 0) \in Plain /\ Fresh(Extract(value, 0), table)
                    BY <4>1, ExtractFresh
                <5> QED
                    BY <5>1 DEF Extract
        <3>2. c \in Nat
            BY <1>1, <1>2 DEF Message, MessageWith
        <3>3. next = [Extract(value, 0) EXCEPT !.chord = c]
            BY <1>2, <2>1 DEF NextOf
        <3>4. next \in Plain /\ next.chord = c /\ next.kind = "extract"
            BY <3>1, <3>2, <3>3 DEF Plain, MessageWith
        <3> QED
            BY <3>4, MessageTypes
    <2>5. PICK n : n = Len(Acked(t))
        OBVIOUS
    <2>6. /\ n \in Nat /\ DOMAIN Acked(t) = 1..n /\ DOMAIN msgs' = 1..(n + 1) /\ msgs'[n + 1] = next
          /\ \A i \in 1..n : msgs'[i] = Acked(t)[i]
        <3>1. Acked(t) \in Seq(Message) /\ next \in Message /\ msgs' = Append(Acked(t), next)
            BY <1>3, <2>3, <2>4
        <3> QED
            BY <2>5, <3>1
    <2>7. Leaves(t, value)
        <3>1. \A i \in DOMAIN msgs' : i \in DOMAIN Acked(t) \/ i = n + 1
            BY <2>6
        <3> QED
            BY <1>3, <1>4, <2>1, <2>6, <3>1 DEF Leaves
    <2>8. Exact(msgs', chords)
        <3> SUFFICES ASSUME NEW d \in DOMAIN chords, ~chords[d].broken
                     PROVE  chords[d].left = Cardinality(PartsOf(msgs', d))
            BY DEF Exact
        <3>1. chords[d].left = Cardinality(PartsOf(msgs, d)) /\ chords[d] \in Chord
            BY <1>1 DEF Bound, Exact
        <3>2. Cardinality(PartsOf(Acked(t), d)) =
                IF c = d THEN Cardinality(PartsOf(msgs, d)) - 1 ELSE Cardinality(PartsOf(msgs, d))
            BY <1>1, <1>2, PartsOfAcked
        <3>3. IsFiniteSet(PartsOf(Acked(t), d)) /\ Cardinality(PartsOf(Acked(t), d)) \in Nat
            BY <1>3, PartsFinite
        <3>4. \A i : i \in PartsOf(msgs', d) <=> i \in PartsOf(Acked(t), d) \/ (i = n + 1 /\ c = d)
            <4>1. \A i : i \in 1..(n + 1) <=> i \in 1..n \/ i = n + 1
                BY <2>6
            <4>2. n + 1 \notin 1..n
                BY <2>6
            <4> QED
                BY <2>4, <2>6, <4>1, <4>2 DEF PartsOf
        <3>5. CASE c = d
            <4>1. PartsOf(msgs', d) = PartsOf(Acked(t), d) \cup {n + 1}
                BY <3>4, <3>5
            <4>2. n + 1 \notin PartsOf(Acked(t), d)
                BY <2>6 DEF PartsOf
            <4>3. Cardinality(PartsOf(msgs', d)) = Cardinality(PartsOf(Acked(t), d)) + 1
                BY <3>3, <4>1, <4>2, FS_AddElement
            <4>4. Cardinality(PartsOf(msgs, d)) \in Nat
                BY <1>1, PartsFinite
            <4> QED
                BY <3>1, <3>2, <3>5, <4>3, <4>4
        <3>6. CASE c # d
            <4>1. PartsOf(msgs', d) = PartsOf(Acked(t), d)
                BY <3>4, <3>6
            <4> QED
                BY <3>1, <3>2, <3>6, <4>1
        <3> QED
            BY <3>5, <3>6
    <2>9. \A i \in DOMAIN msgs' : msgs'[i].kind # "extract" => msgs'[i].chord = 0
        <3>1. \A i \in DOMAIN msgs' : i \in DOMAIN Acked(t) \/ i = n + 1
            BY <2>6
        <3>2. \A i \in DOMAIN Acked(t) : Acked(t)[i].kind # "extract" => Acked(t)[i].chord = 0
            BY <1>1, LeftBound
        <3> QED
            BY <2>4, <2>6, <3>1, <3>2
    <2>10. Bound(msgs', chords')
        BY <1>4, <2>8, <2>9 DEF Bound
    <2>11. ChordsGoOn /\ \A a \in Nat : Waiting(a) => Waiting(a)'
        BY <1>4 DEF ChordsGoOn, Waiting
    <2> QED
        BY <2>7, <2>10, <2>11
<1>5. CASE ~msgs[t].next /\ c = 0 /\ msgs' = Acked(t) /\ UNCHANGED chords
    <2>1. Bound(msgs', chords') /\ ChordsGoOn
        BY <1>1, <1>2, <1>5, RunsBound
    <2>2. Leaves(t, value)
        BY <1>3, <1>5 DEF Leaves
    <2>3. \A a \in Nat : Waiting(a) => Waiting(a)'
        BY <1>5 DEF Waiting
    <2> QED
        BY <2>1, <2>2, <2>3
<1>6. PICK counted : counted = [chords EXCEPT ![c].left = @ - 1]
    OBVIOUS
<1>7. ASSUME c # 0
      PROVE  c \in DOMAIN chords /\ chords[c] \in Chord /\ Counts(t, counted) /\ counted[c].body = chords[c].body
    <2>1. c \in DOMAIN chords /\ chords[c] \in Chord /\ chords[c].left - 1 \in Nat
        BY <1>2, <1>7, ChordWaits
    <2>2. PICK one : one = [chords[c] EXCEPT !.left = @ - 1]
        OBVIOUS
    <2>3. one \in Chord /\ one.left = chords[c].left - 1 /\ one.body = chords[c].body /\ (one.broken <=> chords[c].broken)
        BY <2>1, <2>2 DEF Chord
    <2>4. counted = [chords EXCEPT ![c] = one]
        BY <1>6, <2>2
    <2>5. counted \in Seq(Chord) /\ DOMAIN counted = DOMAIN chords /\ counted[c] = one
            /\ \A d \in DOMAIN chords : d # c => counted[d] = chords[d]
        BY <1>1, <2>1, <2>3, <2>4
    <2> QED
        BY <1>2, <2>1, <2>3, <2>5 DEF Counts
<1>8. CASE /\ ~msgs[t].next /\ c # 0
           /\ ~(counted[c].left = 0 /\ ~counted[c].broken)
           /\ msgs' = Acked(t) /\ chords' = counted
    <2>1. EndsWell(counted[c])
        BY <1>7, <1>8 DEF Bound, EndsWell
    <2>2. Bound(msgs', chords')
        BY <1>1, <1>2, <1>7, <1>8, <2>1, CountBound
    <2>3. ChordsGoOn
        BY <1>1, <1>2, <1>7, <1>8, CountGoesOn
    <2>4. Leaves(t, value)
        BY <1>3, <1>8 DEF Leaves
    <2>5. \A a \in Nat : Waiting(a) => Waiting(a)'
        BY <1>2, <1>7, <1>8 DEF Waiting, Counts
    <2> QED
        BY <2>2, <2>3, <2>4, <2>5
<1>9. CASE /\ ~msgs[t].next /\ c # 0
           /\ counted[c].left = 0 /\ ~counted[c].broken
           /\ Publish(Acked(t), [counted EXCEPT ![c].body = <<>>], counted[c].body)
    <2>1. PICK emptied : emptied = [counted EXCEPT ![c].body = <<>>]
        OBVIOUS
    <2>2. /\ counted \in Seq(Chord) /\ c \in DOMAIN counted /\ DOMAIN counted = DOMAIN chords
          /\ counted[c].left = chords[c].left - 1 /\ (counted[c].broken <=> chords[c].broken)
          /\ counted[c].body = chords[c].body
          /\ \A d \in DOMAIN chords : d # c => counted[d] = chords[d]
        BY <1>2, <1>7, <1>9 DEF Counts
    <2>3. PICK one : one = [counted[c] EXCEPT !.body = <<>>]
        OBVIOUS
    <2>4. one \in Chord /\ one.left = 0 /\ one.broken = FALSE /\ one.body = <<>>
        <3>1. counted[c] \in Chord
            BY <2>2
        <3> QED
            BY <1>9, <2>3, <3>1, MessageTypes DEF Chord
    <2>5. emptied = [counted EXCEPT ![c] = one]
        BY <2>1, <2>3
    <2>6. /\ emptied \in Seq(Chord) /\ DOMAIN emptied = DOMAIN chords /\ emptied[c] = one
          /\ \A d \in DOMAIN chords : d # c => emptied[d] = chords[d]
        BY <2>2, <2>4, <2>5
    <2>7. Counts(t, emptied) /\ EndsWell(emptied[c])
        <3>1. emptied[c].left = chords[c].left - 1 /\ (emptied[c].broken <=> chords[c].broken)
            BY <1>9, <2>2, <2>4, <2>6
        <3>2. Counts(t, emptied)
            BY <1>2, <2>2, <2>6, <3>1 DEF Counts
        <3>3. EndsWell(emptied[c])
            BY <2>4, <2>6 DEF EndsWell
        <3> QED
            BY <3>2, <3>3
    <2>8. Bound(Acked(t), emptied)
        BY <1>1, <1>2, <2>7, CountBound
    <2>9. Cardinality(PartsOf(Acked(t), c)) = 0
        <3>1. Exact(Acked(t), emptied) /\ c \in DOMAIN emptied
            BY <2>2, <2>6, <2>8 DEF Bound
        <3>2. emptied[c].left = 0 /\ ~emptied[c].broken
            BY <2>4, <2>6
        <3> QED
            BY <3>1, <3>2 DEF Exact
    <2>10. PartsOf(Acked(t), c) = {}
        <3>1. IsFiniteSet(PartsOf(Acked(t), c))
            BY <1>3, PartsFinite
        <3> QED
            BY <2>9, <3>1, FS_EmptySet
    <2>11. PICK P : P = Published(Acked(t), emptied, chords[c].body)
        OBVIOUS
    <2>12. msgs' = P.msgs /\ chords' = P.chords
        BY <1>9, <2>1, <2>2, <2>11 DEF Publish
    <2>13. chords[c].body = <<>> \/ \E r \in Nat : chords[c].body = After(r)
        BY <1>7, <1>9 DEF Bound, EndsWell
    <2>14. CASE chords[c].body = <<>>
        <3>1. P = [msgs |-> Acked(t), chords |-> emptied]
            BY <2>11, <2>14, PublishNone
        <3>2. msgs' = Acked(t) /\ chords' = emptied
            BY <2>12, <3>1
        <3>3. ChordsGoOn
            BY <1>1, <1>2, <1>9, <2>7, <2>10, <3>2, CountGoesOn
        <3>4. \A a \in Nat : Waiting(a) => Waiting(a)'
            BY <2>6, <2>14, <3>2, AfterNotNone DEF Waiting
        <3> QED
            BY <1>3, <2>8, <3>2, <3>3, <3>4 DEF Leaves
    <2>15. CASE \E r \in Nat : chords[c].body = After(r)
        <3>1. PICK r \in Nat : chords[c].body = After(r)
            BY <2>15
        <3>2. PICK g : g = <<Transform(r)>>
            OBVIOUS
        <3>3. g \in Seq(Plain) /\ g \in Seq(Message) /\ DOMAIN g = {1} /\ g[1] = Transform(r) /\ Len(g) = 1
            BY <3>2, TransformIs
        <3>4. chords[c].body = <<g>>
            BY <3>1, <3>2 DEF After
        <3>5. P = [msgs |-> Acked(t) \o g, chords |-> emptied]
            BY <1>3, <2>11, <3>3, <3>4, PublishOne
        <3>6. msgs' = Acked(t) \o g /\ chords' = emptied
            BY <2>12, <3>5
        <3>7. PICK n : n = Len(Acked(t))
            OBVIOUS
        <3>8. /\ n \in Nat /\ DOMAIN Acked(t) = 1..n /\ DOMAIN msgs' = 1..(n + 1) /\ msgs'[n + 1] = Transform(r)
              /\ \A i \in 1..n : msgs'[i] = Acked(t)[i]
            <4>1. PICK q \in Seq(Message) : q = Acked(t)
                BY <1>3
            <4>2. PICK all : all = q \o g
                OBVIOUS
            <4>4. q \in Seq(Message) /\ g \in Seq(Message) /\ Len(g) = 1 /\ n = Len(q)
                BY <3>3, <3>7, <4>1
            <4>5. DOMAIN all = 1..(n + 1) /\ n \in Nat /\ DOMAIN q = 1..n /\ \A i \in 1..n : all[i] = q[i]
                BY ONLY <4>2, <4>4, Joined
            <4>6. all[n + 1] = g[1]
                <5>1. \A i \in (Len(q) + 1)..(Len(q) + Len(g)) : all[i] = g[i - Len(q)]
                    BY ONLY <4>2, <4>4, Joined
                <5>2. n + 1 \in (Len(q) + 1)..(Len(q) + Len(g)) /\ (n + 1) - Len(q) = 1
                    BY ONLY <4>4, <4>5
                <5> QED
                    BY ONLY <5>1, <5>2
            <4> QED
                BY <3>3, <3>6, <4>1, <4>2, <4>5, <4>6
        <3>9. \A i \in DOMAIN msgs' : i \in DOMAIN Acked(t) \/ i = n + 1
            BY <3>8
        <3>10. \A i \in DOMAIN g : g[i].chord = 0
            BY <3>3, TransformIs
        <3>11. Exact(msgs', chords')
            BY <1>3, <2>6, <2>8, <3>3, <3>6, <3>10, ExactMore DEF Bound
        <3>12. Bound(msgs', chords')
            <4>1. \A i \in DOMAIN msgs' : msgs'[i].kind # "extract" => msgs'[i].chord = 0
                BY <2>8, <3>8, <3>9, TransformIs DEF Bound
            <4> QED
                BY <2>8, <3>6, <3>11, <4>1 DEF Bound
        <3>13. PartsOf(msgs', c) = {}
            <4>1. \A i \in DOMAIN g : g[i].chord # c
                BY <1>9, <3>10
            <4>2. PartsOf(Acked(t) \o g, c) = PartsOf(Acked(t), c)
                BY <1>3, <3>3, <4>1, PartsOfMore
            <4> QED
                BY <2>10, <3>6, <4>2
        <3>14. ChordsGoOn
            BY <1>1, <1>2, <1>9, <2>7, <3>6, <3>13, CountGoesOn
        <3>15. Leaves(t, value)
            BY <1>3, <3>8, <3>9 DEF Leaves
        <3>16. ASSUME NEW a \in Nat, Waiting(a)
               PROVE  Waiting(a)' \/ Sent(a)'
            <4>1. PICK d \in DOMAIN chords : chords[d].body = After(a) /\ ~chords[d].broken
                BY <3>16 DEF Waiting
            <4>2. CASE d = c
                <5>1. a = r
                    BY <3>1, <4>1, <4>2, AfterIs
                <5>2. n + 1 \in DOMAIN msgs'
                    BY <3>8
                <5> QED
                    BY <3>8, <5>1, <5>2, TransformIs DEF Sent, Messages
            <4>3. CASE d # c
                BY <2>6, <3>6, <4>1, <4>3 DEF Waiting
            <4> QED
                BY <4>2, <4>3
        <3> QED
            BY <3>12, <3>14, <3>15, <3>16
    <2> QED
        BY <2>13, <2>14, <2>15
<1> QED
    BY <1>2, <1>4, <1>5, <1>6, <1>8, <1>9 DEF Return, NextOf

-----------------------------------------------------------------------------
(* Disaster Charter: when no exception is unknown and no worker is lost, the   *)
(* transform of an activation that succeeds has been delivered, is queued, or   *)
(* waits for a chord that nothing breaks.                                       *)

Starters(g) == \A j \in DOMAIN g : g[j].kind = "extract" /\ ~g[j].next /\ g[j].pc = "queued"

\* A message is no first task of a chain, and has to publish a chord for its row, if anything.
Fine(m) ==
    /\ ~m.next
    /\ m.pc = "made" => \E g \in Seq(Plain) : Starters(g) /\ m.todo = <<g, <<Transform(m.row)>>>>

\* An activation has succeeded, or is about to.
Claims(a) ==
    /\ rows[a].type = "ACTIVATION"
    /\ rows[a].status = "SUCCESS" \/ \E t \in Messages : OnRow(t, a) /\ msgs[t].pc = "sent"

Awaits(a) == a \in ended \/ Sent(a) \/ Waiting(a)

ChordsHold ==
    /\ Bound(msgs, chords)
    /\ \A c \in DOMAIN chords : ~chords[c].broken
    /\ \A t \in Messages : Fine(msgs[t])
    /\ \A a \in Rows : Claims(a) => Awaits(a)

LEMMA QueuedFine ==
    ASSUME NEW m, ~m.next, m.pc = "queued"
    PROVE  Fine(m)
    BY DEF Fine

\* The rows succeed that have succeeded before.
OldSuccess == \A a \in DOMAIN rows' : rows'[a].status = "SUCCESS" => a \in Rows /\ rows[a].status = "SUCCESS"

\* The delivery moves on, and messages are published.
LEMMA MovedHolds ==
    ASSUME Typed, ChordsHold, NEW t \in Messages, msgs[t].kind = "extract",
           NEW m \in Message, m.kind = "extract", m.chord = msgs[t].chord, m.row = msgs[t].row, Fine(m),
           NEW more \in Seq(Message), \A i \in DOMAIN more : more[i].chord = 0 /\ ~more[i].next /\ more[i].pc = "queued",
           MovesOn(t, m, more), UNCHANGED <<chords, ended>>,
           \A a \in Rows : a \in DOMAIN rows' /\ rows'[a].type = rows[a].type,
           0 \notin DOMAIN rows', OldSuccess,
           m.pc = "sent" => rows[m.row].type # "ACTIVATION"
    PROVE  ChordsHold'
<1>1. msgs \in Seq(Message) /\ chords \in Seq(Chord) /\ Bound(msgs, chords)
    BY DEF Typed, IsQueue, ChordsHold
<1>2. Bound(msgs', chords') /\ ChordsGoOn
    BY <1>1, MovesBound
<1>3. /\ Messages \subseteq DOMAIN msgs' /\ msgs'[t] = m
      /\ \A o \in Messages \ {t} : msgs'[o] = msgs[o]
      /\ \A i \in DOMAIN msgs' \ Messages : i - Len(msgs) \in DOMAIN more /\ msgs'[i] = more[i - Len(msgs)]
    BY <1>1, MessagesMoved
<1>4. \A i \in DOMAIN msgs' \ Messages : ~msgs'[i].next /\ msgs'[i].pc = "queued"
    BY <1>3
<1>5. ASSUME NEW i \in DOMAIN msgs' PROVE Fine(msgs'[i])
    <2>1. CASE i = t
        BY <1>3, <2>1
    <2>2. CASE i \in Messages \ {t}
        BY <1>3, <2>2 DEF ChordsHold
    <2>3. CASE i \in DOMAIN msgs' \ Messages
        BY <1>4, <2>3, QueuedFine
    <2> QED
        BY <2>1, <2>2, <2>3
<1>6. ASSUME NEW a \in Nat, Awaits(a) PROVE Awaits(a)'
    <2>1. Waiting(a) => Waiting(a)'
        BY DEF Waiting
    <2>2. Sent(a) => Sent(a)'
        BY <1>3 DEF Sent, Messages
    <2> QED
        BY <1>6, <2>1, <2>2 DEF Awaits
<1>7. ASSUME NEW a \in DOMAIN rows', Claims(a)' PROVE a \in Rows /\ Claims(a)
    <2>1. CASE rows'[a].status = "SUCCESS"
        BY <1>7, <2>1 DEF Claims, OldSuccess
    <2>2. CASE \E o \in DOMAIN msgs' : OnRow(o, a)' /\ msgs'[o].pc = "sent"
        <3>1. PICK o \in DOMAIN msgs' : msgs'[o].kind = "extract" /\ msgs'[o].row = a /\ msgs'[o].pc = "sent"
            BY <2>2 DEF OnRow
        <3>2. o \in Messages
            BY <1>4, <3>1
        <3>3. msgs[o].row = a /\ msgs[o].kind = "extract"
            BY <1>3, <3>1, <3>2
        <3>4. a \in Rows
            BY <3>2, <3>3, MessageOf
        <3>5. rows[a].type = "ACTIVATION"
            BY <1>7, <3>4 DEF Claims
        <3>6. o # t
            BY <1>3, <3>1, <3>5
        <3> QED
            BY <1>3, <3>1, <3>2, <3>3, <3>4, <3>5, <3>6 DEF Claims, OnRow
    <2> QED
        BY <1>7, <2>1, <2>2 DEF Claims, Messages
<1>8. ASSUME NEW a \in DOMAIN rows', Claims(a)' PROVE Awaits(a)'
    <2>1. a \in Rows /\ Awaits(a)
        BY <1>7, <1>8 DEF ChordsHold
    <2>2. Rows \subseteq Nat
        BY DEF Typed, IsTable, Rows
    <2> QED
        BY <1>6, <2>1, <2>2
<1>9. \A c \in DOMAIN chords' : ~chords'[c].broken
    BY DEF ChordsHold
<1> QED
    BY <1>2, <1>5, <1>8, <1>9 DEF ChordsHold, Rows, Messages

\* The delivery returns.
LEMMA ReturnedHolds ==
    ASSUME Typed, ChordsHold, NEW t \in Messages, msgs[t].kind = "extract", NEW value \in 0..Len(rows), Return(t, value),
           UNCHANGED ended, IsTable(rows'), Grows(rows, rows'), DOMAIN rows' = Rows,
           \A a \in Rows : rows'[a].status = "SUCCESS" =>
                rows[a].status = "SUCCESS" \/ (a = msgs[t].row /\ msgs[t].pc = "sent")
    PROVE  ChordsHold'
<1>1. rows \in Seq(RowRecord) /\ IsQueue(msgs, chords, rows) /\ Bound(msgs, chords) /\ CeleryRetries \in Nat
    BY FanOutAssumption DEF Typed, IsTable, ChordsHold
<1>2. /\ Bound(msgs', chords') /\ ChordsGoOn /\ Leaves(t, value)
      /\ \A a \in Nat : Waiting(a) => Waiting(a)' \/ Sent(a)'
    BY <1>1, ReturnBound
<1>3. Keeps(t)
    BY <1>1, ReturnQueue
<1>4. ~msgs[t].next
    BY DEF ChordsHold, Fine
<1>5. Rows \subseteq Nat
    BY <1>1 DEF Rows
<1>6. ASSUME NEW i \in DOMAIN msgs'
      PROVE  \/ \E o \in Messages \ {t} : msgs'[i] = msgs[o]
             \/ \E r \in Nat : msgs'[i] = Transform(r)
    BY <1>2, <1>4 DEF Leaves
<1>7. ASSUME NEW i \in DOMAIN msgs' PROVE Fine(msgs'[i])
    <2>1. CASE \E o \in Messages \ {t} : msgs'[i] = msgs[o]
        BY <2>1 DEF ChordsHold
    <2>2. CASE \E r \in Nat : msgs'[i] = Transform(r)
        BY <2>2, TransformIs, QueuedFine
    <2> QED
        BY <1>6, <2>1, <2>2
<1>8. ASSUME NEW a \in Nat, Awaits(a) PROVE Awaits(a)'
    <2>1. CASE Sent(a)
        <3>1. PICK o \in Messages : msgs[o].kind = "transform" /\ msgs[o].row = a
            BY <2>1 DEF Sent
        <3>2. o # t
            BY <3>1
        <3>3. PICK i \in DOMAIN msgs' : msgs'[i] = msgs[o]
            BY <1>3, <3>2 DEF Keeps
        <3> QED
            BY <3>1, <3>3 DEF Awaits, Sent, Messages
    <2> QED
        BY <1>2, <1>8, <2>1 DEF Awaits
<1>9. ASSUME NEW a \in Rows, Claims(a)' PROVE Claims(a)
    <2>1. rows[a].type = "ACTIVATION"
        BY <1>9 DEF Claims, Grows, Rows
    <2>2. CASE rows'[a].status = "SUCCESS"
        BY <2>1, <2>2 DEF Claims, OnRow
    <2>3. CASE \E o \in DOMAIN msgs' : OnRow(o, a)' /\ msgs'[o].pc = "sent"
        <3>1. PICK i \in DOMAIN msgs' : msgs'[i].kind = "extract" /\ msgs'[i].row = a /\ msgs'[i].pc = "sent"
            BY <2>3 DEF OnRow
        <3>2. PICK o \in Messages : msgs'[i] = msgs[o]
            BY <1>6, <3>1, TransformIs
        <3> QED
            BY <2>1, <3>1, <3>2 DEF Claims, OnRow
    <2> QED
        BY <1>9, <2>2, <2>3 DEF Claims, Messages
<1>10. \A c \in DOMAIN chords' : ~chords'[c].broken
    BY <1>2 DEF ChordsHold, ChordsGoOn
<1>11. \A a \in Rows : Claims(a)' => Awaits(a)'
    BY <1>5, <1>8, <1>9 DEF ChordsHold
<1> QED
    BY <1>2, <1>7, <1>10, <1>11 DEF ChordsHold, Rows, Messages

LEMMA DispatchHolds ==
    ASSUME Typed, ChordsHold, NEW t \in Messages, Dispatch(t)
    PROVE  ChordsHold'
<1>1. PICK r : r = msgs[t].row
    OBVIOUS
<1>2. /\ msgs[t] \in Message /\ msgs[t].kind = "extract" /\ r \in Rows /\ rows \in Seq(RowRecord)
      /\ IsQueue(msgs, chords, rows) /\ msgs[t].pc = "made"
    BY <1>1, Delivery DEF Dispatch, At
<1>3. msgs \in Seq(Message) /\ chords \in Seq(Chord) /\ Bound(msgs, chords) /\ r \in Nat
        /\ \A o \in Messages : msgs[o].chord <= Len(chords)
    BY <1>2 DEF IsQueue, ChordsHold, Rows, Messages
<1>4. PICK g \in Seq(Plain) : Starters(g) /\ msgs[t].todo = <<g, <<Transform(r)>>>>
    BY <1>1, <1>2 DEF ChordsHold, Fine
<1>5. Opens(t, g, r)
    BY <1>3, <1>4, DispatchOpens
<1>6. /\ Bound(msgs', chords') /\ ChordsGoOn /\ (Waiting(r)' \/ Sent(r)')
      /\ \A a \in Nat : Waiting(a) => Waiting(a)'
    BY <1>3, <1>4, <1>5, OpensBound DEF Starters
<1>7. PICK m : m = SentOf(t)
    OBVIOUS
<1>8. m \in Message /\ m.pc = "sent" /\ m.kind = "extract" /\ m.row = r /\ ~m.next
    <2>1. ~msgs[t].next
        BY DEF ChordsHold, Fine
    <2> QED
        BY <1>1, <1>2, <1>7, <2>1, SentOfIs
<1>9. PICK more \in Seq(Message) : MovesOn(t, m, more) /\ \A i \in DOMAIN more : ~more[i].next /\ more[i].pc = "queued"
    <2>1. CASE MovesOn(t, SentOf(t), <<Transform(r)>>)
        <3>1. PICK more : more = <<Transform(r)>>
            OBVIOUS
        <3>2. more \in Seq(Message) /\ DOMAIN more = {1} /\ more[1] = Transform(r)
            BY <1>3, <3>1, TransformIs
        <3>3. \A i \in DOMAIN more : ~more[i].next /\ more[i].pc = "queued"
            BY <1>3, <3>2, TransformIs
        <3> QED
            BY <1>7, <2>1, <3>1, <3>2, <3>3
    <2>2. CASE MovesOn(t, SentOf(t), Header(g, Len(chords) + 1))
        <3>1. PICK more : more = Header(g, Len(chords) + 1)
            OBVIOUS
        <3>2. Len(chords) + 1 \in Nat
            BY <1>3
        <3>3. /\ more \in Seq(Message) /\ DOMAIN more = DOMAIN g
              /\ \A i \in DOMAIN g : more[i].next = g[i].next /\ more[i].pc = g[i].pc
            BY <3>1, <3>2, HeaderIs
        <3>4. \A i \in DOMAIN more : ~more[i].next /\ more[i].pc = "queued"
            BY <1>4, <3>3 DEF Starters
        <3> QED
            BY <1>7, <2>2, <3>1, <3>3, <3>4
    <2> QED
        BY <1>5, <2>1, <2>2 DEF Opens
<1>10. /\ Messages \subseteq DOMAIN msgs' /\ msgs'[t] = m
       /\ \A o \in Messages \ {t} : msgs'[o] = msgs[o]
       /\ \A i \in DOMAIN msgs' \ Messages : ~msgs'[i].next /\ msgs'[i].pc = "queued"
    <2>1. /\ Messages \subseteq DOMAIN msgs' /\ msgs'[t] = m
          /\ \A o \in Messages \ {t} : msgs'[o] = msgs[o]
          /\ \A i \in DOMAIN msgs' \ Messages : i - Len(msgs) \in DOMAIN more /\ msgs'[i] = more[i - Len(msgs)]
        BY <1>3, <1>8, <1>9, MessagesMoved
    <2> QED
        BY <1>9, <2>1
<1>11. ASSUME NEW i \in DOMAIN msgs' PROVE Fine(msgs'[i])
    <2>1. CASE i = t
        BY <1>8, <1>10, <2>1 DEF Fine
    <2>2. CASE i \in Messages \ {t}
        BY <1>10, <2>2 DEF ChordsHold
    <2>3. CASE i \in DOMAIN msgs' \ Messages
        BY <1>10, <2>3, QueuedFine
    <2> QED
        BY <2>1, <2>2, <2>3
<1>12. ASSUME NEW a \in Nat, Awaits(a) PROVE Awaits(a)'
    <2>1. CASE Sent(a)
        <3>1. PICK o \in Messages : msgs[o].kind = "transform" /\ msgs[o].row = a
            BY <2>1 DEF Sent
        <3>2. o # t
            BY <1>2, <3>1
        <3> QED
            BY <1>10, <3>1, <3>2 DEF Awaits, Sent, Messages
    <2> QED
        BY <1>6, <1>12, <2>1 DEF Awaits, Dispatch
<1>13. ASSUME NEW a \in Rows, Claims(a)' PROVE Awaits(a)'
    <2>n. a \in Nat
        BY <1>2 DEF Rows
    <2>1. CASE rows'[a].status = "SUCCESS"
        <3>1. Claims(a)
            BY <1>13, <2>1 DEF Claims, Dispatch
        <3> QED
            BY <1>12, <2>n, <3>1 DEF ChordsHold
    <2>2. CASE \E o \in DOMAIN msgs' : OnRow(o, a)' /\ msgs'[o].pc = "sent"
        <3>1. PICK o \in DOMAIN msgs' : msgs'[o].kind = "extract" /\ msgs'[o].row = a /\ msgs'[o].pc = "sent"
            BY <2>2 DEF OnRow
        <3>2. CASE o = t
            BY <1>6, <1>8, <1>10, <3>1, <3>2 DEF Awaits
        <3>3. CASE o \in Messages \ {t}
            <4>1. Claims(a)
                BY <1>10, <1>13, <3>1, <3>3 DEF Claims, OnRow, Dispatch
            <4> QED
                BY <1>12, <2>n, <4>1 DEF ChordsHold
        <3> QED
            BY <1>10, <3>1, <3>2, <3>3
    <2> QED
        BY <1>13, <2>1, <2>2 DEF Claims, Messages
<1>14. \A c \in DOMAIN chords' : ~chords'[c].broken
    BY <1>6 DEF ChordsHold, ChordsGoOn
<1>15. UNCHANGED rows
    BY DEF Dispatch
<1> QED
    BY <1>6, <1>11, <1>13, <1>14, <1>15 DEF ChordsHold, Rows, Messages

\* The transform of a row is delivered.
LEMMA TransformHolds ==
    ASSUME Typed, ChordsHold, NEW t \in Messages, msgs[t].kind = "transform", msgs' = Acked(t),
           UNCHANGED <<rows, chords>>, ended' = ended \cup {msgs[t].row}
    PROVE  ChordsHold'
<1>1. msgs \in Seq(Message) /\ chords \in Seq(Chord) /\ Bound(msgs, chords) /\ msgs[t].chord = 0
    BY DEF Typed, IsQueue, ChordsHold, Bound, Messages
<1>2. Bound(msgs', chords') /\ ChordsGoOn
    BY <1>1, RunsBound
<1>3. (\A i \in DOMAIN msgs' : \E o \in Messages \ {t} : msgs'[i] = msgs[o]) /\ Keeps(t)
    BY <1>1, MessagesLeft
<1>4. \A i \in DOMAIN msgs' : Fine(msgs'[i])
    BY <1>3 DEF ChordsHold
<1>5. ASSUME NEW a \in Rows, Awaits(a) PROVE Awaits(a)'
    <2>1. Waiting(a) => Waiting(a)'
        BY DEF Waiting
    <2>2. CASE Sent(a)
        <3>1. PICK o \in Messages : msgs[o].kind = "transform" /\ msgs[o].row = a
            BY <2>2 DEF Sent
        <3>2. CASE o = t
            BY <3>1, <3>2 DEF Awaits
        <3>3. CASE o # t
            <4>1. PICK i \in DOMAIN msgs' : msgs'[i] = msgs[o]
                BY <1>3, <3>3 DEF Keeps
            <4> QED
                BY <3>1, <4>1 DEF Awaits, Sent, Messages
        <3> QED
            BY <3>2, <3>3
    <2> QED
        BY <1>5, <2>1, <2>2 DEF Awaits
<1>6. ASSUME NEW a \in Rows, Claims(a)' PROVE Claims(a)
    BY <1>3, <1>6 DEF Claims, OnRow, Messages
<1>7. \A a \in Rows : Claims(a)' => Awaits(a)'
    BY <1>5, <1>6 DEF ChordsHold
<1>8. \A c \in DOMAIN chords' : ~chords'[c].broken
    BY DEF ChordsHold
<1> QED
    BY <1>2, <1>4, <1>7, <1>8 DEF ChordsHold, Rows, Messages

\* The handler has made its rows and groups.
LEMMA MadeMoves ==
    ASSUME Typed, NEW t \in Messages, Received(t), NEW row \in RowRecord, NEW new \in Seq(RowRecord),
           \A i \in DOMAIN new : new[i].status = "PENDING", NEW groups \in Groups, Made(t, row, new, groups, 0)
    PROVE  /\ OldSuccess
           /\ \E m \in Message :
                /\ MovesOn(t, m, <<>>) /\ m.kind = "extract" /\ m.row = msgs[t].row /\ m.chord = msgs[t].chord
                /\ m.next = msgs[t].next /\ m.todo = groups
                /\ m.pc = IF groups = <<>> THEN "sent" ELSE "made"
<1>1. PICK r : r = msgs[t].row
    OBVIOUS
<1>2. /\ msgs[t] \in Message /\ msgs[t].kind = "extract" /\ r \in Rows /\ r \in DOMAIN rows /\ IsTable(rows)
      /\ rows \in Seq(RowRecord) /\ rows[r] \in RowRecord /\ t \in DOMAIN msgs
    BY <1>1, Delivery DEF Rows
<1>3. PICK begun : begun = Started(t)[r]
    OBVIOUS
<1>4. begun \in RowRecord /\ begun.status = "IN_PROGRESS"
    <2>1. "IN_PROGRESS" \in Status /\ msgs[t].row \in DOMAIN rows
        BY <1>1, <1>2 DEF Status
    <2> QED
        BY <1>1, <1>2, <1>3, <2>1, MarkedRow DEF Started, SetStatus
<1>5. PICK one : one = [row EXCEPT !.status = begun.status]
    OBVIOUS
<1>6. PICK two : two = [one EXCEPT !.runs = begun.runs]
    OBVIOUS
<1>7. one \in RowRecord /\ one.status = "IN_PROGRESS"
    BY <1>4, <1>5 DEF RowRecord
<1>8. two \in RowRecord /\ two.status = "IN_PROGRESS"
    BY <1>4, <1>6, <1>7 DEF RowRecord
<1>9. PICK table : table = [rows EXCEPT ![r] = two]
    OBVIOUS
<1>10. /\ table \in Seq(RowRecord) /\ DOMAIN table = Rows /\ table[r].status = "IN_PROGRESS"
       /\ \A o \in Rows \ {r} : table[o] = rows[o]
    BY <1>2, <1>8, <1>9 DEF Rows
<1>11. rows' = table \o new
    BY <1>1, <1>3, <1>5, <1>6, <1>9 DEF Made
<1>12. \A j \in DOMAIN rows' :
            \/ j \in DOMAIN table /\ rows'[j] = table[j]
            \/ j - Len(table) \in DOMAIN new /\ rows'[j] = new[j - Len(table)]
    BY <1>10, <1>11, JoinedRows
<1>13. OldSuccess
    BY <1>10, <1>12 DEF OldSuccess
<1>14. PICK place : place = IF groups = <<>> THEN "sent" ELSE "made"
    OBVIOUS
<1>15. PICK m1 : m1 = [msgs[t] EXCEPT !.pc = place]
    OBVIOUS
<1>16. PICK m2 : m2 = [m1 EXCEPT !.todo = groups]
    OBVIOUS
<1>17. PICK m : m = [m2 EXCEPT !.value = 0]
    OBVIOUS
<1>18. m1 \in Message
    BY <1>2, <1>14, <1>15 DEF Message, MessageWith, Places
<1>19. m2 \in Message
    BY <1>16, <1>18 DEF Message, MessageWith
<1>20. m \in Message
    BY <1>17, <1>19 DEF Message, MessageWith
<1>21. /\ m.kind = "extract" /\ m.row = r /\ m.chord = msgs[t].chord /\ m.next = msgs[t].next
       /\ m.pc = place /\ m.todo = groups
    BY <1>1, <1>2, <1>15, <1>16, <1>17 DEF Message, MessageWith
<1>22. msgs' = [msgs EXCEPT ![t] = m]
    BY <1>2, <1>14, <1>15, <1>16, <1>17 DEF Made
<1>23. MovesOn(t, m, <<>>)
    BY <1>20, <1>22, NoMore
<1> QED
    BY <1>1, <1>13, <1>14, <1>20, <1>21, <1>23

\* What every step about a message of Disaster Charter leaves as it was.
LEMMA CharterTable ==
    ASSUME Typed, Charter, NEW t \in Messages, CharterStep(t)
    PROVE  /\ IsTable(rows') /\ Grows(rows, rows') /\ 0 \notin DOMAIN rows' /\ 0 \notin Rows
           /\ \A a \in Rows : a \in DOMAIN rows' /\ rows'[a].type = rows[a].type
<1>1. Proper(t)
    BY CharterStepProper
<1>2. IsTable(rows') /\ Grows(rows, rows') /\ rows \in Seq(RowRecord)
    BY <1>1 DEF Proper, TableGoesOn, Typed, IsTable
<1>3. rows' \in Seq(RowRecord)
    BY <1>2 DEF IsTable
<1> QED
    BY <1>2, <1>3 DEF Grows, Rows

LEMMA ActivationHolds ==
    ASSUME Typed, Charter, ChordsHold, NEW t \in Messages, HandleActivation(t)
    PROVE  ChordsHold'
<1>1. PICK r : r = msgs[t].row
    OBVIOUS
<1>2. /\ Received(t) /\ msgs[t] \in Message /\ msgs[t].kind = "extract" /\ r \in Rows /\ r \in Nat
      /\ rows \in Seq(RowRecord) /\ Len(rows) \in Nat
    BY <1>1, Delivery DEF HandleActivation, Handles, Rows
<1>3. PICK row, specs :
        /\ row \in RowRecord
        /\ NewRows(specs) \in Seq(RowRecord) /\ Len(NewRows(specs)) = Len(specs)
        /\ DOMAIN NewRows(specs) = DOMAIN specs
        /\ Made(t, row, NewRows(specs), <<NewGroup(Len(specs)), <<Transform(r)>>>>, 0)
    BY <1>1, ActivationMade
<1>4. PICK g : g = NewGroup(Len(specs))
    OBVIOUS
<1>5. Len(specs) \in Nat
    BY <1>3
<1>6. g \in Seq(Plain) /\ Starters(g)
    <2>1. g \in Seq(Plain)
        BY <1>2, <1>4, <1>5, GroupOfNew
    <2>2. Starters(g)
        BY <1>4 DEF Starters, NewGroup, Extract
    <2> QED
        BY <2>1, <2>2
<1>7. PICK h : h = <<Transform(r)>>
    OBVIOUS
<1>8. h \in Seq(Plain)
    BY <1>2, <1>7, TransformIs
<1>9. PICK groups : groups = <<g, h>>
    OBVIOUS
<1>10. groups \in Groups /\ groups # <<>> /\ Made(t, row, NewRows(specs), groups, 0)
    BY <1>3, <1>4, <1>6, <1>7, <1>8, <1>9, TwoGroups
<1>11. \A i \in DOMAIN NewRows(specs) : NewRows(specs)[i].status = "PENDING"
    BY DEF NewRows, Row
<1>12. PICK new \in Seq(RowRecord) : new = NewRows(specs)
    BY <1>3
<1>13. (\A i \in DOMAIN new : new[i].status = "PENDING") /\ Made(t, row, new, groups, 0)
    BY <1>10, <1>11, <1>12
<1>14. /\ OldSuccess
       /\ \E m \in Message :
            /\ MovesOn(t, m, <<>>) /\ m.kind = "extract" /\ m.row = msgs[t].row /\ m.chord = msgs[t].chord
            /\ m.next = msgs[t].next /\ m.todo = groups
            /\ m.pc = IF groups = <<>> THEN "sent" ELSE "made"
    BY <1>2, <1>3, <1>10, <1>13, MadeMoves
<1>15. PICK m \in Message :
            /\ MovesOn(t, m, <<>>) /\ m.kind = "extract" /\ m.row = msgs[t].row /\ m.chord = msgs[t].chord
            /\ m.next = msgs[t].next /\ m.todo = groups /\ m.pc = "made"
    BY <1>10, <1>14
<1>16. Fine(m)
    <2>1. ~m.next
        BY <1>15 DEF ChordsHold, Fine
    <2>2. m.todo = <<g, <<Transform(m.row)>>>>
        BY <1>1, <1>7, <1>9, <1>15
    <2> QED
        BY <1>6, <2>1, <2>2 DEF Fine
<1>17. /\ 0 \notin DOMAIN rows' /\ \A a \in Rows : a \in DOMAIN rows' /\ rows'[a].type = rows[a].type
    BY CharterTable DEF CharterStep
<1>18. <<>> \in Seq(Message) /\ DOMAIN <<>> = {}
    BY MessageTypes
<1>19. UNCHANGED <<chords, ended>>
    BY <1>13 DEF Made
<1> QED
    BY <1>2, <1>14, <1>15, <1>16, <1>17, <1>18, <1>19, MovedHolds

LEMMA ChildHolds ==
    ASSUME Typed, Charter, ChordsHold, NEW t \in Messages, HandleChild(t)
    PROVE  ChordsHold'
<1>1. PICK h \in Tags(t) : spent' = h[2] /\ Made(t, Fetched(t, h[1]), <<>>, <<>>, 0)
    BY DEF HandleChild
<1>2. Received(t) /\ msgs[t].row \in Rows /\ msgs[t].kind = "extract" /\ UNCHANGED <<world, chords, ended>>
        /\ rows[msgs[t].row].type \in ChildTypes
    BY <1>1, Delivery DEF HandleChild, Made, RowOf
<1>3. PICK tag : tag = h[1]
    OBVIOUS
<1>4. tag \in Content
    BY <1>1, <1>2, <1>3, TagsGoOn
<1>5. PICK row : row = Fetched(t, tag)
    OBVIOUS
<1>6. row \in RowRecord
    BY <1>2, <1>4, <1>5, FetchedRow
<1>7. Made(t, row, <<>>, <<>>, 0)
    BY <1>1, <1>3, <1>5
<1>8. <<>> \in Seq(RowRecord) /\ <<>> \in Groups /\ <<>> \in Seq(Message) /\ DOMAIN <<>> = {}
    BY MessageTypes
<1>9. /\ OldSuccess
      /\ \E m \in Message :
            /\ MovesOn(t, m, <<>>) /\ m.kind = "extract" /\ m.row = msgs[t].row /\ m.chord = msgs[t].chord
            /\ m.next = msgs[t].next /\ m.todo = <<>>
            /\ m.pc = IF <<>> = <<>> THEN "sent" ELSE "made"
    BY <1>2, <1>6, <1>7, <1>8, MadeMoves
<1>10. PICK m \in Message :
            /\ MovesOn(t, m, <<>>) /\ m.kind = "extract" /\ m.row = msgs[t].row /\ m.chord = msgs[t].chord
            /\ m.next = msgs[t].next /\ m.pc = "sent"
    BY <1>9
<1>11. Fine(m)
    BY <1>10 DEF ChordsHold, Fine
<1>12. /\ 0 \notin DOMAIN rows' /\ \A a \in Rows : a \in DOMAIN rows' /\ rows'[a].type = rows[a].type
    BY CharterTable DEF CharterStep
<1>13. rows[m.row].type # "ACTIVATION"
    BY <1>2, <1>10 DEF ChildTypes
<1> QED
    BY <1>2, <1>8, <1>9, <1>10, <1>11, <1>12, <1>13, MovedHolds

LEMMA CatalogHolds ==
    ASSUME Typed, Charter, ChordsHold, NEW t \in Messages, HandleCatalog(t)
    PROVE  ChordsHold'
<1>1. /\ Received(t) /\ msgs[t] \in Message /\ msgs[t].kind = "extract" /\ msgs[t].row \in Rows
      /\ rows \in Seq(RowRecord) /\ rows[msgs[t].row].type = "CATALOG"
    BY Delivery DEF HandleCatalog, Handles, RowOf
<1>2. PICK n \in 0..Len(Wanted) :
        /\ rows' = Started(t) \o [i \in 1..n |-> Row("ACTIVATION", Wanted[i], 0)]
        /\ msgs' = Move(t, "sent") \o NewGroup(n)
    BY DEF HandleCatalog
<1>3. n \in Nat /\ \A i \in 1..n : Wanted[i] \in Items
    BY WantedActivations
<1>4. PICK new : new = [i \in 1..n |-> Row("ACTIVATION", Wanted[i], 0)]
    OBVIOUS
<1>5. new \in Seq(RowRecord) /\ \A i \in DOMAIN new : new[i].status = "PENDING"
    <2>1. \A i \in 1..n : Row("ACTIVATION", Wanted[i], 0) \in RowRecord
        <3>1. "ACTIVATION" \in RowTypes /\ 0 \in Nat
            BY DEF RowTypes
        <3> QED
            BY <1>3, <3>1, RowNew
    <2>2. new \in [1..n -> RowRecord]
        BY <1>4, <2>1
    <2>3. \A i \in DOMAIN new : new[i].status = "PENDING"
        BY <1>4 DEF Row
    <2> QED
        BY <1>3, <2>2, <2>3
<1>6. PICK table : table = Started(t)
    OBVIOUS
<1>7. /\ table \in Seq(RowRecord) /\ DOMAIN table = Rows /\ table[msgs[t].row].status = "IN_PROGRESS"
      /\ \A o \in Rows \ {msgs[t].row} : table[o] = rows[o]
    <2>1. "IN_PROGRESS" \in Status /\ IsTable(rows) /\ msgs[t].row \in DOMAIN rows
        BY <1>1 DEF Status, Typed, Rows
    <2> QED
        BY <1>6, <2>1, MarkedRow DEF Started, SetStatus, IsTable, Rows
<1>8. OldSuccess
    <2>1. \A j \in DOMAIN rows' :
                \/ j \in DOMAIN table /\ rows'[j] = table[j]
                \/ j - Len(table) \in DOMAIN new /\ rows'[j] = new[j - Len(table)]
        BY <1>2, <1>4, <1>5, <1>6, <1>7, JoinedRows
    <2> QED
        BY <1>5, <1>7, <2>1 DEF OldSuccess
<1>9. PICK m : m = SentOf(t)
    OBVIOUS
<1>10. m \in Message /\ Move(t, "sent") = [msgs EXCEPT ![t] = m]
    BY <1>1, <1>9, PlacedMessage DEF SentOf, Places
<1>11. m.kind = "extract" /\ m.row = msgs[t].row /\ m.chord = msgs[t].chord /\ m.next = msgs[t].next /\ m.pc = "sent"
    BY <1>1, <1>9, SentOfIs
<1>12. PICK more : more = NewGroup(n)
    OBVIOUS
<1>13. more \in Seq(Message) /\ \A i \in DOMAIN more : more[i].chord = 0 /\ ~more[i].next /\ more[i].pc = "queued"
    <2>1. more \in Seq(Message)
        BY <1>1, <1>3, <1>12, GroupOfNew, MessageTypes
    <2> QED
        BY <1>12, <2>1 DEF NewGroup, Extract
<1>14. MovesOn(t, m, more)
    BY <1>2, <1>10, <1>12 DEF MovesOn
<1>15. Fine(m)
    BY <1>11 DEF ChordsHold, Fine
<1>16. /\ 0 \notin DOMAIN rows' /\ \A a \in Rows : a \in DOMAIN rows' /\ rows'[a].type = rows[a].type
    BY CharterTable DEF CharterStep
<1>17. UNCHANGED <<chords, ended>>
    BY DEF HandleCatalog
<1> QED
    BY <1>1, <1>8, <1>10, <1>11, <1>13, <1>14, <1>15, <1>16, <1>17, MovedHolds

LEMMA FinishHolds ==
    ASSUME Typed, ChordsHold, NEW t \in Messages, Finish(t)
    PROVE  ChordsHold'
<1>1. /\ msgs[t].kind = "extract" /\ msgs[t].pc = "sent" /\ msgs[t].row \in Rows /\ MessageFits(msgs[t], rows)
    BY Delivery DEF Finish, At
<1>2. /\ IsTable(rows') /\ Grows(rows, rows') /\ DOMAIN rows' = Rows
      /\ \A o \in Rows \ {msgs[t].row} : rows'[o] = rows[o]
    BY <1>1, MarkStep DEF Finish, Status
<1>3. msgs[t].value \in 0..Len(rows)
    BY <1>1 DEF MessageFits, Refers
<1> QED
    BY <1>1, <1>2, <1>3, ReturnedHolds DEF Finish

LEMMA FailedHolds ==
    ASSUME Typed, ChordsHold, NEW t \in Messages, Received(t), rows' = SetStatus(t, "FAILED"), Return(t, 0),
           UNCHANGED ended
    PROVE  ChordsHold'
<1>1. /\ msgs[t].kind = "extract" /\ msgs[t].row \in Rows /\ rows \in Seq(RowRecord)
    BY Delivery
<1>2. /\ IsTable(rows') /\ Grows(rows, rows') /\ DOMAIN rows' = Rows
      /\ rows'[msgs[t].row].status = "FAILED"
      /\ \A o \in Rows \ {msgs[t].row} : rows'[o] = rows[o]
    BY <1>1, MarkStep DEF Status
<1>3. 0 \in 0..Len(rows)
    BY <1>1
<1>4. \A a \in Rows : rows'[a].status = "SUCCESS" => rows[a].status = "SUCCESS"
    BY <1>2
<1> QED
    BY <1>1, <1>2, <1>3, <1>4, ReturnedHolds

\* A retry: Celery's own limit is never met.
LEMMA RetriedHolds ==
    ASSUME Typed, Charter, ChordsHold, NEW t \in Messages, CharterStep(t), RequestError(t), RetryLimit <= CeleryRetries
    PROVE  ChordsHold'
<1>1. /\ Received(t) /\ msgs[t] \in Message /\ msgs[t].kind = "extract" /\ msgs[t].row \in Rows
      /\ rows \in Seq(RowRecord) /\ msgs \in Seq(Message) /\ t \in DOMAIN msgs /\ UNCHANGED ended
    BY Delivery DEF RequestError, FetchFails
<1>2. CASE rows' = Mark(rows, t, "FAILED") /\ Return(t, 0)
    BY <1>1, <1>2, FailedHolds DEF SetStatus
<1>3. CASE /\ msgs[t].retries < RetryLimit
           /\ rows' = [rows EXCEPT ![msgs[t].row].status = "ON_RETRY", ![msgs[t].row].attempts = @ + 1]
           /\ \/ RetryAllowed(t) /\ msgs' = RetryMessage(t) /\ UNCHANGED chords
              \/ ~RetryAllowed(t) /\ Raise(t)
    <2>1. msgs[t].retries \in Nat
        BY <1>1 DEF Message, MessageWith
    <2>2. RetryAllowed(t)
        BY <1>3, <2>1, FanOutAssumption DEF RetryAllowed
    <2>3. PICK r : r = msgs[t].row
        OBVIOUS
    <2>4. rows[r] \in RowRecord /\ r \in DOMAIN rows
        BY <1>1, <2>3 DEF Rows
    <2>5. PICK one : one = [rows[r] EXCEPT !.status = "ON_RETRY"]
        OBVIOUS
    <2>6. one \in RowRecord /\ one.status = "ON_RETRY"
        BY <2>4, <2>5 DEF RowRecord, Status
    <2>7. PICK two : two = [one EXCEPT !.attempts = @ + 1]
        OBVIOUS
    <2>8. two.status = "ON_RETRY"
        BY <2>6, <2>7 DEF RowRecord
    <2>9. rows' = [rows EXCEPT ![r] = two]
        BY <1>3, <2>3, <2>4, <2>5, <2>7
    <2>10. OldSuccess
        BY <2>4, <2>8, <2>9 DEF OldSuccess, Rows
    <2>11. PICK m1 : m1 = [msgs[t] EXCEPT !.pc = "queued"]
        OBVIOUS
    <2>12. PICK m : m = [m1 EXCEPT !.retries = @ + 1]
        OBVIOUS
    <2>13. m1 \in Message /\ m1.retries = msgs[t].retries /\ m1.pc = "queued"
        BY <1>1, <2>11 DEF Message, MessageWith, Places
    <2>14. m \in Message
        BY <2>1, <2>12, <2>13 DEF Message, MessageWith
    <2>15. m.kind = "extract" /\ m.row = msgs[t].row /\ m.chord = msgs[t].chord /\ m.next = msgs[t].next /\ m.pc = "queued"
        BY <1>1, <2>11, <2>12 DEF Message, MessageWith
    <2>16. msgs' = [msgs EXCEPT ![t] = m]
        BY <1>1, <1>3, <2>2, <2>11, <2>12 DEF RetryMessage, Move
    <2>17. MovesOn(t, m, <<>>)
        BY <2>14, <2>16, NoMore
    <2>18. Fine(m)
        BY <2>15 DEF ChordsHold, Fine
    <2>19. <<>> \in Seq(Message) /\ DOMAIN <<>> = {}
        BY MessageTypes
    <2>20. /\ 0 \notin DOMAIN rows' /\ \A a \in Rows : a \in DOMAIN rows' /\ rows'[a].type = rows[a].type
        BY CharterTable
    <2> QED
        BY <1>1, <1>3, <2>2, <2>10, <2>14, <2>15, <2>17, <2>18, <2>19, <2>20, MovedHolds
<1> QED
    BY <1>2, <1>3 DEF RequestError, FetchFails, RetryOr

\* Exceptions that are unknown, and lost workers, are counted.
Untroubled == spent.unknown = 0 /\ spent.losses = 0

LEMMA CountsUp ==
    ASSUME IsWorld, NEW what \in Faults, Spend(what)
    PROVE  /\ spent'.unknown = 0 => spent.unknown = 0
           /\ spent'.losses = 0 => spent.losses = 0
           /\ what = "unknown" => spent'.unknown # 0
           /\ what = "losses" => spent'.losses # 0
<1>1. spent \in [Faults \cup {"retriggers", "sweeps"} -> Nat] /\ spent' = [spent EXCEPT ![what] = @ + 1]
    BY DEF IsWorld, Spend
<1>2. spent'[what] = spent[what] + 1 /\ spent[what] \in Nat /\ \A f \in Faults \cup {"retriggers", "sweeps"} :
            f # what => spent'[f] = spent[f]
    BY <1>1
<1>3. spent.unknown \in Nat /\ spent.losses \in Nat
    BY <1>1 DEF Faults
<1> QED
    BY <1>2, <1>3 DEF Faults

LEMMA CharterStepHolds ==
    ASSUME Typed, Charter, ChordsHold, NEW t \in Messages, CharterStep(t), RetryLimit <= CeleryRetries, Untroubled'
    PROVE  ChordsHold'
<1>w. IsWorld
    BY DEF Typed
<1>1. CASE Dispatch(t)
    BY <1>1, DispatchHolds
<1>2. CASE Finish(t)
    BY <1>2, FinishHolds
<1>3. CASE WorkerLost(t)
    BY <1>w, <1>3, CountsUp DEF WorkerLost, Untroubled, Faults
<1>4. CASE HandleCatalog(t)
    BY <1>4, CatalogHolds
<1>5. CASE HandleActivation(t)
    BY <1>5, ActivationHolds
<1>6. CASE HandleChild(t)
    BY <1>6, ChildHolds
<1>7. ASSUME CharterGivesUp(t) PROVE ChordsHold'
    BY <1>7, FailedHolds DEF CharterGivesUp
<1>8. CASE PermanentError(t)
    BY <1>7, <1>8 DEF PermanentError
<1>9. CASE CharterRequestError(t)
    BY <1>7, <1>9, RetriedHolds DEF CharterRequestError
<1>10. CASE OtherError(t)
    BY <1>w, <1>10, CountsUp DEF OtherError, Untroubled, Faults
<1>11. CASE CharterTransform(t)
    BY <1>11, TransformHolds DEF CharterTransform, RunTransform, At
<1> QED
    BY <1>1, <1>2, <1>3, <1>4, <1>5, <1>6, <1>8, <1>9, <1>10, <1>11 DEF CharterStep

\* The day starts again, or rows are retriggered: nothing was queued.
LEMMA QuietHolds ==
    ASSUME Typed, ChordsHold, Quiet, msgs' \in Seq(Message),
           \A i \in DOMAIN msgs' : msgs'[i].chord = 0 /\ ~msgs'[i].next /\ msgs'[i].pc = "queued",
           UNCHANGED <<chords, ended>>, OldSuccess, \A a \in Rows : rows'[a].type = rows[a].type
    PROVE  ChordsHold'
<1>1. msgs \in Seq(Message) /\ chords \in Seq(Chord) /\ Bound(msgs, chords) /\ msgs = <<>>
    BY DEF Typed, IsQueue, ChordsHold, Quiet
<1>2. Bound(msgs', chords')
    <2>1. PICK more : more = msgs'
        OBVIOUS
    <2>2. Exact(msgs \o more, chords)
        BY <1>1, <2>1, ExactMore DEF Bound
    <2>3. msgs \o more = more
        BY <1>1, <2>1
    <2>4. Exact(msgs', chords')
        BY <2>1, <2>2, <2>3
    <2> QED
        BY <1>1, <2>4 DEF Bound
<1>3. \A i \in DOMAIN msgs' : Fine(msgs'[i])
    BY QueuedFine
<1>4. ASSUME NEW a \in DOMAIN rows', Claims(a)' PROVE Awaits(a)'
    <2>1. a \in Rows /\ rows[a].status = "SUCCESS"
        BY <1>4 DEF Claims, OldSuccess, Messages
    <2>2. Awaits(a)
        BY <1>4, <2>1 DEF ChordsHold, Claims
    <2>3. ~Sent(a)
        BY <1>1 DEF Sent, Messages
    <2> QED
        BY <2>2, <2>3 DEF Awaits, Waiting
<1>5. \A c \in DOMAIN chords' : ~chords'[c].broken
    BY DEF ChordsHold
<1> QED
    BY <1>2, <1>3, <1>4, <1>5 DEF ChordsHold, Rows, Messages

LEMMA NextDayHolds ==
    ASSUME Typed, Typed', ChordsHold, NextDay
    PROVE  ChordsHold'
<1>1. rows \in Seq(RowRecord) /\ msgs' \in Seq(Message)
    BY DEF Typed, IsTable, IsQueue
<1>2. \A i \in DOMAIN msgs' : msgs'[i].chord = 0 /\ ~msgs'[i].next /\ msgs'[i].pc = "queued"
    BY DEF NextDay, NewGroup, Extract
<1>3. PICK row : row = Row("CATALOG", "catalog", 0)
    OBVIOUS
<1>4. row.status = "PENDING"
    BY <1>3 DEF Row
<1>5. rows' = Append(rows, row)
    BY <1>3 DEF NextDay
<1>6. /\ DOMAIN rows' = Rows \cup {Len(rows) + 1} /\ rows'[Len(rows) + 1] = row
      /\ \A a \in Rows : rows'[a] = rows[a]
    BY <1>1, <1>5 DEF Rows
<1>7. OldSuccess /\ \A a \in Rows : rows'[a].type = rows[a].type
    BY <1>4, <1>6 DEF OldSuccess
<1> QED
    BY <1>1, <1>2, <1>7, QuietHolds DEF NextDay

LEMMA RetriggerHolds ==
    ASSUME Typed, Typed', ChordsHold, NEW status \in {"FAILED", "PENDING"}, Retrigger(status, Itself)
    PROVE  ChordsHold'
<1>1. rows \in Seq(RowRecord) /\ msgs' \in Seq(Message) /\ Rows = 1..Len(rows) /\ Len(rows) \in Nat
    BY DEF Typed, IsTable, IsQueue, Rows
<1>2. PICK S : S = {r \in Rows : rows[r].status = status}
    OBVIOUS
<1>3. PICK chosen : chosen = InOrder(S)
    OBVIOUS
<1>4. chosen \in Seq(S)
    BY <1>1, <1>2, <1>3, InOrderLists
<1>5. msgs' = [i \in DOMAIN chosen |-> Itself[chosen[i]]]
    BY <1>2, <1>3 DEF Retrigger
<1>6. ASSUME NEW i \in DOMAIN msgs'
      PROVE  msgs'[i].chord = 0 /\ ~msgs'[i].next /\ msgs'[i].pc = "queued"
    <2>1. i \in DOMAIN chosen /\ chosen[i] \in Rows
        BY <1>2, <1>4, <1>5
    <2>2. msgs'[i] = Extract(chosen[i], 0)
        BY <1>5, <2>1 DEF Itself
    <2> QED
        BY <2>2 DEF Extract
<1>7. ASSUME NEW r \in Rows
      PROVE  /\ rows'[r].type = rows[r].type
             /\ rows'[r].status = rows[r].status \/ rows'[r].status = "PENDING"
    <2>0. rows[r] \in RowRecord
        BY <1>1 DEF Rows
    <2>1. PICK s : s = IF rows[r].status = status THEN "PENDING" ELSE rows[r].status
        OBVIOUS
    <2>2. rows'[r] = [rows[r] EXCEPT !.status = s]
        BY <2>0, <2>1 DEF RowRecord, Retrigger
    <2> QED
        BY <2>0, <2>1, <2>2 DEF RowRecord
<1>8. DOMAIN rows' = Rows
    BY DEF Retrigger
<1>9. OldSuccess
    BY <1>7, <1>8 DEF OldSuccess
<1> QED
    BY <1>1, <1>6, <1>7, <1>9, QuietHolds DEF Retrigger

LEMMA ChangeHolds ==
    ASSUME ChordsHold, NEW i, Change(i)
    PROVE  ChordsHold'
BY DEF Change, ChordsHold, Claims, Awaits, Sent, Waiting, OnRow, Rows, Messages

CharterInv == (Charter /\ Untroubled) => ChordsHold

LEMMA CharterSpends ==
    ASSUME IsWorld, NEW t \in Messages, CharterStep(t), Untroubled'
    PROVE  Untroubled
<1>1. CASE UNCHANGED spent
    BY <1>1 DEF Untroubled
<1>2. CASE \E what \in Faults : Spend(what)
    BY <1>2, CountsUp DEF Untroubled
<1>e. "errors" \in Faults /\ "losses" \in Faults /\ "unknown" \in Faults
    BY DEF Faults
<1>3. (Dispatch(t) \/ Finish(t) \/ CharterTransform(t)) => UNCHANGED spent
    BY DEF Dispatch, Finish, CharterTransform, RunTransform
<1>4. (WorkerLost(t) \/ OtherError(t) \/ PermanentError(t)) => \E what \in Faults : Spend(what)
    BY <1>e DEF WorkerLost, OtherError, PermanentError, CharterGivesUp, Error
<1>5. CharterRequestError(t) => \E what \in Faults : Spend(what)
    BY <1>e DEF CharterRequestError, CharterGivesUp, RequestError, FetchFails, Error
<1>6. HandleCatalog(t) => UNCHANGED spent \/ \E what \in Faults : Spend(what)
    BY <1>e DEF HandleCatalog, Error
<1>7. ASSUME NEW h \in Tags(t), spent' = h[2]
      PROVE  UNCHANGED spent \/ \E what \in Faults : Spend(what)
    <2>1. CASE h = <<world[RowOf(t).item].tag, spent>>
        BY <1>7, <2>1
    <2>2. CASE Left /\ h = <<0, [spent EXCEPT !.errors = @ + 1]>>
        <3>1. Spend("errors")
            BY <1>7, <2>2 DEF Spend
        <3> QED
            BY <1>e, <3>1
    <2> QED
        BY <2>1, <2>2 DEF Tags
<1>8. HandleChild(t) => UNCHANGED spent \/ \E what \in Faults : Spend(what)
    BY <1>7 DEF HandleChild
<1>9. HandleActivation(t) => UNCHANGED spent \/ \E what \in Faults : Spend(what)
    BY <1>e, <1>7 DEF HandleActivation, Error
<1> QED
    BY <1>1, <1>2, <1>3, <1>4, <1>5, <1>6, <1>8, <1>9 DEF CharterStep

LEMMA CharterInvInit == Init => CharterInv
<1> SUFFICES ASSUME Init, Charter PROVE ChordsHold
    BY DEF CharterInv
<1>1. /\ rows = <<Row("CATALOG", "catalog", 0)>> /\ msgs = [i \in DOMAIN rows |-> Extract(i, 0)] /\ chords = <<>>
    BY DEF Init, Charter, CharterInit, InitRows, GdacsInit, PagedTypes, Singles
<1>2. DOMAIN rows = {1} /\ rows[1].type = "CATALOG"
    BY <1>1 DEF Row
<1>3. \A i \in DOMAIN msgs : msgs[i].chord = 0 /\ ~msgs[i].next /\ msgs[i].pc = "queued"
    BY <1>1 DEF Extract
<1>4. DOMAIN chords = {}
    BY <1>1
<1> QED
    BY <1>2, <1>3, <1>4, QueuedFine DEF ChordsHold, Bound, Exact, Claims, Rows, Messages

LEMMA CharterInvNext ==
    ASSUME RetryLimit <= CeleryRetries
    PROVE  Typed /\ AllAttended /\ CharterInv /\ [Next]_<<source, vars>> => CharterInv'
<1> SUFFICES ASSUME Typed, AllAttended, CharterInv, [Next]_<<source, vars>>, Charter', Untroubled'
             PROVE  ChordsHold'
    BY DEF CharterInv
<1>1. UNCHANGED source /\ Charter
    BY DEF Next, Charter, vars
<1>2. Typed'
    BY NextKeeps
<1>w. IsWorld
    BY DEF Typed
<1>3. CASE UNCHANGED <<source, vars>>
    <2>1. UNCHANGED <<rows, msgs, chords, ended, spent>>
        BY <1>3 DEF vars
    <2>2. ChordsHold
        BY <1>1, <2>1 DEF CharterInv, Untroubled
    <2> QED
        BY <2>1, <2>2 DEF ChordsHold, Claims, Awaits, Sent, Waiting, OnRow, Rows, Messages
<1>4. CASE NextDay
    <2>1. ChordsHold
        BY <1>1, <1>4 DEF CharterInv, Untroubled, NextDay
    <2> QED
        BY <1>2, <1>4, <2>1, NextDayHolds
<1>5. CASE \E t \in Messages : CharterStep(t)
    <2>1. PICK t \in Messages : CharterStep(t)
        BY <1>5
    <2>2. Untroubled
        BY <1>1, <1>w, <2>1, CharterSpends
    <2>3. ChordsHold
        BY <1>1, <2>2 DEF CharterInv
    <2> QED
        BY <1>1, <2>1, <2>3, CharterStepHolds
<1>6. CASE \E status \in {"FAILED", "PENDING"} : Retrigger(status, Itself)
    <2>1. PICK status \in {"FAILED", "PENDING"} : Retrigger(status, Itself)
        BY <1>6
    <2>2. Untroubled
        <3>1. spent \in [Faults \cup {"retriggers", "sweeps"} -> Nat]
            BY <1>w DEF IsWorld
        <3>2. spent'.unknown = spent.unknown /\ spent'.losses = spent.losses
            BY <2>1, <3>1 DEF Retrigger, Retriggered, Faults
        <3> QED
            BY <3>2 DEF Untroubled
    <2>3. ChordsHold
        BY <1>1, <2>2 DEF CharterInv
    <2> QED
        BY <1>2, <2>1, <2>3, RetriggerHolds
<1>7. CASE \E i \in Items \ {"catalog"} : Change(i)
    <2>1. PICK i \in Items \ {"catalog"} : Change(i)
        BY <1>7
    <2>2. Untroubled
        BY <1>w, <2>1, CountsUp DEF Change, Untroubled, Faults
    <2>3. ChordsHold
        BY <1>1, <2>2 DEF CharterInv
    <2> QED
        BY <2>1, <2>3, ChangeHolds
<1> QED
    BY <1>1, <1>3, <1>4, <1>5, <1>6, <1>7 DEF Next, Charter, CharterNext, PagedTypes, Singles

\* All parts of a chord that nothing breaks end, so its body is published.
LEMMA QuietFires == Typed /\ CharterInv => CharterTransformFires
<1> SUFFICES ASSUME Typed, CharterInv, Quiet, Untroubled,
                    NEW a \in Rows, rows[a].type = "ACTIVATION", rows[a].status = "SUCCESS"
             PROVE  a \in ended
    BY DEF CharterTransformFires, Untroubled
<1>1. Charter
    <2>1. "ACTIVATION" \in TypesOf(source)
        BY DEF Typed
    <2>2. CASE source \in {"GDACS", "USGS", "PDC", "CEMS"}
        BY <2>1, <2>2 DEF TypesOf, PdcChildTypes
    <2>3. CASE source \notin {"DISASTERCHARTER", "GDACS", "USGS", "PDC", "CEMS"}
        <3>1. source = "ACTIVATION"
            BY <2>1, <2>3 DEF TypesOf
        <3>2. source \in SourceNames
            BY SourcesAssumption DEF Typed
        <3> QED
            BY <3>1, <3>2 DEF SourceNames, PagedTypes, Singles
    <2> QED
        BY <2>2, <2>3 DEF Charter
<1>2. ChordsHold
    BY <1>1 DEF CharterInv
<1>3. Awaits(a)
    BY <1>2 DEF ChordsHold, Claims
<1>4. ~Sent(a)
    BY DEF Sent, Quiet, Messages
<1>5. ~Waiting(a)
    <2>1. SUFFICES ASSUME NEW c \in DOMAIN chords, chords[c].body = After(a), ~chords[c].broken PROVE FALSE
        BY DEF Waiting
    <2>2. PartsOf(msgs, c) = {}
        BY DEF PartsOf, Quiet
    <2>3. chords[c].left = 0
        BY <1>2, <2>1, <2>2, FS_EmptySet DEF ChordsHold, Bound, Exact
    <2>4. EndsWell(chords[c])
        BY <1>2 DEF ChordsHold, Bound
    <2> QED
        BY <2>1, <2>3, <2>4, AfterNotNone DEF EndsWell
<1> QED
    BY <1>3, <1>4, <1>5 DEF Awaits

(* Request errors, which are retried, and permanent errors of S3 keep no       *)
(* transform of a Disaster Charter activation from running: as Celery's own     *)
(* limit of retries is not below MAX_RETRY_LIMIT (both are 3), retry() never     *)
(* raises what breaks a chord; each chord counts exactly the parts that are      *)
(* still queued, and publishes its body with the last.                           *)
THEOREM CharterTransformsRun ==
    ASSUME RetryLimit <= CeleryRetries
    PROVE  SourcesSpec => []CharterTransformFires
<1>1. Init => Typed /\ AllAttended /\ CharterInv
    BY InitEstablishes, CharterInvInit
<1>2. Typed /\ AllAttended /\ CharterInv /\ [Next]_<<source, vars>> => (Typed /\ AllAttended /\ CharterInv)'
    BY NextKeeps, CharterInvNext
<1>3. Typed /\ AllAttended /\ CharterInv => CharterTransformFires
    BY QuietFires
<1> QED
    BY <1>1, <1>2, <1>3, PTL DEF SourcesSpec
================================================================================
