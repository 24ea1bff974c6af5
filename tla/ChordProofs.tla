------------------------------ MODULE ChordProofs ------------------------------
(***************************************************************************)
(* Proofs about the sources whose rows wait for each other in chords, for any *)
(* number of pages, hazards, files, limits and bounds: that PDC makes no row  *)
(* twice and its lists wait for their polygons, and that the earthquakes of   *)
(* USGS have their transforms.  What chords count is in ContentProofs.        *)
(***************************************************************************)
EXTENDS ContentProofs

-----------------------------------------------------------------------------
(* What publishing groups comes to: the first group that is not empty is       *)
(* sent, alone or as the header of a chord that the groups after it wait for.  *)

Alike(more, g) ==
    /\ DOMAIN more = DOMAIN g
    /\ \A j \in DOMAIN g : /\ more[j].kind = g[j].kind /\ more[j].row = g[j].row
                           /\ more[j].next = g[j].next /\ more[j].pc = g[j].pc

Opened(queue, known, groups, later, others) ==
    \E more \in Seq(Message), first \in Nat, body \in Groups :
        /\ later = queue \o more
        /\ \A i \in DOMAIN groups : i < first => groups[i] = <<>>
        /\ \/ more = <<>> /\ others = known
           \/ first \in DOMAIN groups /\ Alike(more, groups[first])
        /\ \A b \in DOMAIN body : \E p \in DOMAIN groups \ {first} : body[b] = groups[p]
        /\ \/ others = known
           \/ /\ others = Append(known, [left |-> Len(more), broken |-> FALSE, body |-> body])
              /\ \A j \in DOMAIN more : more[j].chord = Len(known) + 1

\* The first place of a set comes first, and no other place is it.
LEMMA InOrderFirst ==
    ASSUME NEW n \in Nat, NEW S, S \subseteq 1..n, Cardinality(S) # 0
    PROVE  InOrder(S)[1] \in S /\ \A y \in S : InOrder(S)[1] <= y
<1>1. /\ IsFiniteSet(S) /\ Cardinality(S) \in 0..n
      /\ \A i \in 1..Cardinality(S) : \E x \in S : Rank(S, x, i - 1)
    BY EveryRankIsTaken
<1>2. 1 \in 1..Cardinality(S)
    BY <1>1
<1>3. PICK x : x = InOrder(S)[1]
    OBVIOUS
<1>4. x = CHOOSE y \in S : Rank(S, y, 0)
    BY <1>2, <1>3 DEF InOrder, Rank
<1>5. \E y \in S : Rank(S, y, 0)
    BY <1>1, <1>2
<1>6. x \in S /\ Rank(S, x, 0)
    BY <1>4, <1>5
<1>7. {y \in S : y < x} = {}
    <2>1. PICK U : U = {y \in S : y < x}
        OBVIOUS
    <2>2. U \in SUBSET S
        BY <2>1
    <2>3. IsFiniteSet(U)
        BY <1>1, <2>2, FS_Subset
    <2>4. Cardinality(U) = 0
        BY <1>6, <2>1 DEF Rank
    <2> QED
        BY <2>1, <2>3, <2>4, FS_EmptySet
<1>8. \A y \in S : y \in Nat
    OBVIOUS
<1> QED
    BY <1>3, <1>6, <1>7, <1>8

LEMMA KeptFirst ==
    ASSUME NEW groups \in Groups, Len(Kept(groups)) # 0
    PROVE  \E first \in DOMAIN groups :
               /\ Kept(groups)[1] = groups[first]
               /\ \A i \in DOMAIN groups : i < first => groups[i] = <<>>
               /\ \A b \in DOMAIN Tail(Kept(groups)) :
                        \E p \in DOMAIN groups \ {first} : Tail(Kept(groups))[b] = groups[p]
<1>1. PICK places : places = Filled(groups)
    OBVIOUS
<1>2. PICK n : n = Len(groups)
    OBVIOUS
<1>3. n \in Nat /\ DOMAIN groups = 1..n /\ places \subseteq 1..n /\ places \subseteq DOMAIN groups
    BY <1>1, <1>2 DEF Groups, Filled
<1>4. PICK kept : kept = Kept(groups)
    OBVIOUS
<1>5. PICK order : order = InOrder(places)
    OBVIOUS
<1>6. PICK c : c = Cardinality(places)
    OBVIOUS
<1>7. kept = [i \in 1..c |-> groups[order[i]]]
    BY <1>1, <1>4, <1>5, <1>6 DEF Kept, Only
<1>8. kept \in Seq(Seq(Plain)) /\ Len(kept) = c /\ c \in Nat
    <2>1. groups \in Seq(Seq(Plain)) /\ Kept(groups) = Only(groups, places)
        BY <1>1 DEF Kept, Groups
    <2> QED
        BY <1>3, <1>4, <1>6, <2>1, OnlyLists
<1>9. c # 0
    BY <1>4, <1>8
<1>10. /\ \A i \in 1..c : order[i] \in places
       /\ order[1] \in places /\ \A y \in places : order[1] <= y
    <2>1. order \in Seq(places) /\ DOMAIN order = 1..c
        BY <1>3, <1>5, <1>6, InOrderLists
    <2>2. \A i \in 1..c : order[i] \in places
        BY <1>8, <2>1
    <2>3. order[1] \in places /\ \A y \in places : order[1] <= y
        BY <1>3, <1>5, <1>6, <1>9, InOrderFirst
    <2> QED
        BY <2>2, <2>3
<1>11. \A i \in 1..c : i # 1 => order[i] # order[1]
    <2>1. 1 \in 1..c
        BY <1>8, <1>9
    <2> QED
        BY <1>3, <1>5, <1>6, <2>1, InOrderOnce
<1>12. PICK first : first = order[1]
    OBVIOUS
<1>13. first \in DOMAIN groups /\ kept[1] = groups[first]
    <2>1. 1 \in 1..c
        BY <1>8, <1>9
    <2>2. kept[1] = groups[order[1]]
        BY <1>7, <2>1
    <2> QED
        BY <1>3, <1>10, <1>12, <2>2
<1>14. \A i \in DOMAIN groups : i < first => groups[i] = <<>>
    <2>1. \A i \in places : i \in Nat /\ first \in Nat /\ first <= i
        <3>1. \A i \in places : i \in Nat
            BY <1>3
        <3> QED
            BY <1>10, <1>12, <3>1
    <2>2. \A i \in DOMAIN groups : i < first => i \notin places
        BY <2>1
    <2> QED
        BY <1>1, <2>2 DEF Filled
<1>15. ASSUME NEW b \in DOMAIN Tail(kept)
       PROVE  \E p \in DOMAIN groups \ {first} : Tail(kept)[b] = groups[p]
    <2>1. b + 1 \in 1..c /\ b + 1 # 1 /\ Tail(kept)[b] = kept[b + 1]
        BY <1>8, <1>9
    <2>2. order[b + 1] \in DOMAIN groups /\ order[b + 1] # first
        BY <1>3, <1>10, <1>11, <1>12, <2>1
    <2> QED
        BY <1>7, <2>1, <2>2
<1> QED
    BY <1>4, <1>13, <1>14, <1>15

LEMMA PublishOpens ==
    ASSUME NEW queue \in Seq(Message), NEW known \in Seq(Chord), NEW groups \in Groups,
           NEW later, NEW others,
           later = Published(queue, known, groups).msgs, others = Published(queue, known, groups).chords
    PROVE  Opened(queue, known, groups, later, others)
<1>1. PICK kept : kept = Kept(groups)
    OBVIOUS
<1>2. PICK P : P = Published(queue, known, groups)
    OBVIOUS
<1>3. later = P.msgs /\ others = P.chords
    BY <1>2
<1>4. kept \in Groups /\ Len(kept) \in Nat
    <2>1. groups \in Seq(Seq(Plain)) /\ Filled(groups) \subseteq DOMAIN groups
        BY DEF Groups, Filled
    <2>2. kept \in Seq(Seq(Plain))
        BY <1>1, <2>1, OnlyLists DEF Kept
    <2> QED
        BY <2>2 DEF Groups
<1>5. CASE Len(kept) = 0
    <2>1. later = queue /\ others = known
        BY <1>1, <1>2, <1>3, <1>5, PublishedKept
    <2>2. queue \o <<>> = queue /\ <<>> \in Seq(Message) /\ <<>> \in Groups /\ DOMAIN <<>> = {} /\ 0 \in Nat
        BY MessageTypes
    <2>3. \A i \in DOMAIN groups : ~(i < 0)
        BY DEF Groups
    <2> QED
        BY <2>1, <2>2, <2>3 DEF Opened
<1>6. CASE Len(kept) # 0
    <2>1. PICK first \in DOMAIN groups :
               /\ kept[1] = groups[first]
               /\ \A i \in DOMAIN groups : i < first => groups[i] = <<>>
               /\ \A b \in DOMAIN Tail(kept) : \E p \in DOMAIN groups \ {first} : Tail(kept)[b] = groups[p]
        BY <1>1, <1>6, KeptFirst
    <2>2. first \in Nat /\ groups[first] \in Seq(Plain)
        BY DEF Groups
    <2>3. Tail(kept) \in Groups
        BY <1>4, <1>6 DEF Groups
    <2>4. PICK g : g = groups[first]
        OBVIOUS
    <2>5. g \in Seq(Plain) /\ g \in Seq(Message)
        BY <2>2, <2>4, MessageTypes
    <2>6. CASE Len(kept) = 1
        <3>1. later = queue \o g /\ others = known
            BY <1>1, <1>2, <1>3, <1>6, <2>1, <2>4, <2>6, PublishedKept
        <3>2. Alike(g, groups[first])
            BY <2>4 DEF Alike
        <3>3. <<>> \in Groups /\ DOMAIN <<>> = {}
            BY MessageTypes
        <3> QED
            BY <2>1, <2>2, <2>5, <3>1, <3>2, <3>3 DEF Opened
    <2>7. CASE Len(kept) # 1
        <3>1. PICK more : more = Header(g, Len(known) + 1)
            OBVIOUS
        <3>2. /\ later = queue \o more
              /\ others = Append(known, [left |-> Len(g), broken |-> FALSE, body |-> Tail(kept)])
            BY <1>1, <1>2, <1>3, <1>6, <2>1, <2>4, <2>7, <3>1, PublishedKept
        <3>3. /\ more \in Seq(Message) /\ Len(more) = Len(g) /\ DOMAIN more = DOMAIN g
              /\ \A j \in DOMAIN g :
                    /\ more[j].chord = Len(known) + 1 /\ more[j].kind = g[j].kind /\ more[j].row = g[j].row
                    /\ more[j].next = g[j].next /\ more[j].pc = g[j].pc
            <4>1. Len(known) + 1 \in Nat
                OBVIOUS
            <4> QED
                BY <2>5, <3>1, <4>1, HeaderIs
        <3>4. Alike(more, groups[first])
            BY <2>4, <3>3 DEF Alike
        <3>5. \A j \in DOMAIN more : more[j].chord = Len(known) + 1
            BY <3>3
        <3> QED
            BY <2>1, <2>2, <2>3, <3>2, <3>3, <3>4, <3>5 DEF Opened
    <2> QED
        BY <2>6, <2>7
<1> QED
    BY <1>5, <1>6

-----------------------------------------------------------------------------
(* Where the messages of a step come from: from[i] is the message before that   *)
(* message i is, or 0 if it is new.                                            *)

Same(m, n) == m.kind = n.kind /\ m.row = n.row /\ m.chord = n.chord /\ m.next = n.next

Carries(t, from) ==
    /\ from \in [DOMAIN msgs' -> 0..Len(msgs)]
    /\ \A i, j \in DOMAIN msgs' : (from[i] = from[j] /\ from[i] # 0) => i = j
    /\ \A o \in Messages \ {t} : \E i \in DOMAIN msgs' : from[i] = o
    /\ \A i \in DOMAIN msgs' :
        /\ from[i] \notin {0, t} => msgs'[i] = msgs[from[i]]
        /\ from[i] = t => Same(msgs'[i], msgs[t])

\* The message is acknowledged.
Gone(from, t) == \A i \in DOMAIN msgs' : from[i] # t

\* The new messages are those of a list, after k others.
News(from, more, k) ==
    /\ \A i \in DOMAIN msgs' : from[i] = 0 => i - k \in DOMAIN more /\ msgs'[i] = more[i - k]
    /\ \A j \in DOMAIN more : /\ k + j \in DOMAIN msgs' /\ from[k + j] = 0 /\ msgs'[k + j] = more[j]

LEMMA AckedCarries ==
    ASSUME msgs \in Seq(Message), NEW t \in Messages, NEW more \in Seq(Message), msgs' = Acked(t) \o more
    PROVE  \E from : \E k \in Nat : Carries(t, from) /\ Gone(from, t) /\ News(from, more, k)
<1>1. Len(msgs) \in Nat /\ Messages = 1..Len(msgs) /\ t \in 1..Len(msgs)
    BY DEF Messages
<1>2. PICK n : n = Len(msgs) - 1
    OBVIOUS
<1>3. n \in Nat /\ Len(msgs) = n + 1
    BY <1>1, <1>2
<1>4. /\ Acked(t) \in Seq(Message) /\ Len(Acked(t)) = n
      /\ \A i \in 1..n : Acked(t)[i] = msgs[IF i < t THEN i ELSE i + 1]
    BY <1>2, AckedMessages DEF Acked
<1>5. PICK left : left = Acked(t)
    OBVIOUS
<1>6. /\ DOMAIN msgs' = 1..(n + Len(more)) /\ Len(more) \in Nat /\ DOMAIN more = 1..Len(more)
      /\ \A i \in 1..n : msgs'[i] = msgs[IF i < t THEN i ELSE i + 1]
      /\ \A i \in (n + 1)..(n + Len(more)) : msgs'[i] = more[i - n]
    <2>1. left \in Seq(Message) /\ Len(left) = n /\ \A i \in 1..n : left[i] = msgs[IF i < t THEN i ELSE i + 1]
        BY <1>4, <1>5
    <2>2. PICK all : all = left \o more
        OBVIOUS
    <2>3. /\ DOMAIN all = 1..(Len(left) + Len(more)) /\ Len(more) \in Nat /\ DOMAIN more = 1..Len(more)
          /\ \A i \in 1..Len(left) : all[i] = left[i]
          /\ \A i \in (Len(left) + 1)..(Len(left) + Len(more)) : all[i] = more[i - Len(left)]
        <3>1. left \in Seq(Message) /\ more \in Seq(Message)
            BY <2>1
        <3>2. /\ DOMAIN all = 1..(Len(left) + Len(more)) /\ Len(more) \in Nat /\ DOMAIN more = 1..Len(more)
              /\ \A i \in 1..Len(left) : all[i] = left[i]
            BY ONLY <2>2, <3>1, Joined
        <3>3. \A i \in (Len(left) + 1)..(Len(left) + Len(more)) : all[i] = more[i - Len(left)]
            BY ONLY <2>2, <3>1, Joined
        <3> QED
            BY ONLY <3>2, <3>3
    <2>4. msgs' = all
        BY <1>5, <2>2
    <2> QED
        BY ONLY <2>1, <2>3, <2>4
<1>7. PICK from : from = [i \in DOMAIN msgs' |-> IF i <= n THEN (IF i < t THEN i ELSE i + 1) ELSE 0]
    OBVIOUS
<1>8. \A i \in DOMAIN msgs' : from[i] = IF i <= n THEN (IF i < t THEN i ELSE i + 1) ELSE 0
    BY <1>7
<1>9. \A i \in DOMAIN msgs' : i \in Nat /\ i >= 1
    BY <1>6
<1>10. \A i \in DOMAIN msgs' : from[i] \in 0..Len(msgs) /\ from[i] # t
    BY <1>1, <1>3, <1>8, <1>9
<1>11. from \in [DOMAIN msgs' -> 0..Len(msgs)]
    BY <1>7, <1>10
<1>12. \A i, j \in DOMAIN msgs' : (from[i] = from[j] /\ from[i] # 0) => i = j
    BY <1>1, <1>3, <1>8, <1>9
<1>13. ASSUME NEW o \in Messages \ {t} PROVE \E i \in DOMAIN msgs' : from[i] = o
    <2>1. CASE o < t
        <3>1. o \in DOMAIN msgs' /\ o <= n
            BY <1>1, <1>3, <1>6, <2>1
        <3> QED
            BY <1>8, <2>1, <3>1
    <2>2. CASE ~(o < t)
        <3>1. o - 1 \in DOMAIN msgs' /\ o - 1 <= n /\ ~(o - 1 < t) /\ (o - 1) + 1 = o
            BY <1>1, <1>3, <1>6, <2>2
        <3> QED
            BY <1>8, <3>1
    <2> QED
        BY <2>1, <2>2
<1>14. ASSUME NEW i \in DOMAIN msgs', from[i] # 0 PROVE msgs'[i] = msgs[from[i]]
    <2>1. i \in 1..n
        BY <1>3, <1>8, <1>9, <1>14
    <2>2. from[i] = IF i < t THEN i ELSE i + 1
        BY <1>3, <1>8, <2>1
    <2>3. msgs'[i] = msgs[IF i < t THEN i ELSE i + 1]
        BY <1>6, <2>1
    <2> QED
        BY <2>2, <2>3
<1>15. Carries(t, from)
    BY <1>10, <1>11, <1>12, <1>13, <1>14 DEF Carries
<1>16. Gone(from, t)
    BY <1>10 DEF Gone
<1>17. ASSUME NEW i \in DOMAIN msgs', from[i] = 0
       PROVE  i - n \in DOMAIN more /\ msgs'[i] = more[i - n]
    <2>1. i \in (n + 1)..(n + Len(more))
        BY <1>1, <1>3, <1>6, <1>8, <1>9, <1>17
    <2> QED
        BY <1>3, <1>6, <2>1
<1>18. ASSUME NEW j \in DOMAIN more
       PROVE  n + j \in DOMAIN msgs' /\ from[n + j] = 0 /\ msgs'[n + j] = more[j]
    <2>1. n + j \in (n + 1)..(n + Len(more)) /\ n + j \in DOMAIN msgs' /\ ~(n + j <= n) /\ (n + j) - n = j
        BY <1>3, <1>6
    <2>2. msgs'[n + j] = more[(n + j) - n]
        BY <1>6, <2>1
    <2> QED
        BY <1>8, <2>1, <2>2
<1>19. News(from, more, n)
    BY <1>17, <1>18 DEF News
<1> QED
    BY <1>3, <1>15, <1>16, <1>19

LEMMA MovedCarries ==
    ASSUME msgs \in Seq(Message), NEW t \in Messages, NEW m \in Message, Same(m, msgs[t]),
           NEW more \in Seq(Message), MovesOn(t, m, more)
    PROVE  \E from : \E k \in Nat : /\ Carries(t, from) /\ News(from, more, k)
                                     /\ t \in DOMAIN msgs' /\ from[t] = t /\ msgs'[t] = m
                                     /\ \A i \in DOMAIN msgs' : from[i] = t => i = t
<1>1. /\ Messages \subseteq DOMAIN msgs' /\ msgs'[t] = m
      /\ \A o \in Messages \ {t} : msgs'[o] = msgs[o]
      /\ \A i \in DOMAIN msgs' \ Messages : i - Len(msgs) \in DOMAIN more /\ msgs'[i] = more[i - Len(msgs)]
      /\ \A j \in DOMAIN more : Len(msgs) + j \in DOMAIN msgs' \ Messages /\ msgs'[Len(msgs) + j] = more[j]
    BY MessagesMoved
<1>2. Messages = 1..Len(msgs) /\ Len(msgs) \in Nat
    BY DEF Messages
<1>3. PICK from : from = [i \in DOMAIN msgs' |-> IF i \in Messages THEN i ELSE 0]
    OBVIOUS
<1>4. \A i \in DOMAIN msgs' : from[i] = IF i \in Messages THEN i ELSE 0
    BY <1>3
<1>5. \A i \in DOMAIN msgs' : from[i] \in 0..Len(msgs) /\ (from[i] # 0 <=> i \in Messages)
    BY <1>2, <1>4
<1>6. from \in [DOMAIN msgs' -> 0..Len(msgs)]
    BY <1>3, <1>5
<1>7. \A i \in DOMAIN msgs' : from[i] # 0 => from[i] = i
    BY <1>4, <1>5
<1>8. Carries(t, from)
    <2>1. \A i, j \in DOMAIN msgs' : (from[i] = from[j] /\ from[i] # 0) => i = j
        BY <1>7
    <2>2. \A o \in Messages \ {t} : \E i \in DOMAIN msgs' : from[i] = o
        BY <1>1, <1>4
    <2>3. ASSUME NEW i \in DOMAIN msgs'
          PROVE  /\ from[i] \notin {0, t} => msgs'[i] = msgs[from[i]]
                 /\ from[i] = t => Same(msgs'[i], msgs[t])
        <3>1. from[i] \notin {0, t} => i \in Messages \ {t} /\ from[i] = i
            BY <1>5, <1>7
        <3>2. from[i] = t => i = t
            BY <1>2, <1>5, <1>7
        <3> QED
            BY <1>1, <3>1, <3>2
    <2> QED
        BY <1>6, <2>1, <2>2, <2>3 DEF Carries
<1>9. News(from, more, Len(msgs))
    BY <1>1, <1>4, <1>5 DEF News
<1>10. t \in DOMAIN msgs' /\ t # 0
    BY <1>1, <1>2
<1>11. from[t] = t
    BY <1>4, <1>10
<1>12. \A i \in DOMAIN msgs' : from[i] = t => i = t
    BY <1>7, <1>10
<1> QED
    BY <1>1, <1>2, <1>8, <1>9, <1>10, <1>11, <1>12

-----------------------------------------------------------------------------
(* Pages: each is run by one message, so what is missing is still missing when  *)
(* it is made.                                                               *)

OnPage(m, table) == m.kind = "extract" /\ m.row \in DOMAIN table /\ table[m.row].type = "HAZARD"

Twins(one, two) ==
    one.type \in PdcChildTypes /\ one.type = two.type /\ one.parent = two.parent /\ one.item = two.item
OneEach(table) == \A c, d \in DOMAIN table : Twins(table[c], table[d]) => c = d

PageOnce == \A s, t \in Messages : (OnPage(msgs[s], rows) /\ OnRow(t, msgs[s].row)) => s = t

Unmade(specs, table) ==
    /\ \A i \in DOMAIN specs : Existing(table, specs[i].parent, specs[i].type, specs[i].item) = {}
    /\ \A i, j \in DOMAIN specs : specs[i] = specs[j] => i = j

OffPage(m, table) == ~m.next /\ m.pc = "queued" /\ ~OnPage(m, table)
OffPages(groups, table) == \A i \in DOMAIN groups : \A j \in DOMAIN groups[i] : OffPage(groups[i][j], table)

Steady(m, table) ==
    /\ ~m.next
    /\ m.pc = "stored" => OnPage(m, table) /\ Unmade(m.todo, table)
    /\ m.pc = "made" => OffPages(m.todo, table)

PagesOnce ==
    /\ OneEach(rows) /\ PageOnce /\ \A t \in Messages : Steady(msgs[t], rows)
    /\ \A c \in DOMAIN chords : OffPages(chords[c].body, rows)

\* What is missing to the other pages is still missing.
OthersUnmade(t) == \A s \in Messages \ {t} : msgs[s].pc = "stored" => Unmade(msgs[s].todo, rows')

\* The new messages are no pages, or there is only one.
FitNews(from) ==
    \A i \in DOMAIN msgs' : from[i] = 0 =>
        /\ ~msgs'[i].next /\ msgs'[i].pc = "queued"
        /\ \/ ~OnPage(msgs'[i], rows')
           \/ msgs'[i].row \notin Rows /\ \A j \in DOMAIN msgs' : from[j] = 0 => i = j

LEMMA OnPageLater ==
    ASSUME NEW table \in Seq(RowRecord), NEW later \in Seq(RowRecord), Grows(table, later),
           NEW m, m.row \in 0..Len(table)
    PROVE  OnPage(m, later) <=> OnPage(m, table)
<1>1. /\ DOMAIN table = 1..Len(table) /\ DOMAIN later = 1..Len(later) /\ Len(table) \in Nat /\ Len(later) \in Nat
      /\ Len(table) <= Len(later) /\ \A r \in DOMAIN table : later[r].type = table[r].type
    BY DEF Grows
<1>2. m.row \in DOMAIN later <=> m.row \in DOMAIN table
    BY <1>1
<1> QED
    BY <1>1, <1>2 DEF OnPage

LEMMA OffPagesLater ==
    ASSUME NEW table \in Seq(RowRecord), NEW later \in Seq(RowRecord), Grows(table, later),
           NEW groups, GroupsFit(groups, table), OffPages(groups, table)
    PROVE  OffPages(groups, later)
<1> SUFFICES ASSUME NEW i \in DOMAIN groups, NEW j \in DOMAIN groups[i]
             PROVE  OffPage(groups[i][j], later)
    BY DEF OffPages
<1>1. groups[i][j].row \in 0..Len(table)
    BY DEF GroupsFit, Fresh, Refers
<1>2. OffPage(groups[i][j], table)
    BY DEF OffPages
<1> QED
    BY <1>1, <1>2, OnPageLater DEF OffPage

LEMMA PagesKept ==
    ASSUME Typed, PagesOnce, NEW t \in Messages, NEW from, Carries(t, from), FitNews(from),
           rows' \in Seq(RowRecord), Grows(rows, rows'), OneEach(rows'), OthersUnmade(t),
           \A i \in DOMAIN msgs' : from[i] = t => Steady(msgs'[i], rows'),
           \A c \in DOMAIN chords' : OffPages(chords'[c].body, rows')
    PROVE  PagesOnce'
<1>1. /\ rows \in Seq(RowRecord) /\ Messages = 1..Len(msgs) /\ Len(msgs) \in Nat /\ 0 \notin Messages
      /\ msgs \in Seq(Message)
    BY DEF Typed, IsTable, IsQueue, Messages
<1>2. \A o \in Messages : msgs[o] \in Message /\ MessageFits(msgs[o], rows) /\ msgs[o].row \in 0..Len(rows)
    BY <1>1 DEF Typed, IsQueue, MessageFits, Refers, Messages
<1>3. ASSUME NEW i \in DOMAIN msgs'
      PROVE  /\ from[i] \in 0..Len(msgs)
             /\ from[i] # 0 => from[i] \in Messages
             /\ from[i] # 0 => Same(msgs'[i], msgs[from[i]])
             /\ from[i] \notin {0, t} => msgs'[i] = msgs[from[i]]
    <2>1. from[i] \in 0..Len(msgs)
        BY DEF Carries
    <2>2. from[i] # 0 => from[i] \in Messages
        BY <1>1, <2>1
    <2>3. from[i] \notin {0, t} => msgs'[i] = msgs[from[i]]
        BY DEF Carries
    <2>4. from[i] = t => Same(msgs'[i], msgs[t])
        BY DEF Carries
    <2>5. from[i] # 0 => Same(msgs'[i], msgs[from[i]])
        BY <2>3, <2>4 DEF Same
    <2> QED
        BY <2>1, <2>2, <2>3, <2>5
<1>4. ASSUME NEW i \in DOMAIN msgs', from[i] # 0
      PROVE  /\ OnPage(msgs'[i], rows') <=> OnPage(msgs[from[i]], rows)
             /\ msgs'[i].row \in 0..Len(rows)
    <2>1. PICK m : m = msgs'[i]
        OBVIOUS
    <2>2. PICK n : n = msgs[from[i]]
        OBVIOUS
    <2>3. m.kind = n.kind /\ m.row = n.row /\ n.row \in 0..Len(rows)
        BY <1>2, <1>3, <1>4, <2>1, <2>2 DEF Same
    <2>4. OnPage(m, rows') <=> OnPage(m, rows)
        BY <1>1, <2>3, OnPageLater
    <2>5. OnPage(m, rows) <=> OnPage(n, rows)
        BY <2>3 DEF OnPage
    <2> QED
        BY <2>1, <2>2, <2>3, <2>4, <2>5
<1>5. ASSUME NEW i \in DOMAIN msgs' PROVE Steady(msgs'[i], rows')
    <2>1. CASE from[i] = 0
        BY <2>1 DEF FitNews, Steady
    <2>2. CASE from[i] = t
        BY <2>2
    <2>3. CASE from[i] \notin {0, t}
        <3>1. PICK o \in Messages \ {t} : o = from[i] /\ msgs'[i] = msgs[o]
            BY <1>3, <2>3
        <3>2. Steady(msgs[o], rows)
            BY <3>1 DEF PagesOnce
        <3>3. msgs[o].pc = "stored" => OnPage(msgs[o], rows') /\ Unmade(msgs[o].todo, rows')
            BY <1>1, <1>2, <3>1, <3>2, OnPageLater DEF Steady, OthersUnmade
        <3>4. msgs[o].pc = "made" => OffPages(msgs[o].todo, rows')
            <4>1. msgs[o].pc = "made" => GroupsFit(msgs[o].todo, rows)
                BY <1>2, <3>1 DEF MessageFits
            <4> QED
                BY <1>1, <3>2, <4>1, OffPagesLater DEF Steady
        <3> QED
            BY <3>1, <3>2, <3>3, <3>4 DEF Steady
    <2> QED
        BY <2>1, <2>2, <2>3
<1>6. ASSUME NEW i \in DOMAIN msgs', NEW j \in DOMAIN msgs', OnPage(msgs'[i], rows'),
             msgs'[j].kind = "extract", msgs'[j].row = msgs'[i].row
      PROVE  i = j
    <2>1. OnPage(msgs'[j], rows')
        BY <1>6 DEF OnPage
    <2>r. Rows = 1..Len(rows) /\ Len(rows) \in Nat /\ DOMAIN rows' = 1..Len(rows')
        BY <1>1 DEF Rows
    <2>2. CASE from[i] = 0
        <3>1. msgs'[i].row \notin Rows /\ \A o \in DOMAIN msgs' : from[o] = 0 => i = o
            BY <1>6, <2>2 DEF FitNews
        <3>2. CASE from[j] = 0
            BY <3>1, <3>2
        <3>3. CASE from[j] # 0
            <4>1. msgs'[j].row \in 0..Len(rows) /\ msgs'[j].row \in DOMAIN rows'
                BY <1>4, <2>1, <3>3 DEF OnPage
            <4> QED
                BY <1>6, <2>r, <3>1, <4>1
        <3> QED
            BY <3>2, <3>3
    <2>3. CASE from[i] # 0 /\ from[j] = 0
        <3>1. msgs'[j].row \notin Rows
            BY <2>1, <2>3 DEF FitNews
        <3>2. msgs'[i].row \in 0..Len(rows) /\ msgs'[i].row \in DOMAIN rows'
            BY <1>4, <1>6, <2>3 DEF OnPage
        <3> QED
            BY <1>6, <2>r, <3>1, <3>2
    <2>4. CASE from[i] # 0 /\ from[j] # 0
        <3>1. PICK a, b : a = from[i] /\ b = from[j]
            OBVIOUS
        <3>2. /\ a \in Messages /\ b \in Messages /\ OnPage(msgs[a], rows)
              /\ msgs[b].kind = "extract" /\ msgs[b].row = msgs[a].row
            BY <1>3, <1>4, <1>6, <2>4, <3>1 DEF Same
        <3>3. a = b
            BY <3>2 DEF PagesOnce, PageOnce, OnRow
        <3> QED
            BY <2>4, <3>1, <3>3 DEF Carries
    <2> QED
        BY <2>2, <2>3, <2>4
<1>7. PageOnce'
    BY <1>6 DEF PageOnce, OnRow, Messages
<1> QED
    BY <1>5, <1>7 DEF PagesOnce, Messages

LEMMA SameRowsOnce ==
    ASSUME Typed, PagesOnce, rows' \in Seq(RowRecord), Grows(rows, rows'), DOMAIN rows' = Rows, NEW t \in Messages
    PROVE  /\ OneEach(rows') /\ OthersUnmade(t)
           /\ \A specs : Unmade(specs, rows) => Unmade(specs, rows')
<1>1. \A r \in Rows : /\ rows'[r].type = rows[r].type /\ rows'[r].item = rows[r].item
                      /\ rows'[r].parent = rows[r].parent
    BY DEF Grows, Rows
<1>2. OneEach(rows')
    <2>1. \A c, d \in Rows : Twins(rows'[c], rows'[d]) => Twins(rows[c], rows[d])
        BY <1>1 DEF Twins
    <2> QED
        BY <2>1 DEF OneEach, PagesOnce, Rows
<1>3. ASSUME NEW specs, Unmade(specs, rows) PROVE Unmade(specs, rows')
    <2>1. \A parent, type, item : Existing(rows', parent, type, item) = Existing(rows, parent, type, item)
        BY <1>1 DEF Existing, Rows
    <2> QED
        BY <1>3, <2>1 DEF Unmade
<1>4. OthersUnmade(t)
    BY <1>3 DEF OthersUnmade, PagesOnce, Steady
<1> QED
    BY <1>2, <1>3, <1>4

\* A message is acknowledged or moves on, and groups without pages are published.
LEMMA PagesSent ==
    ASSUME Typed, PagesOnce, NEW t \in Messages,
           rows' \in Seq(RowRecord), Grows(rows, rows'), OneEach(rows'), OthersUnmade(t),
           NEW queue, NEW known \in Seq(Chord), NEW groups, OffPages(groups, rows'),
           Opened(queue, known, groups, msgs', chords'),
           \A c \in DOMAIN known : OffPages(known[c].body, rows'),
           \/ queue = Acked(t)
           \/ \E m \in Message : Same(m, msgs[t]) /\ Steady(m, rows') /\ queue = [msgs EXCEPT ![t] = m]
    PROVE  PagesOnce'
<1>1. msgs \in Seq(Message)
    BY DEF Typed, IsQueue
<1>2. PICK more \in Seq(Message), first \in Nat, body \in Groups :
        /\ msgs' = queue \o more
        /\ \/ more = <<>> /\ chords' = known
           \/ first \in DOMAIN groups /\ Alike(more, groups[first])
        /\ \A b \in DOMAIN body : \E p \in DOMAIN groups \ {first} : body[b] = groups[p]
        /\ \/ chords' = known
           \/ chords' = Append(known, [left |-> Len(more), broken |-> FALSE, body |-> body])
    BY DEF Opened
<1>3. \E from : \E k \in Nat : /\ Carries(t, from) /\ News(from, more, k)
                               /\ \A i \in DOMAIN msgs' : from[i] = t => Steady(msgs'[i], rows')
    <2>1. CASE queue = Acked(t)
        <3>1. msgs' = Acked(t) \o more
            BY <1>2, <2>1
        <3>2. \E from : \E k \in Nat : Carries(t, from) /\ Gone(from, t) /\ News(from, more, k)
            BY <1>1, <3>1, AckedCarries
        <3> QED
            BY <3>2 DEF Gone
    <2>2. ASSUME NEW m \in Message, Same(m, msgs[t]), Steady(m, rows'), queue = [msgs EXCEPT ![t] = m]
          PROVE  \E from : \E k \in Nat : /\ Carries(t, from) /\ News(from, more, k)
                                          /\ \A i \in DOMAIN msgs' : from[i] = t => Steady(msgs'[i], rows')
        <3>1. MovesOn(t, m, more)
            BY <1>2, <2>2 DEF MovesOn
        <3>2. \E from : \E k \in Nat : /\ Carries(t, from) /\ News(from, more, k)
                                       /\ t \in DOMAIN msgs' /\ from[t] = t /\ msgs'[t] = m
                                       /\ \A i \in DOMAIN msgs' : from[i] = t => i = t
            BY <1>1, <2>2, <3>1, MovedCarries
        <3> QED
            BY <2>2, <3>2
    <2> QED
        BY <2>1, <2>2
<1>4. PICK from : \E k \in Nat : /\ Carries(t, from) /\ News(from, more, k)
                                 /\ \A i \in DOMAIN msgs' : from[i] = t => Steady(msgs'[i], rows')
    BY <1>3
<1>5. FitNews(from)
    <2>1. SUFFICES ASSUME NEW i \in DOMAIN msgs', from[i] = 0
                   PROVE  ~msgs'[i].next /\ msgs'[i].pc = "queued" /\ ~OnPage(msgs'[i], rows')
        BY DEF FitNews
    <2>2. PICK j \in DOMAIN more : msgs'[i] = more[j]
        BY <1>4, <2>1 DEF News
    <2>3. first \in DOMAIN groups /\ Alike(more, groups[first])
        BY <1>2, <2>2
    <2>4. PICK m : m = groups[first][j]
        OBVIOUS
    <2>5. /\ j \in DOMAIN groups[first] /\ more[j].kind = m.kind /\ more[j].row = m.row
          /\ more[j].next = m.next /\ more[j].pc = m.pc
        BY <2>2, <2>3, <2>4 DEF Alike
    <2>6. OffPage(m, rows')
        BY <2>3, <2>4, <2>5 DEF OffPages
    <2> QED
        BY <2>2, <2>5, <2>6 DEF OffPage, OnPage
<1>6. OffPages(body, rows')
    <2>1. SUFFICES ASSUME NEW b \in DOMAIN body, NEW j \in DOMAIN body[b] PROVE OffPage(body[b][j], rows')
        BY DEF OffPages
    <2>2. PICK p \in DOMAIN groups : body[b] = groups[p]
        BY <1>2
    <2> QED
        BY <2>1, <2>2 DEF OffPages
<1>7. ASSUME NEW c \in DOMAIN chords' PROVE OffPages(chords'[c].body, rows')
    <2>1. CASE chords' = known
        BY <1>7, <2>1
    <2>2. CASE chords' = Append(known, [left |-> Len(more), broken |-> FALSE, body |-> body])
        <3>1. PICK chord : chord = [left |-> Len(more), broken |-> FALSE, body |-> body]
            OBVIOUS
        <3>2. chord.body = body /\ chords' = Append(known, chord)
            BY <2>2, <3>1
        <3>3. (c \in DOMAIN known /\ chords'[c] = known[c]) \/ chords'[c] = chord
            BY <1>7, <3>2
        <3> QED
            BY <1>6, <3>2, <3>3
    <2> QED
        BY <1>2, <2>1, <2>2
<1> QED
    BY <1>4, <1>5, <1>7, PagesKept

-----------------------------------------------------------------------------
(* What a task that ends does to its chord.                                  *)

\* A message is acknowledged, chords lose their bodies or break, and groups are published.
Leaving(t, known, groups) ==
    /\ known \in Seq(Chord) /\ DOMAIN known = DOMAIN chords
    /\ \A c \in DOMAIN chords : /\ known[c].body = chords[c].body \/ known[c].body = <<>>
                                /\ chords[c].broken => known[c].broken
    /\ Opened(Acked(t), known, groups, msgs', chords')

\* The groups are the body of a chord whose last part that was.
Closes(t, groups) ==
    \/ groups = <<>>
    \/ \E c \in DOMAIN chords : /\ c = msgs[t].chord /\ ~chords[c].broken /\ groups = chords[c].body
                                /\ PartsOf(Acked(t), c) = {}

LEMMA NothingOpens ==
    ASSUME NEW queue \in Seq(Message), NEW known
    PROVE  Opened(queue, known, <<>>, queue, known)
<1>1. queue \o <<>> = queue /\ <<>> \in Seq(Message) /\ <<>> \in Groups /\ DOMAIN <<>> = {} /\ 0 \in Nat
    BY MessageTypes
<1> QED
    BY <1>1 DEF Opened

LEMMA RaiseLeaves ==
    ASSUME Typed, NEW t \in Messages, Raise(t)
    PROVE  \E known : /\ Leaving(t, known, <<>>)
                      /\ \A c \in DOMAIN chords : c = msgs[t].chord => known[c].broken
<1>1. msgs \in Seq(Message) /\ chords \in Seq(Chord) /\ rows \in Seq(RowRecord) /\ IsQueue(msgs, chords, rows)
    BY DEF Typed, IsQueue, IsTable
<1>2. msgs' = Acked(t) /\ Acked(t) \in Seq(Message)
    BY <1>1, AckedMessages DEF Raise
<1>3. chords' \in Seq(Chord) /\ DOMAIN chords' = DOMAIN chords
    BY <1>1, RaiseQueue DEF IsQueue, Raise
<1>4. ASSUME NEW c \in DOMAIN chords
      PROVE  /\ chords'[c].body = chords[c].body /\ (chords[c].broken => chords'[c].broken)
             /\ c = msgs[t].chord => chords'[c].broken
    <2>1. chords[c] \in Chord
        BY <1>1
    <2>2. PICK broken : broken = [chords[c] EXCEPT !.broken = TRUE]
        OBVIOUS
    <2>3. broken.broken /\ broken.body = chords[c].body
        BY <2>1, <2>2 DEF Chord
    <2>4. chords'[c] = IF c = msgs[t].chord THEN broken ELSE chords[c]
        BY <2>2 DEF Raise
    <2> QED
        BY <2>3, <2>4
<1>5. Opened(Acked(t), chords', <<>>, msgs', chords')
    BY <1>2, NothingOpens
<1>6. Leaving(t, chords', <<>>)
    BY <1>3, <1>4, <1>5 DEF Leaving
<1> QED
    BY <1>4, <1>6

LEMMA ReturnLeaves ==
    ASSUME Typed, NEW t \in Messages, ~msgs[t].next, NEW value, Return(t, value)
    PROVE  \E known, groups : Leaving(t, known, groups) /\ Closes(t, groups)
<1> DEFINE c == msgs[t].chord
           counted == [chords EXCEPT ![c].left = @ - 1]
           emptied == [counted EXCEPT ![c].body = <<>>]
<1>1. /\ msgs \in Seq(Message) /\ chords \in Seq(Chord) /\ rows \in Seq(RowRecord) /\ IsQueue(msgs, chords, rows)
      /\ Acked(t) \in Seq(Message)
    BY AckedMessages DEF Typed, IsQueue, IsTable
<1>2. CASE c = 0 /\ msgs' = Acked(t) /\ UNCHANGED chords
    <2>1. Opened(Acked(t), chords, <<>>, msgs', chords')
        BY <1>1, <1>2, NothingOpens
    <2>2. Leaving(t, chords, <<>>)
        BY <1>1, <2>1 DEF Leaving
    <2> QED
        BY <2>2 DEF Closes
<1>3. ASSUME c # 0
      PROVE  /\ c \in DOMAIN chords /\ chords[c] \in Chord /\ counted \in Seq(Chord) /\ DOMAIN counted = DOMAIN chords
             /\ counted[c].left = chords[c].left - 1 /\ counted[c].body = chords[c].body
             /\ counted[c].broken = chords[c].broken
             /\ \A d \in DOMAIN chords : d # c => counted[d] = chords[d]
    <2>1. c \in DOMAIN chords /\ chords[c] \in Chord /\ chords[c].left - 1 \in Nat
        BY <1>1, <1>3, ChordWaits
    <2>2. PICK one : one = [chords[c] EXCEPT !.left = @ - 1]
        OBVIOUS
    <2>3. /\ one \in Chord /\ one.left = chords[c].left - 1 /\ one.body = chords[c].body
          /\ one.broken = chords[c].broken
        BY <2>1, <2>2 DEF Chord
    <2>4. counted = [chords EXCEPT ![c] = one]
        BY <2>2
    <2> HIDE DEF counted, c
    <2> QED
        BY <1>1, <2>1, <2>3, <2>4
<1>4. ASSUME c # 0
      PROVE  /\ emptied \in Seq(Chord) /\ DOMAIN emptied = DOMAIN chords
             /\ emptied[c].body = <<>> /\ emptied[c].broken = chords[c].broken
             /\ \A d \in DOMAIN chords : d # c => emptied[d] = chords[d]
    <2>1. counted[c] \in Chord
        BY <1>3, <1>4
    <2>2. PICK one : one = [counted[c] EXCEPT !.body = <<>>]
        OBVIOUS
    <2>3. one \in Chord /\ one.broken = counted[c].broken /\ one.body = <<>>
        BY <2>1, <2>2, MessageTypes DEF Chord
    <2>4. emptied = [counted EXCEPT ![c] = one]
        BY <2>2
    <2> HIDE DEF emptied, counted, c
    <2> QED
        BY <1>3, <1>4, <2>3, <2>4
<1> HIDE DEF counted, emptied
<1>5. CASE c # 0 /\ msgs' = Acked(t) /\ chords' = counted
    <2>1. Opened(Acked(t), counted, <<>>, msgs', chords')
        BY <1>1, <1>5, NothingOpens
    <2>2. \A d \in DOMAIN chords : counted[d].body = chords[d].body /\ counted[d].broken = chords[d].broken
        BY <1>3, <1>5
    <2>3. Leaving(t, counted, <<>>)
        BY <1>3, <1>5, <2>1, <2>2 DEF Leaving
    <2> QED
        BY <2>3 DEF Closes
<1>6. CASE /\ c # 0 /\ counted[c].left = 0 /\ ~counted[c].broken
           /\ Publish(Acked(t), emptied, counted[c].body)
    <2>1. counted[c].body \in Groups /\ counted[c].body = chords[c].body /\ ~chords[c].broken
        BY <1>3, <1>6 DEF Chord
    <2>2. Opened(Acked(t), emptied, counted[c].body, msgs', chords')
        BY <1>1, <1>4, <1>6, <2>1, PublishOpens DEF Publish
    <2>3. \A d \in DOMAIN chords : /\ emptied[d].body = chords[d].body \/ emptied[d].body = <<>>
                                   /\ emptied[d].broken = chords[d].broken
        BY <1>4, <1>6
    <2>4. Leaving(t, emptied, counted[c].body)
        BY <1>4, <1>6, <2>2, <2>3 DEF Leaving
    <2>5. PartsOf(Acked(t), c) = {}
        <3>1. Cardinality(PartsOf(Acked(t), c)) = Cardinality(PartsOf(msgs, c)) - 1
            BY <1>1, PartsOfAcked
        <3>2. Cardinality(PartsOf(msgs, c)) \in Nat /\ Cardinality(PartsOf(msgs, c)) <= chords[c].left
            BY <1>1, <1>3, <1>6, PartsFinite DEF IsQueue
        <3>3. IsFiniteSet(PartsOf(Acked(t), c)) /\ Cardinality(PartsOf(Acked(t), c)) \in Nat
            BY <1>1, PartsFinite
        <3>4. chords[c].left = 1
            <4>1. chords[c].left \in Nat
                BY <1>3, <1>6 DEF Chord
            <4> QED
                BY <1>3, <1>6, <4>1
        <3>5. Cardinality(PartsOf(Acked(t), c)) = 0
            BY <3>1, <3>2, <3>3, <3>4
        <3> QED
            BY <3>3, <3>5, FS_EmptySet
    <2>6. Closes(t, counted[c].body)
        BY <1>3, <1>6, <2>1, <2>5 DEF Closes
    <2> QED
        BY <2>4, <2>6
<1> QED
    BY <1>2, <1>5, <1>6 DEF Return, counted, emptied

-----------------------------------------------------------------------------
(* What the steps of a delivery do to its row and its message.               *)

Up(n) == IF n < 2 THEN n + 1 ELSE n

\* The row of the message; ends says that the message is gone, else it is at the place.
Turns(t, ends, place) ==
    LET old == rows[msgs[t].row]
        new == rows'[msgs[t].row]
    IN
    \/ /\ msgs[t].pc = "queued" /\ new.runs = Up(old.runs)
       /\ new.status = "IN_PROGRESS" \/ (new.status = "FAILED" /\ ends)
    \/ /\ msgs[t].pc = "queued" /\ new.runs = old.runs /\ new.status = "ON_RETRY"
       /\ ends \/ place = "queued"
    \/ /\ msgs[t].pc # "queued" /\ new.runs = old.runs
       /\ new.status \in {"IN_PROGRESS", old.status} \/ (new.status = "SUCCESS" /\ ends)

Shifted(t, m) == m \in Message /\ Same(m, msgs[t]) /\ msgs' = [msgs EXCEPT ![t] = m] /\ UNCHANGED chords

Quits(t) ==
    /\ \E known, groups : Leaving(t, known, groups) /\ Closes(t, groups)
    /\ Turns(t, TRUE, "queued") /\ rows'[msgs[t].row].status \in {"SUCCESS", "FAILED"}
Breaks(t) ==
    /\ \E known : Leaving(t, known, <<>>) /\ \A c \in DOMAIN chords : c = msgs[t].chord => known[c].broken
    /\ Turns(t, TRUE, "queued")
Shifts(t) ==
    \E m : /\ Shifted(t, m) /\ m.pc \in {"queued", "stored", "sent"}
           /\ m.pc = "stored" => OnPage(m, rows) /\ Unmade(m.todo, rows)
           /\ Turns(t, FALSE, m.pc)

OnlyOwn(t) == DOMAIN rows' = Rows /\ \A o \in Rows \ {msgs[t].row} : rows'[o] = rows[o]
AtWork(t) == msgs[t].kind = "extract" /\ msgs[t].row \in Rows
Works(t) == AtWork(t) /\ OnlyOwn(t) /\ (Quits(t) \/ Breaks(t) \/ Shifts(t))

LEMMA MarkIs ==
    ASSUME Typed, NEW t \in Messages, msgs[t].row \in Rows, NEW status \in Status, NEW later, later = Mark(rows, t, status)
    PROVE  /\ DOMAIN later = Rows /\ \A o \in Rows \ {msgs[t].row} : later[o] = rows[o]
           /\ later[msgs[t].row].status = status /\ later[msgs[t].row] \in RowRecord
           /\ later[msgs[t].row].runs = IF Received(t) THEN Up(rows[msgs[t].row].runs) ELSE rows[msgs[t].row].runs
<1>1. PICK r : r = msgs[t].row
    OBVIOUS
<1>2. rows \in Seq(RowRecord) /\ r \in DOMAIN rows /\ rows[r] \in RowRecord /\ Rows = DOMAIN rows
    BY <1>1 DEF Typed, IsTable, Rows
<1>3. PICK one : one = [rows[r] EXCEPT !.status = status]
    OBVIOUS
<1>4. one \in RowRecord /\ one.status = status /\ one.runs = rows[r].runs
    BY <1>2, <1>3 DEF RowRecord
<1>5. PICK n : n = IF Received(t) THEN Up(rows[r].runs) ELSE rows[r].runs
    OBVIOUS
<1>6. n \in Nat /\ n = IF Received(t) /\ one.runs < 2 THEN one.runs + 1 ELSE one.runs
    <2>1. rows[r].runs \in Nat
        BY <1>2 DEF RowRecord
    <2> QED
        BY <1>4, <1>5, <2>1 DEF Up
<1>7. PICK two : two = [one EXCEPT !.runs = n]
    OBVIOUS
<1>8. two \in RowRecord /\ two.status = status /\ two.runs = n
    BY <1>4, <1>6, <1>7 DEF RowRecord
<1>9. later = [rows EXCEPT ![r] = two]
    BY <1>1, <1>2, <1>3, <1>6, <1>7 DEF Mark
<1>10. DOMAIN later = Rows /\ later[r] = two /\ \A o \in Rows \ {r} : later[o] = rows[o]
    BY <1>2, <1>9
<1> QED
    BY <1>1, <1>5, <1>8, <1>10

LEMMA FinishWorks ==
    ASSUME Typed, PagesOnce, NEW t \in Messages, Finish(t)
    PROVE  Works(t)
<1>1. AtWork(t) /\ msgs[t].pc = "sent" /\ ~msgs[t].next /\ ~Received(t)
    BY Delivery DEF Finish, At, AtWork, PagesOnce, Steady, Received, Taken, Waits
<1>2. OnlyOwn(t) /\ rows'[msgs[t].row].status = "SUCCESS" /\ rows'[msgs[t].row].runs = rows[msgs[t].row].runs
    BY <1>1, MarkIs DEF Finish, SetStatus, OnlyOwn, AtWork, Status
<1>3. \E known, groups : Leaving(t, known, groups) /\ Closes(t, groups)
    BY <1>1, ReturnLeaves DEF Finish
<1>4. Turns(t, TRUE, "queued")
    BY <1>1, <1>2 DEF Turns
<1> QED
    BY <1>1, <1>2, <1>3, <1>4 DEF Works, Quits

\* The row of a delivery that is started, or was started before.
LEMMA StartTurns ==
    ASSUME Typed, NEW t \in Messages, Received(t) \/ msgs[t].pc # "queued", NEW place, NEW ends \in BOOLEAN,
           rows' = SetStatus(t, "IN_PROGRESS") \/ (ends /\ Received(t) /\ rows' = SetStatus(t, "FAILED"))
    PROVE  AtWork(t) /\ OnlyOwn(t) /\ Turns(t, ends, place)
<1>1. AtWork(t) /\ (Received(t) <=> msgs[t].pc = "queued")
    BY Delivery DEF AtWork, Received, Taken, Waits, At
<1>2. PICK status \in {"IN_PROGRESS", "FAILED"} :
            rows' = Mark(rows, t, status) /\ (status = "FAILED" => ends /\ Received(t))
    BY DEF SetStatus
<1>3. /\ OnlyOwn(t) /\ rows'[msgs[t].row].status = status
      /\ rows'[msgs[t].row].runs = IF Received(t) THEN Up(rows[msgs[t].row].runs) ELSE rows[msgs[t].row].runs
    BY <1>1, <1>2, MarkIs DEF OnlyOwn, AtWork, Status
<1>4. Turns(t, ends, place)
    BY <1>1, <1>2, <1>3 DEF Turns
<1> QED
    BY <1>1, <1>3, <1>4

LEMMA LostWorks ==
    ASSUME Typed, PagesOnce, NEW t \in Messages, WorkerLost(t)
    PROVE  Works(t)
<1>1. /\ Received(t) \/ msgs[t].pc # "queued"
      /\ rows' = SetStatus(t, "IN_PROGRESS")
    BY DEF WorkerLost, Started
<1>2. /\ AtWork(t) /\ OnlyOwn(t) /\ Turns(t, TRUE, "queued") /\ Turns(t, FALSE, "queued")
      /\ msgs[t] \in Message
    BY <1>1, StartTurns, Delivery
<1>3. CASE Raise(t)
    BY <1>2, <1>3, RaiseLeaves DEF Works, Breaks
<1>4. CASE msgs' = [Move(t, "queued") EXCEPT ![t].todo = <<>>, ![t].value = 0] /\ UNCHANGED chords
    <2>1. PICK m1 : m1 = [msgs[t] EXCEPT !.pc = "queued"]
        OBVIOUS
    <2>2. PICK m2 : m2 = [m1 EXCEPT !.todo = <<>>]
        OBVIOUS
    <2>3. PICK m : m = [m2 EXCEPT !.value = 0]
        OBVIOUS
    <2>4. m1 \in Message /\ Same(m1, msgs[t]) /\ m1.pc = "queued"
        BY <1>2, <2>1 DEF Message, MessageWith, Places, Same
    <2>5. m2 \in Message /\ Same(m2, msgs[t]) /\ m2.pc = "queued"
        BY <2>2, <2>4, MessageTypes DEF Message, MessageWith, Same
    <2>6. m \in Message /\ Same(m, msgs[t]) /\ m.pc = "queued"
        BY <2>3, <2>5 DEF Message, MessageWith, Same
    <2>7. msgs' = [msgs EXCEPT ![t] = m]
        BY <1>4, <2>1, <2>2, <2>3 DEF Move, Messages
    <2>8. Shifted(t, m)
        BY <1>4, <2>6, <2>7 DEF Shifted
    <2>9. Shifts(t)
        BY <1>2, <2>6, <2>8 DEF Shifts
    <2> QED
        BY <1>2, <2>9 DEF Works
<1> QED
    BY <1>3, <1>4 DEF WorkerLost

LEMMA OtherWorks ==
    ASSUME Typed, NEW t \in Messages, OtherError(t)
    PROVE  Works(t)
<1>1. AtWork(t) /\ OnlyOwn(t) /\ Turns(t, TRUE, "queued")
    BY StartTurns DEF OtherError
<1> QED
    BY <1>1, RaiseLeaves DEF OtherError, Works, Breaks

LEMMA FailsWorks ==
    ASSUME Typed, PagesOnce, NEW t \in Messages, NEW limit, FetchFails(t, limit)
    PROVE  Works(t)
<1>1. /\ Received(t) /\ msgs[t] \in Message /\ rows \in Seq(RowRecord) /\ msgs \in Seq(Message)
      /\ AtWork(t) /\ msgs[t].pc = "queued" /\ ~msgs[t].next
    BY Delivery DEF FetchFails, AtWork, Received, Taken, Waits, At, PagesOnce, Steady
<1>2. CASE rows' = Mark(rows, t, "FAILED") /\ Return(t, 0)
    <2>1. OnlyOwn(t) /\ Turns(t, TRUE, "queued") /\ rows'[msgs[t].row].status = "FAILED"
        <3>1. OnlyOwn(t) /\ Turns(t, TRUE, "queued")
            BY <1>1, <1>2, StartTurns DEF SetStatus
        <3>2. rows'[msgs[t].row].status = "FAILED"
            BY <1>1, <1>2, MarkIs DEF AtWork, Status
        <3> QED
            BY <3>1, <3>2
    <2>2. \E known, groups : Leaving(t, known, groups) /\ Closes(t, groups)
        BY <1>1, <1>2, ReturnLeaves
    <2> QED
        BY <1>1, <2>1, <2>2 DEF Works, Quits
<1>3. CASE /\ rows' = [rows EXCEPT ![msgs[t].row].status = "ON_RETRY", ![msgs[t].row].attempts = @ + 1]
           /\ \/ RetryAllowed(t) /\ msgs' = RetryMessage(t) /\ UNCHANGED chords
              \/ ~RetryAllowed(t) /\ Raise(t)
    <2>1. PICK r : r = msgs[t].row
        OBVIOUS
    <2>2. rows[r] \in RowRecord /\ r \in DOMAIN rows /\ Rows = DOMAIN rows
        BY <1>1, <2>1 DEF Rows, AtWork
    <2>3. PICK one : one = [rows[r] EXCEPT !.status = "ON_RETRY"]
        OBVIOUS
    <2>4. one \in RowRecord /\ one.status = "ON_RETRY" /\ one.runs = rows[r].runs
        BY <2>2, <2>3 DEF RowRecord, Status
    <2>5. PICK two : two = [one EXCEPT !.attempts = @ + 1]
        OBVIOUS
    <2>6. two.status = "ON_RETRY" /\ two.runs = rows[r].runs
        BY <2>4, <2>5 DEF RowRecord
    <2>7. rows' = [rows EXCEPT ![r] = two]
        BY <1>3, <2>1, <2>2, <2>3, <2>5
    <2>8. DOMAIN rows' = Rows /\ rows'[r] = two /\ \A o \in Rows \ {r} : rows'[o] = rows[o]
        BY <2>2, <2>7
    <2>9. OnlyOwn(t) /\ Turns(t, TRUE, "queued") /\ Turns(t, FALSE, "queued")
        BY <1>1, <2>1, <2>6, <2>8 DEF OnlyOwn, Turns
    <2>10. CASE Raise(t)
        BY <1>1, <2>9, <2>10, RaiseLeaves DEF Works, Breaks
    <2>11. CASE msgs' = RetryMessage(t) /\ UNCHANGED chords
        <3>1. PICK m1 : m1 = [msgs[t] EXCEPT !.pc = "queued"]
            OBVIOUS
        <3>2. PICK m : m = [m1 EXCEPT !.retries = @ + 1]
            OBVIOUS
        <3>3. m1 \in Message /\ Same(m1, msgs[t]) /\ m1.pc = "queued"
            BY <1>1, <3>1 DEF Message, MessageWith, Places, Same
        <3>4. m1.retries + 1 \in Nat
            BY <3>3 DEF Message, MessageWith
        <3>5. m \in Message /\ Same(m, msgs[t]) /\ m.pc = "queued"
            BY <3>2, <3>3, <3>4 DEF Message, MessageWith, Same
        <3>6. msgs' = [msgs EXCEPT ![t] = m]
            <4>1. t \in DOMAIN msgs
                BY DEF Messages
            <4>2. m = [m1 EXCEPT !.retries = msgs[t].retries + 1]
                BY <1>1, <3>1, <3>2 DEF Message, MessageWith
            <4> QED
                BY <1>1, <2>11, <3>1, <3>2, <4>1 DEF RetryMessage, Move
        <3>7. Shifted(t, m)
            BY <2>11, <3>5, <3>6 DEF Shifted
        <3>8. Shifts(t)
            BY <2>9, <3>5, <3>7 DEF Shifts
        <3> QED
            BY <1>1, <2>9, <3>8 DEF Works
    <2> QED
        BY <1>3, <2>10, <2>11
<1> QED
    BY <1>2, <1>3 DEF FetchFails, RetryOr

LEMMA HazardFetchedWorks ==
    ASSUME Typed, Pdc, PagesOnce, NEW t \in Messages, PdcHazardFetched(t)
    PROVE  Works(t)
<1>1. PICK r : r = msgs[t].row
    OBVIOUS
<1>2. /\ Received(t) /\ r \in Rows /\ rows \in Seq(RowRecord) /\ IsTable(rows) /\ rows[r].type = "HAZARD"
      /\ msgs[t] \in Message /\ msgs[t].kind = "extract" /\ msgs[t].pc = "queued" /\ AtWork(t)
    BY <1>1, Delivery DEF PdcHazardFetched, Handles, RowOf, AtWork, Received, Taken, Waits, At
<1>3. PICK begun : begun = Started(t)
    OBVIOUS
<1>4. /\ DOMAIN begun = Rows /\ \A o \in Rows \ {r} : begun[o] = rows[o]
      /\ begun[r].status = "IN_PROGRESS" /\ begun[r] \in RowRecord /\ begun[r].runs = Up(rows[r].runs)
    BY <1>1, <1>2, <1>3, MarkIs DEF Started, SetStatus, Status
<1>5. PICK row : row = [begun[r] EXCEPT !.content = world[RowOf(t).item].content]
    OBVIOUS
<1>6. row.status = "IN_PROGRESS" /\ row.runs = Up(rows[r].runs)
    BY <1>4, <1>5 DEF RowRecord
<1>7. rows' = [begun EXCEPT ![r] = row]
    BY <1>1, <1>3, <1>5 DEF PdcHazardFetched
<1>8. OnlyOwn(t) /\ rows'[r] = row
    BY <1>1, <1>2, <1>4, <1>7 DEF OnlyOwn
<1>9. PICK specs : specs = Missing(PageParts(r))
    OBVIOUS
<1>10. Unmade(specs, rows) /\ specs \in Seq(SpecRecord)
    <2>1. r \in Nat /\ rows[r].item \in Listing(Pages)
        BY <1>2 DEF IsTable, ItemFits, Rows
    <2>2. PICK parts : parts = PageParts(r)
        OBVIOUS
    <2>3. parts \in Seq(SpecRecord)
        BY <2>1, <2>2, PagePartsFit
    <2>4. AreMissing(specs, parts)
        BY <1>9, <2>2, <2>3, MissingFits
    <2> QED
        BY <2>4 DEF AreMissing, Unmade
<1>11. PICK m1 : m1 = [msgs[t] EXCEPT !.pc = "stored"]
    OBVIOUS
<1>12. PICK m : m = [m1 EXCEPT !.todo = specs]
    OBVIOUS
<1>13. m1 \in Message /\ Same(m1, msgs[t]) /\ m1.pc = "stored"
    BY <1>2, <1>11 DEF Message, MessageWith, Places, Same
<1>14. m \in Message /\ Same(m, msgs[t]) /\ m.pc = "stored" /\ m.todo = specs
    BY <1>10, <1>12, <1>13 DEF Message, MessageWith, Same
<1>15. msgs' = [msgs EXCEPT ![t] = m]
    BY <1>1, <1>9, <1>11, <1>12 DEF PdcHazardFetched, Messages
<1>16. Shifted(t, m)
    BY <1>14, <1>15 DEF Shifted, PdcHazardFetched
<1>17. OnPage(m, rows)
    BY <1>1, <1>2, <1>14 DEF OnPage, Same, Rows
<1>18. Turns(t, FALSE, "stored")
    BY <1>1, <1>2, <1>6, <1>8 DEF Turns
<1>19. Shifts(t)
    BY <1>10, <1>14, <1>16, <1>17, <1>18 DEF Shifts
<1> QED
    BY <1>2, <1>8, <1>19 DEF Works

\* A delivery that has made new rows, or none.
Makes(t, row, new, groups) ==
    /\ AtWork(t) /\ msgs[t].pc = "queued" /\ Turns(t, FALSE, "sent")
    /\ \A o \in Rows \ {msgs[t].row} : rows'[o] = rows[o]
    /\ DOMAIN rows' = 1..(Len(rows) + Len(new)) /\ Len(rows) \in Nat /\ Rows = 1..Len(rows)
    /\ \A o \in DOMAIN rows' \ Rows : o - Len(rows) \in DOMAIN new /\ rows'[o] = new[o - Len(rows)]
    /\ rows'[msgs[t].row].type = row.type
    /\ \E m : Shifted(t, m) /\ m.todo = groups /\ m.pc = IF groups = <<>> THEN "sent" ELSE "made"

LEMMA MadeIs ==
    ASSUME Typed, NEW t \in Messages, Received(t), NEW row \in RowRecord, NEW new \in Seq(RowRecord),
           NEW groups \in Groups, Made(t, row, new, groups, 0)
    PROVE  Makes(t, row, new, groups)
<1>1. PICK r : r = msgs[t].row
    OBVIOUS
<1>2. /\ msgs[t] \in Message /\ msgs[t].kind = "extract" /\ r \in Rows /\ r \in DOMAIN rows
      /\ rows \in Seq(RowRecord) /\ rows[r] \in RowRecord /\ t \in DOMAIN msgs /\ AtWork(t)
      /\ msgs[t].pc = "queued"
    BY <1>1, Delivery DEF Rows, AtWork, Received, Taken, Waits, At
<1>3. PICK begun : begun = Started(t)[r]
    OBVIOUS
<1>4. begun \in RowRecord /\ begun.status = "IN_PROGRESS" /\ begun.runs = Up(rows[r].runs) /\ begun.runs \in Nat
    <2>1. begun \in RowRecord /\ begun.status = "IN_PROGRESS" /\ begun.runs = Up(rows[r].runs)
        BY <1>1, <1>2, <1>3, MarkIs DEF Started, SetStatus, Status
    <2> QED
        BY <2>1 DEF RowRecord
<1>5. PICK one : one = [row EXCEPT !.status = begun.status]
    OBVIOUS
<1>6. PICK two : two = [one EXCEPT !.runs = begun.runs]
    OBVIOUS
<1>7. one \in RowRecord /\ one.status = "IN_PROGRESS" /\ one.type = row.type
    BY <1>4, <1>5 DEF RowRecord
<1>8. two \in RowRecord /\ two.status = "IN_PROGRESS" /\ two.runs = Up(rows[r].runs) /\ two.type = row.type
    BY <1>4, <1>6, <1>7 DEF RowRecord
<1>9. PICK table : table = [rows EXCEPT ![r] = two]
    OBVIOUS
<1>10. /\ table \in Seq(RowRecord) /\ DOMAIN table = Rows /\ table[r] = two /\ Len(table) = Len(rows)
       /\ Len(rows) \in Nat /\ Rows = 1..Len(rows) /\ \A o \in Rows \ {r} : table[o] = rows[o]
    BY <1>2, <1>8, <1>9 DEF Rows
<1>11. rows' = table \o new
    BY <1>1, <1>3, <1>5, <1>6, <1>9 DEF Made
<1>12. /\ DOMAIN rows' = 1..(Len(rows) + Len(new)) /\ Len(new) \in Nat
       /\ \A o \in Rows : rows'[o] = table[o]
       /\ \A o \in (Len(rows) + 1)..(Len(rows) + Len(new)) : rows'[o] = new[o - Len(rows)]
       /\ DOMAIN new = 1..Len(new)
    <2>1. PICK all : all = table \o new
        OBVIOUS
    <2>2. table \in Seq(RowRecord) /\ new \in Seq(RowRecord)
        BY <1>10
    <2>3. /\ DOMAIN all = 1..(Len(table) + Len(new)) /\ Len(new) \in Nat /\ DOMAIN new = 1..Len(new)
          /\ \A i \in 1..Len(table) : all[i] = table[i]
        BY ONLY <2>1, <2>2, Joined
    <2>4. \A i \in (Len(table) + 1)..(Len(table) + Len(new)) : all[i] = new[i - Len(table)]
        BY ONLY <2>1, <2>2, Joined
    <2>5. rows' = all
        BY <1>11, <2>1
    <2> QED
        BY <1>10, <2>3, <2>4, <2>5
<1>13. ASSUME NEW o \in DOMAIN rows' \ Rows
       PROVE  o - Len(rows) \in DOMAIN new /\ rows'[o] = new[o - Len(rows)]
    BY <1>10, <1>12
<1>14. \A o \in Rows \ {r} : rows'[o] = rows[o]
    BY <1>10, <1>12
<1>15. rows'[r] = two
    BY <1>2, <1>10, <1>12
<1>16. Turns(t, FALSE, "sent")
    BY <1>1, <1>2, <1>8, <1>15 DEF Turns
<1>17. \E m : Shifted(t, m) /\ m.todo = groups /\ m.pc = IF groups = <<>> THEN "sent" ELSE "made"
    <2>1. PICK place : place = IF groups = <<>> THEN "sent" ELSE "made"
        OBVIOUS
    <2>2. PICK m1 : m1 = [msgs[t] EXCEPT !.pc = place]
        OBVIOUS
    <2>3. PICK m2 : m2 = [m1 EXCEPT !.todo = groups]
        OBVIOUS
    <2>4. PICK m : m = [m2 EXCEPT !.value = 0]
        OBVIOUS
    <2>5. m1 \in Message /\ Same(m1, msgs[t]) /\ m1.pc = place
        BY <1>2, <2>1, <2>2 DEF Message, MessageWith, Places, Same
    <2>6. m2 \in Message /\ Same(m2, msgs[t]) /\ m2.pc = place /\ m2.todo = groups
        BY <2>3, <2>5 DEF Message, MessageWith, Same
    <2>7. m \in Message /\ Same(m, msgs[t]) /\ m.pc = place /\ m.todo = groups
        BY <2>4, <2>6 DEF Message, MessageWith, Same
    <2>8. msgs' = [msgs EXCEPT ![t] = m]
        BY <1>2, <2>1, <2>2, <2>3, <2>4 DEF Made
    <2>9. Shifted(t, m)
        BY <2>7, <2>8 DEF Shifted, Made
    <2> QED
        BY <2>1, <2>7, <2>9
<1> QED
    BY <1>1, <1>2, <1>8, <1>10, <1>12, <1>13, <1>14, <1>15, <1>16, <1>17 DEF Makes

LEMMA NothingMadeWorks ==
    ASSUME Typed, NEW t \in Messages, Received(t), NEW row \in RowRecord, Made(t, row, <<>>, <<>>, 0)
    PROVE  Works(t)
<1>1. PICK new, groups : new = <<>> /\ groups = <<>>
    OBVIOUS
<1>2. new \in Seq(RowRecord) /\ groups \in Groups /\ Made(t, row, new, groups, 0) /\ Len(new) = 0
    BY <1>1, MessageTypes
<1>3. Makes(t, row, new, groups)
    BY <1>2, MadeIs
<1>4. OnlyOwn(t)
    BY <1>2, <1>3 DEF OnlyOwn, Makes
<1>5. PICK m : Shifted(t, m) /\ m.pc = "sent"
    BY <1>1, <1>3 DEF Makes
<1>6. AtWork(t) /\ Turns(t, FALSE, m.pc)
    BY <1>3, <1>5 DEF Makes
<1>7. Shifts(t)
    BY <1>5, <1>6 DEF Shifts
<1> QED
    BY <1>4, <1>6, <1>7 DEF Works

LEMMA WorksPages ==
    ASSUME Typed, PagesOnce, NEW t \in Messages, Works(t), rows' \in Seq(RowRecord), Grows(rows, rows')
    PROVE  PagesOnce'
<1>1. /\ OneEach(rows') /\ OthersUnmade(t)
      /\ \A specs : Unmade(specs, rows) => Unmade(specs, rows')
    BY SameRowsOnce DEF Works, OnlyOwn
<1>2. rows \in Seq(RowRecord) /\ chords \in Seq(Chord) /\ IsQueue(msgs, chords, rows) /\ msgs \in Seq(Message)
    BY DEF Typed, IsTable, IsQueue
<1>3. \A c \in DOMAIN chords : OffPages(chords[c].body, rows')
    BY <1>2, OffPagesLater DEF IsQueue, PagesOnce
<1>4. OffPages(<<>>, rows')
    BY DEF OffPages
<1>5. ASSUME NEW known, NEW groups, Leaving(t, known, groups), Closes(t, groups)
      PROVE  PagesOnce'
    <2>1. OffPages(groups, rows')
        BY <1>3, <1>4, <1>5 DEF Closes
    <2>2. \A c \in DOMAIN known : OffPages(known[c].body, rows')
        BY <1>3, <1>4, <1>5 DEF Leaving
    <2>3. known \in Seq(Chord) /\ Opened(Acked(t), known, groups, msgs', chords')
        BY <1>5 DEF Leaving
    <2> QED
        BY <1>1, <2>1, <2>2, <2>3, PagesSent
<1>6. CASE Quits(t)
    BY <1>5, <1>6 DEF Quits
<1>7. CASE Breaks(t)
    BY <1>5, <1>7 DEF Breaks, Closes
<1>8. CASE Shifts(t)
    <2>1. PICK m : /\ Shifted(t, m) /\ m.pc \in {"queued", "stored", "sent"}
                   /\ m.pc = "stored" => OnPage(m, rows) /\ Unmade(m.todo, rows)
        BY <1>8 DEF Shifts
    <2>2. m \in Message /\ Same(m, msgs[t]) /\ msgs' = [msgs EXCEPT ![t] = m] /\ chords' = chords
        BY <2>1 DEF Shifted
    <2>3. Steady(m, rows')
        <3>1. ~m.next
            BY <2>2 DEF Same, PagesOnce, Steady
        <3>2. m.pc = "stored" => OnPage(m, rows') /\ Unmade(m.todo, rows')
            <4>1. m.row \in 0..Len(rows)
                BY <1>2, <2>2 DEF Same, IsQueue, MessageFits, Refers, Messages
            <4> QED
                BY <1>1, <1>2, <2>1, <4>1, OnPageLater
        <3> QED
            BY <2>1, <3>1, <3>2 DEF Steady
    <2>4. msgs' \in Seq(Message)
        BY <1>2, <2>2 DEF Messages
    <2>5. Opened(msgs', chords, <<>>, msgs', chords')
        BY <2>2, <2>4, NothingOpens
    <2> QED
        BY <1>1, <1>2, <1>3, <1>4, <2>2, <2>3, <2>5, PagesSent
<1> QED
    BY <1>6, <1>7, <1>8 DEF Works

LEMMA DispatchIs ==
    ASSUME Typed, NEW t \in Messages, Dispatch(t)
    PROVE  /\ AtWork(t) /\ msgs[t].pc = "made" /\ msgs[t].todo \in Groups /\ GroupsFit(msgs[t].todo, rows)
           /\ \E m \in Message : Same(m, msgs[t]) /\ m.pc = "sent"
                    /\ Opened([msgs EXCEPT ![t] = m], chords, msgs[t].todo, msgs', chords')
<1>1. /\ msgs[t] \in Message /\ msgs[t].pc = "made" /\ MessageFits(msgs[t], rows) /\ msgs[t].kind = "extract"
      /\ msgs[t].row \in Rows /\ msgs \in Seq(Message) /\ chords \in Seq(Chord) /\ t \in DOMAIN msgs
    BY Delivery DEF Dispatch, At, IsQueue
<1>2. msgs[t].todo \in Groups /\ GroupsFit(msgs[t].todo, rows)
    BY <1>1 DEF MessageFits
<1>3. PICK m : m = [msgs[t] EXCEPT !.pc = "sent"]
    OBVIOUS
<1>4. m \in Message /\ Same(m, msgs[t]) /\ m.pc = "sent"
    BY <1>1, <1>3 DEF Message, MessageWith, Places, Same
<1>5. PICK queue : queue = [msgs EXCEPT ![t] = m]
    OBVIOUS
<1>6. queue \in Seq(Message) /\ queue = Move(t, "sent")
    BY <1>1, <1>3, <1>4, <1>5 DEF Move
<1>7. Opened(queue, chords, msgs[t].todo, msgs', chords')
    BY <1>1, <1>2, <1>6, PublishOpens DEF Dispatch, Publish
<1> QED
    BY <1>1, <1>2, <1>4, <1>5, <1>7 DEF AtWork

LEMMA DispatchPages ==
    ASSUME Typed, PagesOnce, NEW t \in Messages, Dispatch(t), rows' \in Seq(RowRecord), Grows(rows, rows')
    PROVE  PagesOnce'
<1>1. rows' = rows /\ DOMAIN rows' = Rows
    BY DEF Dispatch, Rows
<1>2. OneEach(rows') /\ OthersUnmade(t)
    BY <1>1, SameRowsOnce
<1>3. PICK m \in Message : /\ Same(m, msgs[t]) /\ m.pc = "sent"
                           /\ Opened([msgs EXCEPT ![t] = m], chords, msgs[t].todo, msgs', chords')
    BY DispatchIs
<1>4. OffPages(msgs[t].todo, rows')
    BY <1>1, DispatchIs DEF PagesOnce, Steady
<1>5. \A c \in DOMAIN chords : OffPages(chords[c].body, rows')
    BY <1>1 DEF PagesOnce
<1>6. Steady(m, rows')
    BY <1>3 DEF PagesOnce, Steady, Same
<1>7. chords \in Seq(Chord)
    BY DEF Typed, IsQueue
<1> QED
    BY <1>2, <1>3, <1>4, <1>5, <1>6, <1>7, PagesSent

\* A task other than an extraction ends, and publishes more of its kind.
Others(more) == \A j \in DOMAIN more : more[j].kind # "extract" /\ ~more[j].next /\ more[j].pc = "queued"
Hands(t, more) == more \in Seq(Message) /\ msgs' = Acked(t) \o more /\ UNCHANGED chords /\ Others(more)

LEMMA HandsOpens ==
    ASSUME NEW queue, NEW more \in Seq(Message)
    PROVE  Opened(queue, chords, <<more>>, queue \o more, chords)
<1>1. DOMAIN <<more>> = {1} /\ <<more>>[1] = more /\ 1 \in Nat /\ <<>> \in Groups /\ DOMAIN <<>> = {}
    BY MessageTypes
<1>2. \A i \in DOMAIN <<more>> : ~(i < 1)
    BY <1>1
<1>3. Alike(more, <<more>>[1])
    BY <1>1 DEF Alike
<1> QED
    BY <1>1, <1>2, <1>3 DEF Opened

LEMMA HandsPages ==
    ASSUME Typed, PagesOnce, NEW t \in Messages, NEW more, Hands(t, more),
           rows' \in Seq(RowRecord), Grows(rows, rows'), DOMAIN rows' = Rows
    PROVE  PagesOnce'
<1>1. OneEach(rows') /\ OthersUnmade(t)
    BY SameRowsOnce
<1>2. rows \in Seq(RowRecord) /\ chords \in Seq(Chord) /\ IsQueue(msgs, chords, rows)
    BY DEF Typed, IsTable, IsQueue
<1>3. \A c \in DOMAIN chords : OffPages(chords[c].body, rows')
    BY <1>2, OffPagesLater DEF IsQueue, PagesOnce
<1>4. more \in Seq(Message) /\ Opened(Acked(t), chords, <<more>>, msgs', chords')
    BY HandsOpens DEF Hands
<1>5. OffPages(<<more>>, rows')
    BY DEF OffPages, OffPage, OnPage, Hands, Others
<1> QED
    BY <1>1, <1>2, <1>3, <1>4, <1>5, PagesSent

\* A fetch that makes nothing.
LEMMA FetchWorks ==
    ASSUME Typed, NEW t \in Messages, NoData(t) \/ PdcFetch(t)
    PROVE  Works(t)
<1>1. Received(t)
    BY DEF NoData, PdcFetch
<1>2. RowOf(t) \in RowRecord
    BY <1>1, Delivery DEF RowOf
<1>3. Stored(t) \in RowRecord
    BY <1>1, StoredRow
<1>4. PICK row \in RowRecord : Made(t, row, <<>>, <<>>, 0)
    BY <1>2, <1>3 DEF NoData, PdcFetch
<1> QED
    BY <1>1, <1>4, NothingMadeWorks

\* A task that is no extraction ends, and publishes transforms; it may end details.
Passes(t) ==
    /\ msgs[t].kind # "extract" /\ DOMAIN rows' = Rows
    /\ \A o \in Rows : rows[o].type # "EXPOSURE_DETAIL" => rows'[o] = rows[o]
    /\ \E more : Hands(t, more)

LEMMA TransformsHand ==
    ASSUME NEW table \in Seq(RowRecord), NEW ids \in SUBSET (DOMAIN table),
           \A d \in ids : table[d].type \notin NotRead,
           NEW open, open = InOrder(ids), NEW more, more = [i \in DOMAIN open |-> Transform(open[i])]
    PROVE  more \in Seq(Message) /\ Others(more)
<1>1. more \in Seq(Plain)
    BY TransformsOfSet
<1>2. more \in Seq(Message)
    BY <1>1, MessageTypes
<1>3. Others(more)
    BY DEF Others, Transform, Extract
<1> QED
    BY <1>2, <1>3

LEMMA EndsPasses ==
    ASSUME Typed, NEW t \in Messages, msgs[t].kind # "extract", DOMAIN rows' = Rows,
           \A o \in Rows : rows[o].type # "EXPOSURE_DETAIL" => rows'[o] = rows[o],
           msgs' = Acked(t), UNCHANGED chords
    PROVE  Passes(t)
<1>1. msgs \in Seq(Message) /\ Acked(t) \in Seq(Message)
    BY AckedMessages DEF Typed, IsQueue
<1>2. PICK more : more = <<>>
    OBVIOUS
<1>3. more \in Seq(Message) /\ Acked(t) \o more = Acked(t) /\ DOMAIN more = {}
    BY <1>1, <1>2, MessageTypes
<1>4. Hands(t, more)
    BY <1>3 DEF Hands, Others
<1> QED
    BY <1>4 DEF Passes

LEMMA TriggerPasses ==
    ASSUME Typed, NEW t \in Messages, PdcTrigger(t)
    PROVE  Passes(t)
<1>1. PICK ids : ids = {d \in ended : rows[d].status = "SUCCESS" /\ ~Reads(d)}
    OBVIOUS
<1>2. PICK again : again = InOrder(ids)
    OBVIOUS
<1>3. PICK more : more = [i \in DOMAIN again |-> Transform(again[i])]
    OBVIOUS
<1>4. /\ msgs' = Acked(t) \o more /\ UNCHANGED <<rows, chords>>
      /\ msgs[t].kind = "trigger"
    BY <1>1, <1>2, <1>3 DEF PdcTrigger, At
<1>5. rows \in Seq(RowRecord) /\ ids \in SUBSET (DOMAIN rows) /\ \A d \in ids : rows[d].type \notin NotRead
    BY <1>1 DEF Typed, HasRead, Rows, IsTable
<1>6. more \in Seq(Message) /\ Others(more)
    BY <1>2, <1>3, <1>5, TransformsHand
<1>7. Hands(t, more)
    BY <1>4, <1>6 DEF Hands
<1> QED
    BY <1>4, <1>7 DEF Passes, Rows

LEMMA BatchPasses ==
    ASSUME Typed, NEW t \in Messages, PdcBatch(t)
    PROVE  Passes(t)
<1>1. PICK fetched : fetched = {d \in Listing(msgs[t].todo) : rows[d].status # "SUCCESS"}
    OBVIOUS
<1>2. PICK open : open = InOrder(fetched)
    OBVIOUS
<1>3. /\ msgs[t].kind = "batch" /\ UNCHANGED chords
      /\ \/ /\ rows' = [d \in Rows |-> IF d \notin fetched THEN rows[d]
                            ELSE [rows[d] EXCEPT !.status = "SUCCESS", !.content = world[rows[d].item].content]]
            /\ msgs' = Acked(t) \o [i \in DOMAIN open |-> Transform(open[i])]
         \/ /\ rows' = [d \in Rows |-> IF d \notin fetched THEN rows[d]
                            ELSE [rows[d] EXCEPT !.status = "FAILED"]]
            /\ msgs' = Acked(t)
    BY <1>1, <1>2 DEF PdcBatch, At
<1>4. rows \in Seq(RowRecord) /\ DOMAIN rows = Rows /\ Refers(msgs[t], rows)
    BY MessageOf DEF Rows
<1>5. fetched \in SUBSET Rows /\ \A d \in fetched : rows[d].type = "EXPOSURE_DETAIL"
    <2>1. PICK todo : todo = msgs[t].todo
        OBVIOUS
    <2>2. todo \in Seq(Details(rows))
        BY <1>3, <1>4, <2>1 DEF Refers
    <2>3. \A i \in DOMAIN todo : todo[i] \in Details(rows)
        BY <2>2
    <2>4. \A d \in fetched : d \in Details(rows)
        BY <1>1, <2>1, <2>3 DEF Listing
    <2> QED
        BY <1>4, <2>4 DEF Details
<1>6. DOMAIN rows' = Rows /\ \A o \in Rows : rows[o].type # "EXPOSURE_DETAIL" => rows'[o] = rows[o]
    <2>1. DOMAIN rows' = Rows /\ \A o \in Rows : o \notin fetched => rows'[o] = rows[o]
        BY <1>3
    <2> QED
        BY <1>5, <2>1
<1>7. CASE msgs' = Acked(t)
    BY <1>3, <1>6, <1>7, EndsPasses
<1>8. CASE msgs' = Acked(t) \o [i \in DOMAIN open |-> Transform(open[i])]
    <2>1. PICK more : more = [i \in DOMAIN open |-> Transform(open[i])]
        OBVIOUS
    <2>2. \A d \in fetched : rows[d].type \notin NotRead
        BY <1>5 DEF NotRead
    <2>3. more \in Seq(Message) /\ Others(more)
        BY <1>2, <1>4, <1>5, <2>1, <2>2, TransformsHand
    <2>4. Hands(t, more)
        BY <1>3, <1>8, <2>1, <2>3 DEF Hands
    <2> QED
        BY <1>3, <1>6, <2>4 DEF Passes
<1> QED
    BY <1>3, <1>7, <1>8

LEMMA TransformPasses ==
    ASSUME Typed, NEW t \in Messages, NEW read, RunTransform(t, read)
    PROVE  Passes(t)
<1>1. /\ msgs[t].kind = "transform" /\ msgs' = Acked(t) /\ UNCHANGED <<rows, chords>>
    BY DEF RunTransform, At
<1> QED
    BY <1>1, EndsPasses DEF Rows

LEMMA PassesPages ==
    ASSUME Typed, PagesOnce, NEW t \in Messages, Passes(t), rows' \in Seq(RowRecord), Grows(rows, rows')
    PROVE  PagesOnce'
BY HandsPages DEF Passes

-----------------------------------------------------------------------------
(* New rows: what is made was missing.                                       *)

\* The rows of a later table that an earlier one has not are those of specifications, or
\* are no children.
AddsRows(specs, table, later) ==
    \A o \in DOMAIN later \ DOMAIN table :
        \/ later[o].type \notin PdcChildTypes
        \/ LET i == o - Len(table)
           IN /\ i \in DOMAIN specs /\ later[o].type = specs[i].type
              /\ later[o].item = specs[i].item /\ later[o].parent = specs[i].parent

LEMMA OneEachMore ==
    ASSUME NEW table \in Seq(RowRecord), NEW later \in Seq(RowRecord), Grows(table, later), OneEach(table),
           NEW specs \in Seq(SpecRecord), Unmade(specs, table), AddsRows(specs, table, later)
    PROVE  OneEach(later)
<1> SUFFICES ASSUME NEW c \in DOMAIN later, NEW d \in DOMAIN later, Twins(later[c], later[d]), c # d
             PROVE  FALSE
    BY DEF OneEach
<1>1. later[c].type \in PdcChildTypes /\ later[d].type \in PdcChildTypes
    BY DEF Twins
<1>2. ASSUME NEW a \in DOMAIN later, NEW b \in DOMAIN later, Twins(later[a], later[b]),
             a \in DOMAIN table, b \notin DOMAIN table
      PROVE  FALSE
    <2>1. PICK i \in DOMAIN specs : /\ later[b].type = specs[i].type /\ later[b].item = specs[i].item
                                    /\ later[b].parent = specs[i].parent
        BY <1>2 DEF AddsRows, Twins
    <2>2. a \in Existing(table, specs[i].parent, specs[i].type, specs[i].item)
        BY <1>2, <2>1 DEF Existing, Twins, Grows
    <2> QED
        BY <2>2 DEF Unmade
<1>3. CASE c \in DOMAIN table /\ d \in DOMAIN table
    BY <1>3 DEF OneEach, Twins, Grows
<1>4. CASE c \notin DOMAIN table /\ d \notin DOMAIN table
    <2>1. PICK i, j : i = c - Len(table) /\ j = d - Len(table)
        OBVIOUS
    <2>2. /\ i \in DOMAIN specs /\ later[c].type = specs[i].type
          /\ later[c].item = specs[i].item /\ later[c].parent = specs[i].parent
        BY <1>1, <1>4, <2>1 DEF AddsRows
    <2>3. /\ j \in DOMAIN specs /\ later[d].type = specs[j].type
          /\ later[d].item = specs[j].item /\ later[d].parent = specs[j].parent
        BY <1>1, <1>4, <2>1 DEF AddsRows
    <2>4. specs[i] \in SpecRecord /\ specs[j] \in SpecRecord
        BY <2>2, <2>3
    <2>5. specs[i].type = specs[j].type /\ specs[i].item = specs[j].item /\ specs[i].parent = specs[j].parent
        BY <2>2, <2>3 DEF Twins
    <2>6. specs[i] = specs[j]
        BY <2>4, <2>5 DEF SpecRecord
    <2>7. i = j
        BY <2>2, <2>3, <2>6 DEF Unmade
    <2>8. c \in Nat /\ d \in Nat /\ Len(table) \in Nat
        OBVIOUS
    <2> QED
        BY <2>1, <2>7, <2>8
<1>5. Twins(later[d], later[c])
    BY DEF Twins
<1> QED
    BY <1>2, <1>3, <1>4, <1>5

\* Only the page of a message gets polygons and lists, so that other pages miss what they did.
LEMMA OthersMiss ==
    ASSUME Typed, PagesOnce, NEW t \in Messages, msgs[t].kind = "extract",
           rows' \in Seq(RowRecord), Grows(rows, rows'),
           \A o \in DOMAIN rows' \ Rows : rows'[o].type \in {"POLYGON", "EXPOSURE_LIST"} => rows'[o].parent = msgs[t].row
    PROVE  OthersUnmade(t)
<1> SUFFICES ASSUME NEW s \in Messages \ {t}, msgs[s].pc = "stored"
             PROVE  Unmade(msgs[s].todo, rows')
    BY DEF OthersUnmade
<1>1. PICK specs : specs = msgs[s].todo
    OBVIOUS
<1>2. OnPage(msgs[s], rows) /\ Unmade(specs, rows)
    BY <1>1 DEF PagesOnce, Steady
<1>3. SpecsFit(specs, msgs[s].row, rows)
    BY <1>1, <1>2, MessageOf DEF MessageFits, OnPage
<1>4. msgs[t].row # msgs[s].row
    BY <1>2 DEF PagesOnce, PageOnce, OnRow
<1>5. ASSUME NEW i \in DOMAIN specs
      PROVE  Existing(rows', specs[i].parent, specs[i].type, specs[i].item) = {}
    <2>1. specs[i].parent = msgs[s].row /\ specs[i].type \in {"POLYGON", "EXPOSURE_LIST"}
        BY <1>3 DEF SpecsFit
    <2>2. SUFFICES ASSUME NEW c \in Existing(rows', specs[i].parent, specs[i].type, specs[i].item)
                   PROVE  FALSE
        OBVIOUS
    <2>3. /\ c \in DOMAIN rows' /\ rows'[c].parent = specs[i].parent
          /\ rows'[c].type = specs[i].type /\ rows'[c].item = specs[i].item
        BY DEF Existing
    <2>4. CASE c \in Rows
        <3>1. c \in Existing(rows, specs[i].parent, specs[i].type, specs[i].item)
            BY <2>3, <2>4 DEF Existing, Grows, Rows
        <3> QED
            BY <1>2, <3>1 DEF Unmade
    <2>5. CASE c \notin Rows
        BY <1>4, <2>1, <2>3, <2>5
    <2> QED
        BY <2>4, <2>5
<1> QED
    BY <1>1, <1>2, <1>5 DEF Unmade

\* The rows of a page that is made.
PageAdds(specs, next) ==
    /\ DOMAIN rows' = 1..(Len(rows) + Len(specs) + Len(next)) /\ Rows = 1..Len(rows)
    /\ Len(rows) \in Nat /\ Len(specs) \in Nat /\ Len(next) \in {0, 1}
    /\ \A o \in Rows : rows'[o] = rows[o]
    /\ \A o \in (Len(rows) + 1)..(Len(rows) + Len(specs)) :
            LET i == o - Len(rows)
            IN i \in DOMAIN specs /\ rows'[o] = Row(specs[i].type, specs[i].item, specs[i].parent)
    /\ \A o \in DOMAIN rows' : o > Len(rows) + Len(specs) => rows'[o].type = "HAZARD" /\ rows'[o].parent = 0

LEMMA PageAddsRows ==
    ASSUME Typed, NEW t \in Messages, NEW specs \in Seq(SpecRecord), NEW next \in Seq(RowRecord),
           Len(next) \in {0, 1}, \A i \in DOMAIN next : next[i].type = "HAZARD" /\ next[i].parent = 0,
           rows' = (rows \o NewRows(specs)) \o next
    PROVE  PageAdds(specs, next)
<1>1. rows \in Seq(RowRecord) /\ Rows = 1..Len(rows) /\ Len(rows) \in Nat
    BY DEF Typed, IsTable, Rows
<1>2. PICK made : made = NewRows(specs)
    OBVIOUS
<1>3. /\ Len(specs) \in Nat /\ DOMAIN specs = 1..Len(specs)
      /\ \A i \in DOMAIN specs : specs[i].type \in RowTypes /\ specs[i].item \in Items /\ specs[i].parent \in Nat
    <2>1. \A i \in DOMAIN specs : specs[i] \in SpecRecord
        OBVIOUS
    <2> QED
        BY <2>1 DEF SpecRecord
<1>4. made \in Seq(RowRecord) /\ Len(made) = Len(specs) /\ DOMAIN made = DOMAIN specs
    BY <1>2, <1>3, RowsFromSpecs
<1>5. \A i \in DOMAIN specs : made[i] = Row(specs[i].type, specs[i].item, specs[i].parent)
    BY <1>2 DEF NewRows
<1>6. PICK one : one = rows \o made
    OBVIOUS
<1>7. /\ one \in Seq(RowRecord) /\ DOMAIN one = 1..(Len(rows) + Len(made)) /\ Len(one) = Len(rows) + Len(made)
      /\ \A i \in 1..Len(rows) : one[i] = rows[i]
      /\ \A i \in (Len(rows) + 1)..(Len(rows) + Len(made)) : one[i] = made[i - Len(rows)]
    <2>1. rows \in Seq(RowRecord) /\ made \in Seq(RowRecord)
        BY <1>1, <1>4
    <2>2. one \in Seq(RowRecord) /\ Len(one) = Len(rows) + Len(made) /\ DOMAIN one = 1..(Len(rows) + Len(made))
        BY ONLY <1>6, <2>1
    <2>3. /\ \A i \in 1..Len(rows) : one[i] = rows[i]
          /\ \A i \in (Len(rows) + 1)..(Len(rows) + Len(made)) : one[i] = made[i - Len(rows)]
        BY ONLY <1>6, <2>1, Joined
    <2> QED
        BY <2>2, <2>3
<1>8. PICK all : all = one \o next
    OBVIOUS
<1>9. /\ DOMAIN all = 1..(Len(one) + Len(next)) /\ Len(next) \in Nat /\ DOMAIN next = 1..Len(next)
      /\ \A i \in 1..Len(one) : all[i] = one[i]
      /\ \A i \in (Len(one) + 1)..(Len(one) + Len(next)) : all[i] = next[i - Len(one)]
    <2>1. one \in Seq(RowRecord) /\ next \in Seq(RowRecord)
        BY <1>7
    <2>2. /\ DOMAIN all = 1..(Len(one) + Len(next)) /\ Len(next) \in Nat /\ DOMAIN next = 1..Len(next)
          /\ \A i \in 1..Len(one) : all[i] = one[i]
        BY ONLY <1>8, <2>1, Joined
    <2>3. \A i \in (Len(one) + 1)..(Len(one) + Len(next)) : all[i] = next[i - Len(one)]
        BY ONLY <1>8, <2>1, Joined
    <2> QED
        BY <2>2, <2>3
<1>10. rows' = all
    BY <1>2, <1>6, <1>8
<1>11. /\ DOMAIN rows' = 1..(Len(rows) + Len(specs) + Len(next))
       /\ \A o \in 1..Len(rows) : rows'[o] = rows[o]
    BY <1>1, <1>3, <1>4, <1>7, <1>9, <1>10
<1>12. ASSUME NEW o \in (Len(rows) + 1)..(Len(rows) + Len(specs))
       PROVE  LET i == o - Len(rows)
              IN i \in DOMAIN specs /\ rows'[o] = Row(specs[i].type, specs[i].item, specs[i].parent)
    <2>1. PICK i : i = o - Len(rows)
        OBVIOUS
    <2>2. i \in DOMAIN specs /\ o \in 1..Len(one)
        BY <1>1, <1>3, <1>4, <1>7, <2>1
    <2>3. rows'[o] = made[i]
        BY <1>4, <1>7, <1>9, <1>10, <2>1, <2>2
    <2> QED
        BY <1>5, <2>1, <2>2, <2>3
<1>13. ASSUME NEW o \in DOMAIN rows', o > Len(rows) + Len(specs)
       PROVE  rows'[o].type = "HAZARD" /\ rows'[o].parent = 0
    <2>1. o \in (Len(one) + 1)..(Len(one) + Len(next)) /\ o - Len(one) \in DOMAIN next
        BY <1>1, <1>3, <1>4, <1>7, <1>9, <1>10, <1>13
    <2> QED
        BY <1>9, <1>10, <2>1
<1> QED
    BY <1>1, <1>3, <1>11, <1>12, <1>13 DEF PageAdds

\* Those of the parts of a page that are run are rows of its parts.
LEMMA PartsOffPages ==
    ASSUME NEW table, NEW r, NEW hazards, NEW polygons, NEW lists,
           OpensParts(polygons, table, r, "POLYGON", hazards), OpensParts(lists, table, r, "EXPOSURE_LIST", hazards)
    PROVE  OffPages(PageChord(polygons, lists), table)
<1>1. ASSUME NEW g, NEW type \in {"POLYGON", "EXPOSURE_LIST"}, OpensParts(g, table, r, type, hazards),
             NEW j \in DOMAIN g
      PROVE  OffPage(g[j], table)
    <2>1. PICK c : g[j] = Extract(c, 0) /\ table[c].type = type
        BY <1>1 DEF OpensParts, Existing
    <2> QED
        BY <1>1, <2>1 DEF OffPage, OnPage, Extract
<1>2. (\A j \in DOMAIN polygons : OffPage(polygons[j], table)) /\ (\A j \in DOMAIN lists : OffPage(lists[j], table))
    BY <1>1
<1>3. PICK groups : groups = PageChord(polygons, lists)
    OBVIOUS
<1>4. groups = <<>> \/ (DOMAIN groups = 1..2 /\ groups[1] = polygons /\ groups[2] = lists)
    BY <1>3 DEF PageChord
<1>5. \A i \in 1..2 : i = 1 \/ i = 2
    OBVIOUS
<1>6. OffPages(groups, table)
    BY <1>2, <1>4, <1>5 DEF OffPages
<1> QED
    BY <1>3, <1>6

LEMMA PageMadePages ==
    ASSUME Typed, Pdc, PagesOnce, NEW t \in Messages, PageMakes(t), rows' \in Seq(RowRecord), Grows(rows, rows')
    PROVE  PagesOnce'
<1>1. PICK r, specs : r = msgs[t].row /\ specs = msgs[t].todo
    OBVIOUS
<1>2. PICK next \in Seq(RowRecord), m \in Message, polygons \in Seq(Plain), lists \in Seq(Plain) :
        /\ msgs[t].kind = "extract" /\ msgs[t].pc = "stored" /\ r \in Rows /\ rows[r].type = "HAZARD"
        /\ Len(next) \in {0, 1} /\ \A i \in DOMAIN next : next[i].type = "HAZARD" /\ next[i].parent = 0
        /\ rows' = (rows \o NewRows(specs)) \o next
        /\ m.kind = "extract" /\ m.row = r /\ m.chord = msgs[t].chord /\ m.next = msgs[t].next
        /\ m.pc = (IF m.todo = <<>> THEN "sent" ELSE "made") /\ m.todo = PageChord(polygons, lists)
        /\ OpensParts(polygons, rows', r, "POLYGON", Hazards[rows[r].item])
        /\ OpensParts(lists, rows', r, "EXPOSURE_LIST", Hazards[rows[r].item])
        /\ msgs' = [msgs EXCEPT ![t] = m] \o [i \in DOMAIN next |-> Extract(Len(rows'), 0)]
        /\ UNCHANGED <<chords, spent>>
    BY <1>1 DEF PageMakes
<1>3. /\ Unmade(specs, rows) /\ SpecsFit(specs, r, rows) /\ specs \in Seq(SpecRecord)
      /\ rows \in Seq(RowRecord) /\ msgs \in Seq(Message) /\ IsQueue(msgs, chords, rows)
    <2>1. Unmade(specs, rows)
        BY <1>1, <1>2 DEF PagesOnce, Steady
    <2>2. SpecsFit(specs, r, rows)
        BY <1>1, <1>2, MessageOf DEF MessageFits
    <2> QED
        BY <2>1, <2>2, MessageOf DEF SpecsFit, IsQueue
<1>4. PageAdds(specs, next)
    BY <1>2, <1>3, PageAddsRows
<1>5. \A i \in DOMAIN specs : specs[i].parent = r /\ specs[i].type \in {"POLYGON", "EXPOSURE_LIST"}
    BY <1>3 DEF SpecsFit
<1>6. ASSUME NEW o \in DOMAIN rows' \ Rows
      PROVE  \/ rows'[o].type = "HAZARD"
             \/ LET i == o - Len(rows)
                IN /\ i \in DOMAIN specs /\ rows'[o].type = specs[i].type
                   /\ rows'[o].item = specs[i].item /\ rows'[o].parent = specs[i].parent
    <2>1. CASE o > Len(rows) + Len(specs)
        BY <1>4, <2>1 DEF PageAdds
    <2>2. CASE ~(o > Len(rows) + Len(specs))
        <3>1. o \in (Len(rows) + 1)..(Len(rows) + Len(specs))
            BY <1>4, <2>2 DEF PageAdds
        <3>2. PICK i : i = o - Len(rows)
            OBVIOUS
        <3>3. i \in DOMAIN specs /\ rows'[o] = Row(specs[i].type, specs[i].item, specs[i].parent)
            BY <1>4, <3>1, <3>2 DEF PageAdds
        <3> QED
            BY <3>2, <3>3 DEF Row
    <2> QED
        BY <2>1, <2>2
<1>7. OneEach(rows')
    <2>1. AddsRows(specs, rows, rows')
        BY <1>6 DEF AddsRows, Rows, PdcChildTypes
    <2>2. OneEach(rows)
        BY DEF PagesOnce
    <2> QED
        BY <1>3, <2>1, <2>2, OneEachMore
<1>8. OthersUnmade(t)
    <2>1. \A o \in DOMAIN rows' \ Rows : rows'[o].type \in {"POLYGON", "EXPOSURE_LIST"} => rows'[o].parent = msgs[t].row
        BY <1>1, <1>5, <1>6
    <2> QED
        BY <1>2, <2>1, OthersMiss
<1>9. PICK more : more = [i \in DOMAIN next |-> Extract(Len(rows'), 0)]
    OBVIOUS
<1>10. more \in Seq(Message) /\ DOMAIN more = DOMAIN next /\ \A j \in DOMAIN more : more[j] = Extract(Len(rows'), 0)
    <2>1. PICK e : e = Extract(Len(rows'), 0)
        OBVIOUS
    <2>2. Len(rows') \in 0..Len(rows') /\ 0 \in 0..Len(rows') /\ Len(rows') \in Nat
        OBVIOUS
    <2>3. e \in Message
        BY <2>1, <2>2, ExtractFresh, MessageTypes
    <2>4. more \in [1..Len(next) -> Message] /\ Len(next) \in Nat
        BY <1>9, <2>1, <2>3
    <2> QED
        BY <1>9, <2>4
<1>11. Same(m, msgs[t])
    BY <1>1, <1>2 DEF Same
<1>12. MovesOn(t, m, more)
    BY <1>2, <1>9 DEF MovesOn
<1>13. PICK from : \E k \in Nat : /\ Carries(t, from) /\ News(from, more, k)
                                  /\ t \in DOMAIN msgs' /\ from[t] = t /\ msgs'[t] = m
                                  /\ \A i \in DOMAIN msgs' : from[i] = t => i = t
    BY <1>3, <1>10, <1>11, <1>12, MovedCarries
<1>14. FitNews(from)
    <2>1. PICK k \in Nat : News(from, more, k)
        BY <1>13
    <2>2. ASSUME NEW i \in DOMAIN msgs', from[i] = 0
          PROVE  i - k \in DOMAIN more /\ msgs'[i] = Extract(Len(rows'), 0) /\ Len(next) = 1 /\ i - k = 1
        <3>1. i - k \in DOMAIN more /\ msgs'[i] = more[i - k]
            BY <2>1, <2>2 DEF News
        <3>2. DOMAIN more = 1..Len(next) /\ (Len(next) = 0 \/ Len(next) = 1)
            BY <1>2, <1>10
        <3>3. i - k \in 1..Len(next)
            BY <3>1, <3>2
        <3>4. Len(next) = 1 /\ i - k = 1
            <4>1. \A x \in 1..1 : x = 1
                OBVIOUS
            <4>2. \A x \in 1..0 : FALSE
                OBVIOUS
            <4> QED
                BY <3>2, <3>3, <4>1, <4>2
        <3> QED
            BY <1>10, <3>1, <3>4
    <2>3. ASSUME NEW i \in DOMAIN msgs', from[i] = 0
          PROVE  /\ ~msgs'[i].next /\ msgs'[i].pc = "queued" /\ msgs'[i].row \notin Rows
        <3>1. msgs'[i] = Extract(Len(rows'), 0) /\ Len(next) = 1
            BY <2>2, <2>3
        <3>2. Len(rows') = Len(rows) + Len(specs) + 1 /\ Rows = 1..Len(rows) /\ Len(rows) \in Nat /\ Len(specs) \in Nat
            <4>1. PICK n : n = Len(rows')
                OBVIOUS
            <4>2. DOMAIN rows' = 1..(Len(rows) + Len(specs) + 1) /\ Rows = 1..Len(rows) /\ Len(rows) \in Nat /\ Len(specs) \in Nat
                BY <1>4, <3>1 DEF PageAdds
            <4>3. n \in Nat /\ DOMAIN rows' = 1..n
                BY <4>1
            <4>4. PICK size : size = Len(rows) + Len(specs) + 1
                OBVIOUS
            <4>5. size \in Nat /\ 1..n = 1..size
                BY <4>2, <4>3, <4>4
            <4>6. n = size
                BY <4>3, <4>5
            <4> QED
                BY <4>1, <4>2, <4>4, <4>6
        <3>3. Len(rows') \notin Rows
            BY <3>2
        <3> QED
            BY <3>1, <3>3 DEF Extract
    <2>4. ASSUME NEW i \in DOMAIN msgs', NEW j \in DOMAIN msgs', from[i] = 0, from[j] = 0
          PROVE  i = j
        <3>1. i - k = 1 /\ j - k = 1
            BY <2>2, <2>4
        <3>2. i \in Nat /\ j \in Nat
            <4>1. PICK moved : moved = [msgs EXCEPT ![t] = m]
                OBVIOUS
            <4>2. moved \in Seq(Message)
                BY <1>3, <4>1 DEF Messages
            <4>3. moved \o more \in Seq(Message)
                BY ONLY <1>10, <4>2
            <4>4. msgs' = moved \o more
                BY <1>2, <1>9, <4>1
            <4>5. msgs' \in Seq(Message)
                BY <4>3, <4>4
            <4> QED
                BY <4>5
        <3> QED
            BY <3>1, <3>2
    <2> QED
        BY <2>3, <2>4 DEF FitNews
<1>15. Steady(m, rows')
    <2>1. ~m.next
        BY <1>2 DEF PagesOnce, Steady
    <2>2. OffPages(m.todo, rows')
        BY <1>2, PartsOffPages
    <2>3. m.pc # "stored"
        BY <1>2
    <2> QED
        BY <2>1, <2>2, <2>3 DEF Steady
<1>16. \A i \in DOMAIN msgs' : from[i] = t => Steady(msgs'[i], rows')
    BY <1>13, <1>15
<1>17. \A c \in DOMAIN chords' : OffPages(chords'[c].body, rows')
    BY <1>2, <1>3, OffPagesLater DEF IsQueue, PagesOnce
<1> QED
    BY <1>7, <1>8, <1>13, <1>14, <1>16, <1>17, PagesKept

\* A list that makes the details it misses, and leaves a batch to publish.
ListMakes(t) ==
    \E row \in RowRecord, specs \in Seq(SpecRecord), groups \in Groups :
        /\ Makes(t, row, NewRows(specs), groups) /\ rows[msgs[t].row].type = "EXPOSURE_LIST"
        /\ Unmade(specs, rows) /\ \A i \in DOMAIN specs : specs[i].type = "EXPOSURE_DETAIL"
        /\ groups = <<>> \/ \E b : /\ b.kind = "batch" /\ ~b.next /\ b.pc = "queued"
                                   /\ groups = <<<<b>>>>

LEMMA ListMakesOf ==
    ASSUME Typed, Pdc, NEW t \in Messages, PdcList(t)
    PROVE  Works(t) \/ ListMakes(t)
<1>1. PICK r : r = msgs[t].row
    OBVIOUS
<1>2. /\ r \in DOMAIN rows /\ r \in Rows /\ rows \in Seq(RowRecord) /\ IsTable(rows) /\ rows[r] \in RowRecord
      /\ Received(t) /\ RowOf(t) = rows[r] /\ rows[r].type = "EXPOSURE_LIST" /\ r \in Nat /\ r # 0
    <2>1. Received(t) /\ RowOf(t) = rows[r] /\ rows[r].type = "EXPOSURE_LIST"
        BY <1>1 DEF PdcList, Handles, RowOf
    <2> QED
        BY <1>1, <2>1, Delivery DEF Rows
<1>3. PICK row \in {Stored(t), RowOf(t)} :
        IF row.content = 0 THEN Made(t, [row EXCEPT !.valid = "NO_DATA"], <<>>, <<>>, 0)
        ELSE PdcListMade(t, row)
    BY DEF PdcList
<1>4. row \in RowRecord /\ row.type = rows[r].type /\ row.item = rows[r].item
    <2>1. PICK stored : stored = Stored(t)
        OBVIOUS
    <2>2. stored \in RowRecord /\ stored.type = rows[r].type /\ stored.item = rows[r].item
        BY <1>1, <1>2, <2>1, StoredRow
    <2>3. row = stored \/ row = rows[r]
        BY <1>2, <2>1
    <2> QED
        BY <1>2, <2>2, <2>3
<1>5. CASE row.content = 0
    <2>1. PICK empty : empty = [row EXCEPT !.valid = "NO_DATA"]
        OBVIOUS
    <2>2. Made(t, empty, <<>>, <<>>, 0)
        BY <1>3, <1>5, <2>1
    <2>3. empty \in RowRecord
        BY <1>4, <2>1 DEF RowRecord
    <2> QED
        BY <1>2, <2>2, <2>3, NothingMadeWorks
<1>6. CASE row.content # 0
    <2>1. PICK parts : parts = [i \in DOMAIN Exposures[row.item] |->
                                Spec2("EXPOSURE_DETAIL", Exposures[row.item][i], r)]
        OBVIOUS
    <2>2. PICK specs : specs = Missing(parts)
        OBVIOUS
    <2>3. PICK made : made = NewRows(specs)
        OBVIOUS
    <2>4. PICK table : table = rows \o made
        OBVIOUS
    <2>5. PICK details : details = [i \in DOMAIN parts |-> Newest(Existing(table, r, "EXPOSURE_DETAIL", parts[i].item))]
        OBVIOUS
    <2>6. PICK groups : groups = IF \E i \in DOMAIN details : table[details[i]].status # "SUCCESS"
                                 THEN <<<<Batch(r, details)>>>> ELSE <<>>
        OBVIOUS
    <2>7. Made(t, row, made, groups, 0)
        <3>1. parts = DetailParts(r, row.item)
            BY <2>1 DEF DetailParts
        <3>2. groups = BatchOf(table, r, parts)
            BY <2>5, <2>6 DEF BatchOf
        <3>3. Made(t, row, made, BatchOf(rows \o made, r, parts), 0)
            BY <1>1, <1>3, <1>6, <2>2, <2>3, <3>1 DEF PdcListMade
        <3> QED
            BY <2>4, <3>2, <3>3
    <2>8. Exposures[row.item] \in Seq(Items)
        <3>1. PICK p \in Listing(Pages) : rows[r].item \in Listing(Hazards[p])
            BY <1>2 DEF IsTable, ItemFits
        <3> QED
            BY <1>4, <3>1, PdcAssumption
    <2>9. /\ parts \in Seq(SpecRecord)
          /\ \A i \in DOMAIN parts :
                parts[i].parent = r /\ parts[i].type = "EXPOSURE_DETAIL" /\ parts[i].item \in Items
        BY <1>2, <2>1, <2>8, ListParts
    <2>10. ListMade(r, parts, made, table)
        BY <1>2, <2>2, <2>3, <2>4, <2>9, ListRows
    <2>11. /\ made \in Seq(RowRecord) /\ table \in Seq(RowRecord) /\ Grows(table, table) /\ r \in DOMAIN table
           /\ \A p \in DOMAIN parts : Existing(table, r, "EXPOSURE_DETAIL", parts[p].item) # {}
        <3>1. /\ made \in Seq(RowRecord) /\ table \in Seq(RowRecord) /\ Grows(rows, table)
              /\ \A p \in DOMAIN parts : Existing(table, r, "EXPOSURE_DETAIL", parts[p].item) # {}
            BY <2>10 DEF ListMade
        <3>2. \A o \in DOMAIN table : table[o].attempts >= table[o].attempts
            <4>1. \A o \in DOMAIN table : table[o] \in RowRecord
                BY <3>1
            <4>2. \A o \in DOMAIN table : table[o].attempts \in Nat
                BY <4>1 DEF RowRecord
            <4> QED
                BY <4>2
        <3>3. Grows(table, table)
            BY <3>1, <3>2 DEF Grows
        <3>4. r \in DOMAIN table
            BY <1>2, <3>1 DEF Grows
        <3> QED
            BY <3>1, <3>3, <3>4
    <2>12. details \in Seq(Details(table))
        <3>1. parts \in Seq(SpecRecord)
            BY <2>9
        <3> QED
            BY ONLY <2>5, <2>11, <3>1, DetailsOfList
    <2>13. PICK b : b = Batch(r, details)
        OBVIOUS
    <2>14. b \in Plain
        BY <2>11, <2>12, <2>13, BatchFits
    <2>15. groups \in Groups /\ (groups = <<>> \/ groups = <<<<b>>>>)
        <3>1. <<b>> \in Seq(Plain)
            BY <2>14
        <3>2. <<<<b>>>> \in Groups /\ <<>> \in Groups
            BY <3>1, OneGroup, MessageTypes
        <3> QED
            BY <2>6, <2>13, <3>2
    <2>16. b.kind = "batch" /\ ~b.next /\ b.pc = "queued"
        BY <2>13 DEF Batch, Extract
    <2>17. Makes(t, row, made, groups)
        BY <1>2, <1>4, <2>7, <2>11, <2>15, MadeIs
    <2>18. /\ specs \in Seq(SpecRecord) /\ Unmade(specs, rows)
           /\ \A i \in DOMAIN specs : specs[i].type = "EXPOSURE_DETAIL"
        <3>1. AreMissing(specs, parts)
            BY <2>2, <2>9, MissingFits
        <3>2. \A i \in DOMAIN specs : \E p \in DOMAIN parts : specs[i] = parts[p]
            BY <3>1 DEF AreMissing
        <3>3. \A i \in DOMAIN specs : specs[i].type = "EXPOSURE_DETAIL"
            BY <2>9, <3>2
        <3>4. specs \in Seq(SpecRecord) /\ Unmade(specs, rows)
            BY <3>1 DEF AreMissing, Unmade
        <3> QED
            BY <3>3, <3>4
    <2>19. ListMakes(t)
        BY <1>1, <1>2, <1>4, <2>3, <2>15, <2>16, <2>17, <2>18 DEF ListMakes
    <2> QED
        BY <2>19
<1> QED
    BY <1>5, <1>6

\* The new rows of a list are details.
LEMMA ListRowsNew ==
    ASSUME NEW t, NEW row, NEW specs \in Seq(SpecRecord), NEW groups, Makes(t, row, NewRows(specs), groups)
    PROVE  \A o \in DOMAIN rows' \ Rows :
                LET i == o - Len(rows)
                IN i \in DOMAIN specs /\ rows'[o] = Row(specs[i].type, specs[i].item, specs[i].parent)
<1> SUFFICES ASSUME NEW o \in DOMAIN rows' \ Rows
             PROVE  LET i == o - Len(rows)
                    IN i \in DOMAIN specs /\ rows'[o] = Row(specs[i].type, specs[i].item, specs[i].parent)
    OBVIOUS
<1>1. PICK i, made : i = o - Len(rows) /\ made = NewRows(specs)
    OBVIOUS
<1>2. i \in DOMAIN made /\ rows'[o] = made[i]
    BY <1>1 DEF Makes
<1>3. i \in DOMAIN specs /\ made[i] = Row(specs[i].type, specs[i].item, specs[i].parent)
    BY <1>1, <1>2 DEF NewRows
<1> QED
    BY <1>1, <1>2, <1>3

LEMMA ListPages ==
    ASSUME Typed, PagesOnce, NEW t \in Messages, ListMakes(t), rows' \in Seq(RowRecord), Grows(rows, rows')
    PROVE  PagesOnce'
<1>1. PICK row \in RowRecord, specs \in Seq(SpecRecord), groups \in Groups :
        /\ Makes(t, row, NewRows(specs), groups) /\ rows[msgs[t].row].type = "EXPOSURE_LIST"
        /\ Unmade(specs, rows) /\ \A i \in DOMAIN specs : specs[i].type = "EXPOSURE_DETAIL"
        /\ groups = <<>> \/ \E b : /\ b.kind = "batch" /\ ~b.next /\ b.pc = "queued"
                                   /\ groups = <<<<b>>>>
    BY DEF ListMakes
<1>2. rows \in Seq(RowRecord) /\ msgs \in Seq(Message) /\ chords \in Seq(Chord) /\ IsQueue(msgs, chords, rows)
    BY DEF Typed, IsTable, IsQueue
<1>3. \A o \in DOMAIN rows' \ Rows :
            LET i == o - Len(rows)
            IN /\ i \in DOMAIN specs /\ rows'[o].type = specs[i].type
               /\ rows'[o].item = specs[i].item /\ rows'[o].parent = specs[i].parent
    BY <1>1, ListRowsNew DEF Row
<1>4. OneEach(rows')
    <2>1. AddsRows(specs, rows, rows')
        BY <1>3 DEF AddsRows, Rows
    <2>2. OneEach(rows)
        BY DEF PagesOnce
    <2> QED
        BY <1>1, <1>2, <2>1, <2>2, OneEachMore
<1>5. OthersUnmade(t)
    <2>1. \A o \in DOMAIN rows' \ Rows : rows'[o].type = "EXPOSURE_DETAIL"
        BY <1>1, <1>3
    <2>2. msgs[t].kind = "extract"
        BY <1>1 DEF Makes, AtWork
    <2> QED
        BY <2>1, <2>2, OthersMiss
<1>6. PICK m : Shifted(t, m) /\ m.todo = groups /\ m.pc = IF groups = <<>> THEN "sent" ELSE "made"
    BY <1>1 DEF Makes
<1>7. m \in Message /\ Same(m, msgs[t]) /\ msgs' = [msgs EXCEPT ![t] = m] /\ chords' = chords
    BY <1>6 DEF Shifted
<1>8. OffPages(groups, rows')
    <2>1. CASE groups = <<>>
        BY <2>1 DEF OffPages
    <2>2. CASE groups # <<>>
        <3>1. PICK b : b.kind = "batch" /\ ~b.next /\ b.pc = "queued" /\ groups = <<<<b>>>>
            BY <1>1, <2>2
        <3>2. OffPage(b, rows')
            BY <3>1 DEF OffPage, OnPage
        <3>3. \A i \in DOMAIN groups : \A j \in DOMAIN groups[i] : groups[i][j] = b
            BY <3>1
        <3> QED
            BY <3>2, <3>3 DEF OffPages
    <2> QED
        BY <2>1, <2>2
<1>9. Steady(m, rows')
    <2>1. ~m.next
        BY <1>7 DEF PagesOnce, Steady, Same
    <2> QED
        BY <1>6, <1>8, <2>1 DEF Steady
<1>10. msgs' \in Seq(Message)
    BY <1>2, <1>7 DEF Messages
<1>11. Opened(msgs', chords, <<>>, msgs', chords')
    BY <1>7, <1>10, NothingOpens
<1>12. OffPages(<<>>, rows')
    BY DEF OffPages
<1>13. \A c \in DOMAIN chords : OffPages(chords[c].body, rows')
    BY <1>2, OffPagesLater DEF IsQueue, PagesOnce
<1> QED
    BY <1>2, <1>4, <1>5, <1>7, <1>9, <1>11, <1>12, <1>13, PagesSent

-----------------------------------------------------------------------------
(* Every step of PDC, until a sweep.                                          *)

LEMMA PdcStepPages ==
    ASSUME Typed, Pdc, PagesOnce, NEW t \in Messages, PdcStep(t)
    PROVE  PagesOnce'
<1>1. rows' \in Seq(RowRecord) /\ Grows(rows, rows')
    BY PdcStepProper DEF Proper, TableGoesOn, IsTable
<1>2. CASE Dispatch(t)
    BY <1>1, <1>2, DispatchPages
<1>3. CASE Finish(t) \/ WorkerLost(t) \/ PdcHazardFetched(t) \/ PdcFetch(t) \/ NoData(t)
    <2>1. Works(t)
        BY <1>3, FinishWorks, LostWorks, HazardFetchedWorks, FetchWorks
    <2> QED
        BY <1>1, <2>1, WorksPages
<1>4. CASE RequestError(t) \/ RateLimited(t) \/ OtherError(t)
    <2>1. Works(t)
        BY <1>4, FailsWorks, OtherWorks DEF RequestError, RateLimited
    <2> QED
        BY <1>1, <2>1, WorksPages
<1>5. CASE PdcHazardMade(t)
    BY <1>1, <1>5, PdcHazardMadeStep, PageMadePages
<1>6. CASE PdcList(t)
    BY <1>1, <1>6, ListMakesOf, WorksPages, ListPages
<1>7. CASE PdcBatch(t) \/ PdcTrigger(t) \/ RunTransform(t, PdcReads(msgs[t].row))
    <2>1. Passes(t)
        BY <1>7, BatchPasses, TriggerPasses, TransformPasses
    <2> QED
        BY <1>1, <2>1, PassesPages
<1> QED
    BY <1>2, <1>3, <1>4, <1>5, <1>6, <1>7 DEF PdcStep

\* The groups of a retrigger: the failed rows of each type, and the trigger.
StageTypes == <<"HAZARD", "POLYGON", "EXPOSURE_LIST", "EXPOSURE_DETAIL">>
FailedRows(g, type) ==
    /\ \A j \in DOMAIN g : \E r \in Rows : g[j] = Extract(r, 0) /\ rows[r].status = "FAILED" /\ rows[r].type = type
    /\ \A i, j \in DOMAIN g : g[i].row = g[j].row => i = j
Stages(groups) ==
    /\ DOMAIN groups = 1..5 /\ \A i \in 1..4 : FailedRows(groups[i], StageTypes[i])
    /\ \A j \in DOMAIN groups[5] : groups[5][j].kind = "trigger" /\ ~groups[5][j].next /\ groups[5][j].pc = "queued"

LEMMA FailedAre ==
    ASSUME rows \in Seq(RowRecord), NEW type
    PROVE  FailedRows(FailedOf(type), type)
<1>1. PICK ids : ids = {r \in Rows : rows[r].status = "FAILED" /\ rows[r].type = type}
    OBVIOUS
<1>2. PICK n : n = Len(rows)
    OBVIOUS
<1>3. n \in Nat /\ ids \subseteq 1..n /\ ids \subseteq Rows
    BY <1>1, <1>2 DEF Rows
<1>4. PICK open, c : open = InOrder(ids) /\ c = Cardinality(ids)
    OBVIOUS
<1>5. open \in Seq(ids) /\ DOMAIN open = 1..c
    BY <1>3, <1>4, InOrderLists
<1>6. PICK g : g = [i \in DOMAIN open |-> Extract(open[i], 0)]
    OBVIOUS
<1>7. \A j \in DOMAIN g : open[j] \in ids /\ g[j] = Extract(open[j], 0) /\ g[j].row = open[j]
    <2>1. DOMAIN g = DOMAIN open /\ \A j \in DOMAIN open : g[j] = Extract(open[j], 0)
        BY <1>6
    <2>2. \A j \in DOMAIN open : open[j] \in ids
        <3>1. open \in Seq(ids)
            BY <1>5
        <3> QED
            BY ONLY <3>1
    <2>3. \A r : Extract(r, 0).row = r
        BY DEF Extract
    <2> QED
        BY <2>1, <2>2, <2>3
<1>8. \A i, j \in 1..c : open[i] = open[j] => i = j
    BY <1>3, <1>4, InOrderOnce
<1>9. FailedRows(g, type)
    BY <1>1, <1>5, <1>6, <1>7, <1>8 DEF FailedRows
<1> QED
    BY <1>1, <1>4, <1>6, <1>9 DEF FailedOf

LEMMA RetriggerOpens ==
    ASSUME Typed, PdcPipelineRetrigger
    PROVE  /\ msgs = <<>> /\ UNCHANGED rows
           /\ \E groups \in Groups : Stages(groups) /\ Opened(msgs, chords, groups, msgs', chords')
<1>1. rows \in Seq(RowRecord) /\ Len(rows) \in Nat /\ msgs \in Seq(Message) /\ chords \in Seq(Chord)
    BY DEF Typed, IsTable, IsQueue
<1>2. PICK trigger : trigger = [Extract(0, 0) EXCEPT !.kind = "trigger"]
    OBVIOUS
<1>3. trigger \in Plain
    <2>1. 0 \in 0..Len(rows)
        BY <1>1
    <2>2. Extract(0, 0) \in Plain
        BY <1>1, <2>1, ExtractFresh
    <2> QED
        BY <1>2, <2>2 DEF Plain, MessageWith, Kinds
<1>4. trigger.kind = "trigger" /\ ~trigger.next /\ trigger.pc = "queued"
    BY <1>2 DEF Extract
<1>5. PICK a, b, c, d, e : /\ a = FailedOf("HAZARD") /\ b = FailedOf("POLYGON") /\ c = FailedOf("EXPOSURE_LIST")
                           /\ d = FailedOf("EXPOSURE_DETAIL") /\ e = <<trigger>>
    OBVIOUS
<1>6. /\ a \in Seq(Plain) /\ b \in Seq(Plain) /\ c \in Seq(Plain) /\ d \in Seq(Plain)
    BY <1>1, <1>5, FailedOfFits
<1>7. e \in Seq(Plain) /\ DOMAIN e = {1} /\ e[1] = trigger
    BY <1>3, <1>5
<1>8. /\ FailedRows(a, "HAZARD") /\ FailedRows(b, "POLYGON") /\ FailedRows(c, "EXPOSURE_LIST")
      /\ FailedRows(d, "EXPOSURE_DETAIL")
    BY <1>1, <1>5, FailedAre
<1>9. PICK groups : groups = <<a, b, c, d, e>>
    OBVIOUS
<1>10. groups \in Groups
    <2>1. <<a, b, c, d, e>> \in Seq(Seq(Plain))
        BY <1>6, <1>7
    <2> QED
        BY <1>9, <2>1 DEF Groups
<1>11. DOMAIN groups = 1..5 /\ groups[1] = a /\ groups[2] = b /\ groups[3] = c /\ groups[4] = d /\ groups[5] = e
    BY <1>9
<1>12. Stages(groups)
    <2>1. \A i \in 1..4 : i = 1 \/ i = 2 \/ i = 3 \/ i = 4
        OBVIOUS
    <2>2. /\ StageTypes[1] = "HAZARD" /\ StageTypes[2] = "POLYGON" /\ StageTypes[3] = "EXPOSURE_LIST"
          /\ StageTypes[4] = "EXPOSURE_DETAIL"
        BY DEF StageTypes
    <2>3. \A i \in 1..4 : FailedRows(groups[i], StageTypes[i])
        BY <1>8, <1>11, <2>1, <2>2
    <2> QED
        BY <1>4, <1>7, <1>11, <2>3 DEF Stages
<1>13. groups = RetriggerStages(FailedOf("HAZARD"), FailedOf("POLYGON"), FailedOf("EXPOSURE_LIST"),
                                FailedOf("EXPOSURE_DETAIL"), <<[Extract(0, 0) EXCEPT !.kind = "trigger"]>>)
    BY <1>2, <1>5, <1>9 DEF RetriggerStages
<1>14. /\ msgs' = Published(msgs, chords, groups).msgs /\ chords' = Published(msgs, chords, groups).chords
       /\ msgs = <<>> /\ UNCHANGED rows
    BY <1>13 DEF PdcPipelineRetrigger, Publish, Quiet
<1>15. Opened(msgs, chords, groups, msgs', chords')
    BY <1>1, <1>10, <1>14, PublishOpens
<1> QED
    BY <1>10, <1>12, <1>14, <1>15

LEMMA RetriggerPages ==
    ASSUME Typed, PagesOnce, PdcPipelineRetrigger
    PROVE  PagesOnce'
<1>1. PICK groups \in Groups : Stages(groups) /\ Opened(msgs, chords, groups, msgs', chords')
    BY RetriggerOpens
<1>2. PICK more \in Seq(Message), first \in Nat, body \in Groups :
        /\ msgs' = msgs \o more
        /\ \A i \in DOMAIN groups : i < first => groups[i] = <<>>
        /\ \/ more = <<>> /\ chords' = chords
           \/ first \in DOMAIN groups /\ Alike(more, groups[first])
        /\ \A b \in DOMAIN body : \E p \in DOMAIN groups \ {first} : body[b] = groups[p]
        /\ \/ chords' = chords
           \/ chords' = Append(chords, [left |-> Len(more), broken |-> FALSE, body |-> body])
    BY <1>1 DEF Opened
<1>3. msgs' = more /\ rows' = rows
    BY <1>2, RetriggerOpens
<1>4. ASSUME NEW i \in DOMAIN groups, NEW j \in DOMAIN groups[i]
      PROVE  ~groups[i][j].next /\ groups[i][j].pc = "queued" /\ (i # 1 => ~OnPage(groups[i][j], rows))
    <2>1. CASE i = 5
        BY <1>1, <2>1 DEF Stages, OnPage
    <2>2. CASE i # 5
        <3>1. i \in 1..4
            BY <1>1, <2>2 DEF Stages
        <3>2. PICK r \in Rows : groups[i][j] = Extract(r, 0) /\ rows[r].type = StageTypes[i]
            BY <1>1, <3>1 DEF Stages, FailedRows
        <3>3. i # 1 => rows[r].type # "HAZARD"
            <4>1. i # 1 => i = 2 \/ i = 3 \/ i = 4
                BY <3>1
            <4> QED
                BY <3>2, <4>1 DEF StageTypes
        <3> QED
            BY <3>2, <3>3 DEF Extract, OnPage
    <2> QED
        BY <2>1, <2>2
<1>5. ASSUME NEW j \in DOMAIN more
      PROVE  Steady(more[j], rows)
    <2>1. first \in DOMAIN groups /\ Alike(more, groups[first])
        BY <1>2, <1>5
    <2>2. ~more[j].next /\ more[j].pc = "queued"
        BY <1>4, <1>5, <2>1 DEF Alike
    <2> QED
        BY <2>2 DEF Steady
<1>6. ASSUME NEW i \in DOMAIN more, NEW j \in DOMAIN more, OnPage(more[i], rows), more[j].row = more[i].row
      PROVE  i = j
    <2>1. first \in DOMAIN groups /\ Alike(more, groups[first])
        BY <1>2, <1>6
    <2>2. PICK g : g = groups[first]
        OBVIOUS
    <2>3. /\ i \in DOMAIN g /\ j \in DOMAIN g /\ g[i].row = more[i].row /\ g[j].row = more[j].row
          /\ g[i].kind = more[i].kind
        BY <1>6, <2>1, <2>2 DEF Alike
    <2>4. OnPage(g[i], rows)
        BY <1>6, <2>3 DEF OnPage
    <2>5. first = 1
        BY <1>4, <2>1, <2>2, <2>3, <2>4
    <2>6. FailedRows(g, StageTypes[1])
        BY <1>1, <2>2, <2>5 DEF Stages
    <2> QED
        BY <1>6, <2>3, <2>6 DEF FailedRows
<1>7. ASSUME NEW c \in DOMAIN chords'
      PROVE  OffPages(chords'[c].body, rows)
    <2>1. chords \in Seq(Chord) /\ \A d \in DOMAIN chords : OffPages(chords[d].body, rows)
        BY DEF Typed, IsQueue, PagesOnce
    <2>2. CASE chords' = chords
        BY <1>7, <2>1, <2>2
    <2>3. CASE /\ chords' # chords
               /\ chords' = Append(chords, [left |-> Len(more), broken |-> FALSE, body |-> body])
        <3>1. first \in DOMAIN groups
            BY <1>2, <2>3
        <3>2. OffPages(body, rows)
            <4>1. SUFFICES ASSUME NEW b \in DOMAIN body, NEW j \in DOMAIN body[b] PROVE OffPage(body[b][j], rows)
                BY DEF OffPages
            <4>2. PICK p \in DOMAIN groups \ {first} : body[b] = groups[p]
                BY <1>2
            <4>3. p # 1
                <5>1. SUFFICES ASSUME p = 1 PROVE FALSE
                    OBVIOUS
                <5>2. first \in 1..5 /\ first # 1
                    BY <1>1, <3>1, <4>2, <5>1 DEF Stages
                <5>3. groups[1] = <<>>
                    BY <1>2, <4>2, <5>1, <5>2
                <5> QED
                    BY <4>1, <4>2, <5>1, <5>3
            <4> QED
                BY <1>4, <4>2, <4>3 DEF OffPage
        <3>3. PICK chord : chord = [left |-> Len(more), broken |-> FALSE, body |-> body]
            OBVIOUS
        <3>4. chord.body = body /\ chords' = Append(chords, chord)
            BY <2>3, <3>3
        <3>5. (c \in DOMAIN chords /\ chords'[c] = chords[c]) \/ chords'[c] = chord
            BY <1>7, <2>1, <3>4
        <3> QED
            BY <2>1, <3>2, <3>4, <3>5
    <2> QED
        BY <1>2, <2>2, <2>3
<1>8. OneEach(rows)
    BY DEF PagesOnce
<1> QED
    BY <1>3, <1>5, <1>6, <1>7, <1>8 DEF PagesOnce, PageOnce, OnRow, Messages

LEMMA PdcSpends ==
    ASSUME Typed, NEW t \in Messages, PdcStep(t)
    PROVE  spent'.sweeps = spent.sweeps
<1>1. spent \in [Faults \cup {"retriggers", "sweeps"} -> Nat] /\ "sweeps" \notin Faults
    BY DEF Typed, IsWorld, Faults
<1>2. ASSUME NEW what \in Faults, Spend(what) PROVE spent'.sweeps = spent.sweeps
    BY <1>1, <1>2 DEF Spend
<1>3. {"errors", "unknown", "empty", "losses"} \subseteq Faults
    BY DEF Faults
<1>4. CASE \/ Dispatch(t) \/ Finish(t) \/ PdcHazardFetched(t) \/ PdcHazardMade(t) \/ PdcFetch(t)
           \/ RunTransform(t, PdcReads(msgs[t].row)) \/ PdcTrigger(t)
    BY <1>4 DEF Dispatch, Finish, PdcHazardFetched, PdcHazardMade, PdcFetch, RunTransform, PdcTrigger
<1>5. CASE WorkerLost(t) \/ OtherError(t) \/ NoData(t)
    BY <1>2, <1>3, <1>5 DEF WorkerLost, OtherError, NoData
<1>6. CASE RequestError(t) \/ RateLimited(t)
    BY <1>2, <1>3, <1>6 DEF RequestError, RateLimited, FetchFails, Error
<1>7. CASE PdcList(t)
    <2>1. UNCHANGED spent \/ Spend("empty")
        BY <1>7 DEF PdcList
    <2> QED
        BY <1>2, <1>3, <2>1
<1>8. CASE PdcBatch(t)
    <2>1. UNCHANGED spent \/ Spend("errors")
        BY <1>8 DEF PdcBatch, Error
    <2> QED
        BY <1>2, <1>3, <2>1
<1> QED
    BY <1>4, <1>5, <1>6, <1>7, <1>8 DEF PdcStep

Unswept == Pdc /\ spent.sweeps = 0
PdcInv == Unswept => PagesOnce

LEMMA PdcFirst ==
    ASSUME Init, Pdc
    PROVE  /\ rows = <<Row("HAZARD", Pages[1], 0)>> /\ DOMAIN rows = {1} /\ chords = <<>>
           /\ DOMAIN msgs = {1} /\ msgs[1] = Extract(1, 0)
<1>1. /\ rows = <<Row("HAZARD", Pages[1], 0)>> /\ msgs = [i \in DOMAIN rows |-> Extract(i, 0)] /\ chords = <<>>
    BY DEF Init, Pdc, PdcInit, InitRows, PagedTypes, Singles
<1>2. DOMAIN rows = {1}
    BY <1>1
<1> QED
    BY <1>1, <1>2

LEMMA PdcInvInit == Init => PdcInv
<1> SUFFICES ASSUME Init, Pdc PROVE PagesOnce
    BY DEF PdcInv, Unswept
<1>1. DOMAIN rows = {1} /\ chords = <<>> /\ DOMAIN msgs = {1} /\ msgs[1] = Extract(1, 0)
    BY PdcFirst
<1>2. DOMAIN chords = {} /\ ~msgs[1].next /\ msgs[1].pc = "queued"
    BY <1>1 DEF Extract
<1> QED
    BY <1>1, <1>2 DEF PagesOnce, OneEach, PageOnce, Steady, Messages

\* Of a step of PDC that is no sweep.
LEMMA UnsweptStep ==
    ASSUME Typed, [Next]_<<source, vars>>, Unswept'
    PROVE  /\ Unswept /\ UNCHANGED source
           /\ UNCHANGED vars \/ PdcPipelineRetrigger \/ \E t \in Messages : PdcStep(t)
<1>1. UNCHANGED source /\ Pdc
    BY DEF Next, Pdc, Unswept, vars
<1>2. spent \in [Faults \cup {"retriggers", "sweeps"} -> Nat]
    BY DEF Typed, IsWorld
<1>3. UNCHANGED vars \/ PdcNext
    BY <1>1 DEF Next, Pdc, PagedTypes, Singles
<1>4. CASE UNCHANGED vars
    BY <1>1, <1>4 DEF vars, Unswept
<1>5. CASE PdcPipelineRetrigger
    <2>1. spent'.sweeps = spent.sweeps
        BY <1>2, <1>5 DEF PdcPipelineRetrigger, Retriggered
    <2> QED
        BY <1>1, <1>5, <2>1 DEF Unswept
<1>6. CASE \E t \in Messages : PdcStep(t)
    BY <1>1, <1>6, PdcSpends DEF Unswept
<1>7. ~Retrigger("PENDING", [r \in Rows |-> PdcTarget(r)])
    <2>1. SUFFICES ASSUME Retrigger("PENDING", [r \in Rows |-> PdcTarget(r)]) PROVE FALSE
        OBVIOUS
    <2>2. spent' = [spent EXCEPT !["sweeps"] = @ + 1]
        BY <2>1 DEF Retrigger, Retriggered
    <2>3. spent'.sweeps = spent.sweeps + 1 /\ spent.sweeps \in Nat
        BY <1>2, <2>2
    <2> QED
        BY <2>3 DEF Unswept
<1> QED
    BY <1>3, <1>4, <1>5, <1>6, <1>7 DEF PdcNext

LEMMA PdcInvNext == Typed /\ AllAttended /\ PdcInv /\ [Next]_<<source, vars>> => PdcInv'
<1> SUFFICES ASSUME Typed, PdcInv, [Next]_<<source, vars>>, Unswept'
             PROVE  PagesOnce'
    BY DEF PdcInv
<1>1. /\ Unswept
      /\ UNCHANGED vars \/ PdcPipelineRetrigger \/ \E t \in Messages : PdcStep(t)
    BY UnsweptStep
<1>2. Pdc /\ PagesOnce
    BY <1>1 DEF PdcInv, Unswept
<1>3. CASE UNCHANGED vars
    <2>1. UNCHANGED <<rows, msgs, chords>>
        BY <1>3 DEF vars
    <2> QED
        BY <1>2, <2>1 DEF PagesOnce, PageOnce, OnRow, Messages
<1>4. CASE PdcPipelineRetrigger
    BY <1>2, <1>4, RetriggerPages
<1>5. CASE \E t \in Messages : PdcStep(t)
    BY <1>2, <1>5, PdcStepPages
<1> QED
    BY <1>1, <1>3, <1>4, <1>5

\* The children of PDC have names of their own.
LEMMA OnlyPdcLists ==
    ASSUME Typed, NEW c \in Rows, rows[c].type \in PdcChildTypes
    PROVE  Pdc
<1>1. rows[c].type \in TypesOf(source)
    BY DEF Typed
<1>2. CASE source \in {"DISASTERCHARTER", "GDACS", "USGS", "CEMS"}
    BY <1>1, <1>2 DEF TypesOf, PdcChildTypes, ChildTypes
<1>3. CASE source \notin {"DISASTERCHARTER", "GDACS", "USGS", "PDC", "CEMS"}
    <2>1. source \in PdcChildTypes
        BY <1>1, <1>3 DEF TypesOf
    <2>2. source \in SourceNames
        BY SourcesAssumption DEF Typed
    <2> QED
        BY <2>1, <2>2 DEF SourceNames, PagedTypes, Singles, PdcChildTypes
<1> QED
    BY <1>2, <1>3 DEF Pdc

(* Until a sweep runs a page twice at once, a page has one polygon and one list *)
(* of a hazard, and a list one detail of an exposure, whatever is lost, fails   *)
(* or is delivered again: only one message runs a page, what it misses when it   *)
(* has fetched the page it still misses when it makes the rows, and a list      *)
(* looks and makes in one step.                                                *)
THEOREM PdcMakesNoTwins == SourcesSpec => []PdcNoTwins
<1>1. Init => Typed /\ AllAttended /\ PdcInv
    BY InitEstablishes, PdcInvInit
<1>2. Typed /\ AllAttended /\ PdcInv /\ [Next]_<<source, vars>> => (Typed /\ AllAttended /\ PdcInv)'
    BY NextKeeps, PdcInvNext
<1>3. Typed /\ PdcInv => PdcNoTwins
    <2> SUFFICES ASSUME Typed, PdcInv, spent.sweeps = 0, NEW c \in Rows, NEW d \in Rows,
                        rows[c].type \in PdcChildTypes, rows[c].parent = rows[d].parent,
                        rows[c].type = rows[d].type, rows[c].item = rows[d].item
                 PROVE  c = d
        BY DEF PdcNoTwins
    <2>1. Pdc
        BY OnlyPdcLists
    <2>2. PagesOnce
        BY <2>1 DEF PdcInv, Unswept
    <2> QED
        BY <2>2 DEF PagesOnce, OneEach, Twins, Rows
<1> QED
    BY <1>1, <1>2, <1>3, PTL DEF SourcesSpec

-----------------------------------------------------------------------------
(* Polygons before lists: what holds back the lists until their polygons have   *)
(* been run to an end.                                                        *)

IsPair(p, l) ==
    /\ rows[p].type = "POLYGON" /\ rows[l].type = "EXPOSURE_LIST"
    /\ rows[p].parent = rows[l].parent /\ rows[p].item = rows[l].item

Running(t, r) == OnRow(t, r) /\ msgs[t].pc # "queued"
Done(p) ==
    \/ rows[p].runs > 1
    \/ rows[p].runs = 1 /\ rows[p].status # "IN_PROGRESS" /\ \A t \in Messages : ~Running(t, p)
Ready(l) == \A p \in Rows : IsPair(p, l) => Done(p)

\* Deliveries that run a polygon have been counted.
Counted(r) ==
    rows[r].type = "POLYGON" =>
        /\ \A t \in Messages : Running(t, r) => rows[r].runs > 0
        /\ \A s, t \in Messages : (Running(s, r) /\ Running(t, r) /\ s # t) => rows[r].runs > 1
Ended(r) ==
    /\ (rows[r].type = "POLYGON" /\ rows[r].status = "SUCCESS") => Done(r)
    /\ (rows[r].type = "EXPOSURE_LIST" /\ rows[r].status = "FAILED") => rows[r].runs > 0

Begun(l) == rows[l].runs > 0 \/ \E t \in Messages : OnRow(t, l)

\* A message waits, in the body of a chord, for the polygon of its list.
HeldBack(m, c) ==
    (m.kind = "extract" /\ m.row \in Rows) =>
        \A p \in Rows : IsPair(p, m.row) => Done(p) \/ \E t \in Messages : OnRow(t, p) /\ msgs[t].chord = c

\* The polygons that the lists of groups need are done, or in the first group.
Behind(groups) ==
    \A i \in DOMAIN groups : \A j \in DOMAIN groups[i] :
        (groups[i][j].kind = "extract" /\ groups[i][j].row \in Rows) =>
            \A p \in Rows : IsPair(p, groups[i][j].row) =>
                \/ Done(p)
                \/ i # 1 /\ \E k \in DOMAIN groups[1] : groups[1][k].kind = "extract" /\ groups[1][k].row = p

HoldsBack(chord, c) ==
    ~chord.broken => \A i \in DOMAIN chord.body : \A j \in DOMAIN chord.body[i] : HeldBack(chord.body[i][j], c)

PolygonsFirst ==
    /\ \A r \in Rows : Counted(r) /\ Ended(r) /\ (Begun(r) => Ready(r))
    /\ \A t \in Messages : msgs[t].pc = "made" => Behind(msgs[t].todo)
    /\ \A c \in DOMAIN chords : HoldsBack(chords[c], c)

-----------------------------------------------------------------------------
(* What a step does to the rows and the messages that run them.               *)

OwnTurn(t, from) ==
    LET old == rows[msgs[t].row]
        new == rows'[msgs[t].row]
    IN
    \/ /\ msgs[t].pc = "queued" /\ new.runs = Up(old.runs)
       /\ new.status = "IN_PROGRESS" \/ (new.status = "FAILED" /\ Gone(from, t))
    \/ /\ msgs[t].pc = "queued" /\ new.runs = old.runs /\ new.status = "ON_RETRY"
       /\ \A i \in DOMAIN msgs' : from[i] = t => msgs'[i].pc = "queued"
    \/ /\ msgs[t].pc # "queued" /\ new.runs = old.runs
       /\ new.status \in {"IN_PROGRESS", old.status} \/ (new.status = "SUCCESS" /\ Gone(from, t))

\* What a step of the message does to the rows: the row that it runs takes its turn, rows
\* that nothing runs stay as they are but for details, new rows that are no pages have not been run.
Turn(t, from) ==
    /\ \A i \in DOMAIN msgs' : from[i] = 0 => msgs'[i].pc = "queued"
    /\ \A o \in Rows : (rows[o].type # "EXPOSURE_DETAIL" /\ ~OnRow(t, o)) =>
            rows'[o].runs = rows[o].runs /\ rows'[o].status = rows[o].status
    /\ \A o \in DOMAIN rows' \ Rows : \/ rows'[o].type = "HAZARD"
                                     \/ (rows'[o].runs = 0 /\ rows'[o].status = "PENDING")
    /\ AtWork(t) => OwnTurn(t, from)

\* A step on rows, with the messages that it moves.
Order(t, from) ==
    /\ Typed /\ PolygonsFirst /\ t \in Messages /\ Carries(t, from) /\ Turn(t, from)
    /\ rows' \in Seq(RowRecord) /\ Grows(rows, rows') /\ OneEach(rows')

LEMMA OrderTypes ==
    ASSUME NEW t, NEW from, Order(t, from)
    PROVE  /\ Rows \subseteq DOMAIN rows' /\ 0 \notin Messages /\ 0 \notin Rows
           /\ \A o \in Rows : /\ rows'[o].type = rows[o].type /\ rows'[o].item = rows[o].item
                              /\ rows'[o].parent = rows[o].parent /\ rows[o].runs \in Nat /\ rows'[o].runs \in Nat
           /\ \A o \in Rows : rows[o].type = "POLYGON" => rows'[o].runs >= rows[o].runs
<1>1. rows \in Seq(RowRecord) /\ msgs \in Seq(Message) /\ rows' \in Seq(RowRecord) /\ Grows(rows, rows')
    BY DEF Order, Typed, IsTable, IsQueue
<1>2. Rows \subseteq DOMAIN rows' /\ 0 \notin Messages /\ 0 \notin Rows
    BY <1>1 DEF Grows, Rows, Messages
<1>3. ASSUME NEW o \in Rows
      PROVE  /\ rows'[o].type = rows[o].type /\ rows'[o].item = rows[o].item
             /\ rows'[o].parent = rows[o].parent /\ rows[o].runs \in Nat /\ rows'[o].runs \in Nat
    <2>1. rows[o] \in RowRecord /\ rows'[o] \in RowRecord
        BY <1>1, <1>2 DEF Rows
    <2>2. rows[o].runs \in Nat /\ rows'[o].runs \in Nat
        BY <2>1 DEF RowRecord
    <2> QED
        BY <1>1, <2>2 DEF Grows, Rows
<1>4. ASSUME NEW o \in Rows, rows[o].type = "POLYGON" PROVE rows'[o].runs >= rows[o].runs
    <2>1. CASE OnRow(t, o)
        <3>1. AtWork(t) /\ msgs[t].row = o
            BY <2>1 DEF OnRow, AtWork
        <3>2. rows'[o].runs = Up(rows[o].runs) \/ rows'[o].runs = rows[o].runs
            BY <3>1 DEF Order, Turn, OwnTurn
        <3> QED
            BY <1>3, <3>2 DEF Up
    <2>2. CASE ~OnRow(t, o)
        BY <1>3, <1>4, <2>2 DEF Order, Turn
    <2> QED
        BY <2>1, <2>2
<1> QED
    BY <1>2, <1>3, <1>4

\* A message that runs a row has run it before, unless it is the one that has just taken it.
LEMMA RunningKept ==
    ASSUME NEW t, NEW from, Order(t, from), NEW i \in DOMAIN msgs', NEW r \in Rows, Running(i, r)'
    PROVE  /\ from[i] \in Messages /\ msgs[from[i]].kind = "extract" /\ msgs[from[i]].row = r
           /\ from[i] # t => Running(from[i], r)
           /\ from[i] = t => AtWork(t) /\ msgs'[i].pc # "queued"
<1>1. msgs'[i].kind = "extract" /\ msgs'[i].row = r /\ msgs'[i].pc # "queued"
    BY DEF Running, OnRow
<1>2. from[i] # 0
    BY <1>1 DEF Order, Turn
<1>3. from[i] \in Messages
    <2>1. from[i] \in 0..Len(msgs) /\ msgs \in Seq(Message)
        BY DEF Order, Carries, Typed, IsQueue
    <2> QED
        BY <1>2, <2>1 DEF Messages
<1>4. from[i] # t => msgs'[i] = msgs[from[i]]
    BY <1>2 DEF Order, Carries
<1>5. from[i] = t => Same(msgs'[i], msgs[t])
    BY DEF Order, Carries
<1>6. msgs[from[i]].kind = "extract" /\ msgs[from[i]].row = r
    BY <1>1, <1>4, <1>5 DEF Same
<1> QED
    BY <1>1, <1>3, <1>4, <1>6 DEF Running, OnRow, AtWork

LEMMA DoneKept ==
    ASSUME NEW t, NEW from, Order(t, from), NEW p \in Rows, rows[p].type = "POLYGON", Done(p)
    PROVE  Done(p)'
<1>1. rows[p].runs \in Nat /\ rows'[p].runs \in Nat /\ rows'[p].runs >= rows[p].runs
    BY OrderTypes
<1>2. CASE rows[p].runs > 1
    BY <1>1, <1>2 DEF Done
<1>3. CASE rows[p].runs = 1 /\ rows[p].status # "IN_PROGRESS" /\ \A s \in Messages : ~Running(s, p)
    <2>1. CASE OnRow(t, p)
        <3>1. AtWork(t) /\ msgs[t].row = p /\ msgs[t].pc = "queued" /\ OwnTurn(t, from)
            BY <1>3, <2>1 DEF OnRow, AtWork, Running, Order, Turn
        <3>2. CASE rows'[p].runs = Up(rows[p].runs)
            BY <1>3, <3>2 DEF Up, Done
        <3>3. CASE /\ rows'[p].runs = rows[p].runs /\ rows'[p].status = "ON_RETRY"
                   /\ \A i \in DOMAIN msgs' : from[i] = t => msgs'[i].pc = "queued"
            <4>1. ASSUME NEW i \in DOMAIN msgs', Running(i, p)' PROVE FALSE
                BY <1>3, <3>3, <4>1, RunningKept
            <4> QED
                BY <1>3, <3>3, <4>1 DEF Done, Messages
        <3> QED
            BY <3>1, <3>2, <3>3 DEF OwnTurn
    <2>2. CASE ~OnRow(t, p)
        <3>1. rows'[p].runs = 1 /\ rows'[p].status # "IN_PROGRESS"
            BY <1>3, <2>2 DEF Order, Turn
        <3>2. ASSUME NEW i \in DOMAIN msgs', Running(i, p)' PROVE FALSE
            BY <1>3, <2>2, <3>2, RunningKept DEF OnRow
        <3> QED
            BY <3>1, <3>2 DEF Done, Messages
    <2> QED
        BY <2>1, <2>2
<1> QED
    BY <1>2, <1>3 DEF Done

LEMMA CountedKept ==
    ASSUME NEW t, NEW from, Order(t, from), NEW r \in DOMAIN rows'
    PROVE  Counted(r)'
<1> SUFFICES ASSUME rows'[r].type = "POLYGON"
             PROVE  /\ \A i \in DOMAIN msgs' : Running(i, r)' => rows'[r].runs > 0
                    /\ \A i, j \in DOMAIN msgs' : (Running(i, r)' /\ Running(j, r)' /\ i # j) => rows'[r].runs > 1
    BY DEF Counted, Messages
<1>1. CASE r \notin Rows
    <2>1. ASSUME NEW i \in DOMAIN msgs', Running(i, r)' PROVE FALSE
        <3>1. msgs'[i].row = r /\ msgs'[i].pc # "queued"
            BY <2>1 DEF Running, OnRow
        <3>2. from[i] \in 0..Len(msgs) /\ from[i] # 0
            BY <3>1 DEF Order, Turn, Carries
        <3>3. Same(msgs'[i], msgs[from[i]])
            BY <3>2 DEF Order, Carries, Same
        <3>4. from[i] \in Messages
            <4>1. msgs \in Seq(Message)
                BY DEF Order, Typed, IsQueue
            <4> QED
                BY <3>2, <4>1 DEF Messages
        <3>5. msgs[from[i]].row # 0 => msgs[from[i]].row \in Rows
            BY <3>4, MessageOf DEF Order
        <3>6. r # 0
            BY DEF Order
        <3> QED
            BY <1>1, <3>1, <3>3, <3>5, <3>6 DEF Same
    <2> QED
        BY <2>1
<1>2. CASE r \in Rows
    <2>1. /\ rows[r].type = "POLYGON" /\ rows[r].runs \in Nat /\ rows'[r].runs \in Nat /\ rows'[r].runs >= rows[r].runs
        BY <1>2, OrderTypes
    <2>2. Counted(r)
        BY <1>2 DEF Order, PolygonsFirst
    <2>3. ASSUME NEW i \in DOMAIN msgs', Running(i, r)', from[i] = t
          PROVE  \/ msgs[t].pc = "queued" /\ rows'[r].runs = Up(rows[r].runs)
                 \/ Running(t, r)
        <3>1. AtWork(t) /\ msgs[t].row = r /\ msgs'[i].pc # "queued" /\ OwnTurn(t, from)
            BY <1>2, <2>3, RunningKept DEF Order, Turn
        <3> QED
            BY <2>3, <3>1 DEF OwnTurn, Running, OnRow, AtWork
    <2>4. ASSUME NEW i \in DOMAIN msgs', Running(i, r)' PROVE rows'[r].runs > 0
        <3>1. CASE from[i] = t /\ msgs[t].pc = "queued" /\ rows'[r].runs = Up(rows[r].runs)
            BY <2>1, <3>1 DEF Up
        <3>2. CASE Running(from[i], r)
            <4>1. from[i] \in Messages
                BY <1>2, <2>4, RunningKept
            <4> QED
                BY <2>1, <2>2, <3>2, <4>1 DEF Counted
        <3> QED
            BY <1>2, <2>3, <2>4, <3>1, <3>2, RunningKept
    <2>5. ASSUME NEW i \in DOMAIN msgs', NEW j \in DOMAIN msgs', Running(i, r)', Running(j, r)', i # j
          PROVE  rows'[r].runs > 1
        <3>1. from[i] \in Messages /\ from[j] \in Messages /\ from[i] # from[j]
            <4>1. from[i] \in Messages /\ from[j] \in Messages
                BY <1>2, <2>5, RunningKept
            <4>2. from[i] # 0
                BY <4>1, OrderTypes
            <4> QED
                BY <2>5, <4>1, <4>2 DEF Order, Carries
        <3>2. CASE Running(from[i], r) /\ Running(from[j], r)
            BY <2>1, <2>2, <3>1, <3>2 DEF Counted
        <3>3. ASSUME NEW a \in Messages, Running(a, r), rows'[r].runs = Up(rows[r].runs)
              PROVE  rows'[r].runs > 1
            <4>1. rows[r].runs > 0
                BY <2>1, <2>2, <3>3 DEF Counted
            <4> QED
                BY <2>1, <3>3, <4>1 DEF Up
        <3>4. Running(from[i], r) \/ (from[i] = t /\ rows'[r].runs = Up(rows[r].runs))
            BY <1>2, <2>3, <2>5, RunningKept
        <3>5. Running(from[j], r) \/ (from[j] = t /\ rows'[r].runs = Up(rows[r].runs))
            BY <1>2, <2>3, <2>5, RunningKept
        <3> QED
            BY <3>1, <3>2, <3>3, <3>4, <3>5
    <2> QED
        BY <2>4, <2>5
<1> QED
    BY <1>1, <1>2

\* A delivery of a polygon that ends leaves it done.
LEMMA EndsDone ==
    ASSUME NEW t, NEW from, Order(t, from), Gone(from, t), NEW p \in Rows, OnRow(t, p),
           rows[p].type = "POLYGON", rows'[p].status \in {"SUCCESS", "FAILED"}
    PROVE  Done(p)'
<1>1. rows[p].runs \in Nat /\ rows'[p].runs \in Nat
    BY OrderTypes
<1>2. AtWork(t) /\ msgs[t].row = p /\ OwnTurn(t, from)
    BY DEF OnRow, AtWork, Order, Turn
<1>3. Counted(p)
    BY DEF Order, PolygonsFirst
<1>4. ASSUME NEW i \in DOMAIN msgs', Running(i, p)'
      PROVE  from[i] \in Messages \ {t} /\ Running(from[i], p)
    BY <1>4, RunningKept DEF Gone
<1>5. CASE msgs[t].pc = "queued" /\ rows'[p].runs = Up(rows[p].runs)
    <2>1. CASE rows'[p].runs > 1
        BY <2>1 DEF Done
    <2>2. CASE rows[p].runs = 0
        <3>1. ASSUME NEW i \in DOMAIN msgs', Running(i, p)' PROVE FALSE
            <4>1. rows[p].runs > 0
                BY <1>3, <1>4, <3>1 DEF Counted
            <4> QED
                BY <2>2, <4>1
        <3> QED
            BY <1>5, <2>2, <3>1 DEF Done, Up, Messages
    <2> QED
        BY <1>1, <1>5, <2>1, <2>2 DEF Up
<1>6. CASE msgs[t].pc # "queued" /\ rows'[p].runs = rows[p].runs
    <2>1. Running(t, p)
        BY <1>6 DEF Running
    <2>2. rows[p].runs > 0
        BY <1>3, <2>1 DEF Counted, Order
    <2>3. ASSUME rows[p].runs = 1, NEW i \in DOMAIN msgs', Running(i, p)' PROVE FALSE
        <3>1. rows[p].runs > 1
            BY <1>3, <1>4, <2>1, <2>3 DEF Counted, Order
        <3> QED
            BY <2>3, <3>1
    <2> QED
        BY <1>1, <1>6, <2>2, <2>3 DEF Done, Messages
<1> QED
    BY <1>2, <1>5, <1>6 DEF OwnTurn

LEMMA EndedKept ==
    ASSUME NEW t, NEW from, Order(t, from), NEW r \in DOMAIN rows'
    PROVE  Ended(r)'
<1>1. CASE r \notin Rows
    <2>1. rows'[r].type = "HAZARD" \/ rows'[r].status = "PENDING"
        BY <1>1 DEF Order, Turn
    <2> QED
        BY <2>1 DEF Ended
<1>2. CASE r \in Rows
    <2>1. rows'[r].type = rows[r].type /\ rows[r].runs \in Nat /\ rows'[r].runs \in Nat
        BY <1>2, OrderTypes
    <2>2. Ended(r)
        BY <1>2 DEF Order, PolygonsFirst
    <2>3. ASSUME rows[r].type = "POLYGON", rows'[r].status = "SUCCESS" PROVE Done(r)'
        <3>1. CASE rows[r].status = "SUCCESS"
            BY <1>2, <2>2, <2>3, <3>1, DoneKept DEF Ended
        <3>2. CASE rows[r].status # "SUCCESS"
            <4>1. OnRow(t, r)
                BY <1>2, <2>3, <3>2 DEF Order, Turn
            <4>2. OwnTurn(t, from) /\ msgs[t].row = r
                BY <1>2, <4>1 DEF Order, Turn, OnRow, AtWork
            <4>3. Gone(from, t)
                BY <2>3, <3>2, <4>2 DEF OwnTurn
            <4> QED
                BY <1>2, <2>3, <4>1, <4>3, EndsDone
        <3> QED
            BY <3>1, <3>2
    <2>4. ASSUME rows[r].type = "EXPOSURE_LIST", rows'[r].status = "FAILED" PROVE rows'[r].runs > 0
        <3>1. CASE OnRow(t, r)
            <4>1. OwnTurn(t, from) /\ msgs[t].row = r
                BY <1>2, <3>1 DEF Order, Turn, OnRow, AtWork
            <4>2. CASE rows'[r].runs = Up(rows[r].runs)
                BY <2>1, <4>2 DEF Up
            <4>3. CASE rows'[r].runs = rows[r].runs /\ rows[r].status = "FAILED"
                BY <2>2, <2>4, <4>3 DEF Ended
            <4> QED
                BY <2>4, <4>1, <4>2, <4>3 DEF OwnTurn
        <3>2. CASE ~OnRow(t, r)
            <4>1. rows'[r].runs = rows[r].runs /\ rows'[r].status = rows[r].status
                BY <1>2, <2>4, <3>2 DEF Order, Turn
            <4> QED
                BY <2>2, <2>4, <4>1 DEF Ended
        <3> QED
            BY <3>1, <3>2
    <2> QED
        BY <2>1, <2>3, <2>4 DEF Ended
<1> QED
    BY <1>1, <1>2

\* A list has its polygon from the start, and gets no other.
LEMMA PairKept ==
    ASSUME NEW t, NEW from, Order(t, from), NEW l \in Rows, NEW p \in DOMAIN rows', IsPair(p, l)'
    PROVE  p \in Rows /\ IsPair(p, l)
<1>1. /\ Rows \subseteq DOMAIN rows' /\ l \in DOMAIN rows
      /\ \A o \in Rows : /\ rows'[o].type = rows[o].type /\ rows'[o].item = rows[o].item
                         /\ rows'[o].parent = rows[o].parent
    BY OrderTypes DEF Rows
<1>2. /\ rows'[p].type = "POLYGON" /\ rows[l].type = "EXPOSURE_LIST"
      /\ rows'[p].parent = rows[l].parent /\ rows'[p].item = rows[l].item
    BY <1>1 DEF IsPair
<1>3. PICK q : q \in Existing(rows, rows[l].parent, "POLYGON", rows[l].item)
    BY <1>1, <1>2 DEF Order, Typed, IsTable, ParentFits
<1>4. /\ q \in Rows /\ rows[q].type = "POLYGON" /\ rows[q].parent = rows[l].parent
      /\ rows[q].item = rows[l].item
    BY <1>3 DEF Existing, Rows
<1>5. Twins(rows'[p], rows'[q]) /\ q \in DOMAIN rows'
    BY <1>1, <1>2, <1>4 DEF Twins, PdcChildTypes
<1>6. p = q
    BY <1>5 DEF Order, OneEach
<1> QED
    BY <1>2, <1>4, <1>6 DEF IsPair

LEMMA ReadyKept ==
    ASSUME NEW t, NEW from, Order(t, from), NEW l \in Rows, Ready(l)
    PROVE  Ready(l)'
<1>1. ASSUME NEW p \in DOMAIN rows', IsPair(p, l)' PROVE Done(p)'
    <2>1. p \in Rows /\ IsPair(p, l)
        BY <1>1, PairKept
    <2>2. Done(p) /\ rows[p].type = "POLYGON"
        BY <2>1 DEF Ready, IsPair
    <2> QED
        BY <2>1, <2>2, DoneKept
<1> QED
    BY <1>1 DEF Ready, Rows

LEMMA BehindKept ==
    ASSUME NEW t, NEW from, Order(t, from), NEW groups, GroupsFit(groups, rows), Behind(groups)
    PROVE  Behind(groups)'
<1>1. SUFFICES ASSUME NEW i \in DOMAIN groups, NEW j \in DOMAIN groups[i], groups[i][j].kind = "extract",
                      groups[i][j].row \in DOMAIN rows', NEW p \in DOMAIN rows', IsPair(p, groups[i][j].row)'
               PROVE  \/ Done(p)'
                      \/ i # 1 /\ \E k \in DOMAIN groups[1] : groups[1][k].kind = "extract" /\ groups[1][k].row = p
    BY DEF Behind, Rows
<1>2. PICK l : l = groups[i][j].row
    OBVIOUS
<1>3. l \in Rows
    <2>1. l \in 0..Len(rows) /\ rows \in Seq(RowRecord) /\ rows' \in Seq(RowRecord) /\ l \in DOMAIN rows'
        BY <1>1, <1>2 DEF GroupsFit, Fresh, Refers, Order, Typed, IsTable
    <2> QED
        BY <2>1 DEF Rows
<1>4. p \in Rows /\ IsPair(p, l)
    BY <1>1, <1>2, <1>3, PairKept
<1>5. \/ Done(p)
      \/ i # 1 /\ \E k \in DOMAIN groups[1] : groups[1][k].kind = "extract" /\ groups[1][k].row = p
    BY <1>1, <1>2, <1>3, <1>4 DEF Behind
<1>6. rows[p].type = "POLYGON"
    BY <1>4 DEF IsPair
<1> QED
    BY <1>4, <1>5, <1>6, DoneKept

\* The lists of new messages can be run.
NewReady(from) ==
    \A i \in DOMAIN msgs' : (from[i] = 0 /\ msgs'[i].kind = "extract") =>
        \A l \in DOMAIN rows' : msgs'[i].row = l => Ready(l)'

LEMMA BegunKept ==
    ASSUME NEW t, NEW from, Order(t, from), NewReady(from), NEW l \in DOMAIN rows', Begun(l)'
    PROVE  Ready(l)'
<1>1. msgs \in Seq(Message) /\ 0 \notin Rows
    BY OrderTypes DEF Order, Typed, IsQueue
<1>2. CASE rows'[l].type # "EXPOSURE_LIST"
    BY <1>2 DEF Ready, IsPair
<1>3. ASSUME rows'[l].type = "EXPOSURE_LIST", NEW i \in DOMAIN msgs', OnRow(i, l)'
      PROVE  Ready(l)'
    <2>1. msgs'[i].kind = "extract" /\ msgs'[i].row = l
        BY <1>3 DEF OnRow
    <2>2. CASE from[i] = 0
        BY <1>3, <2>1, <2>2 DEF NewReady
    <2>3. CASE from[i] # 0
        <3>1. PICK s : s = from[i]
            OBVIOUS
        <3>2. s \in 0..Len(msgs)
            BY <1>3, <3>1 DEF Order, Carries
        <3>3. s \in Messages
            BY <1>1, <2>3, <3>1, <3>2 DEF Messages
        <3>4. msgs[s].kind = "extract" /\ msgs[s].row = l
            BY <1>3, <2>1, <2>3, <3>1 DEF Order, Carries, Same
        <3>5. msgs[s].row # 0 => msgs[s].row \in Rows
            BY <3>3, MessageOf DEF Order
        <3>6. l # 0
            BY DEF Order
        <3>7. l \in Rows /\ Begun(l)
            BY <3>3, <3>4, <3>5, <3>6 DEF Begun, OnRow
        <3>8. Ready(l)
            BY <3>7 DEF Order, PolygonsFirst
        <3> QED
            BY <3>7, <3>8, ReadyKept
    <2> QED
        BY <2>2, <2>3
<1>4. ASSUME rows'[l].type = "EXPOSURE_LIST", rows'[l].runs > 0 PROVE Ready(l)'
    <2>1. l \in Rows
        BY <1>4 DEF Order, Turn
    <2>2. rows[l].type = "EXPOSURE_LIST" /\ rows[l].runs \in Nat
        BY <1>4, <2>1, OrderTypes
    <2>3. Begun(l)
        <3>1. CASE OnRow(t, l)
            BY <3>1 DEF Begun, Order
        <3>2. CASE ~OnRow(t, l)
            <4>1. rows'[l].runs = rows[l].runs
                BY <2>1, <2>2, <3>2 DEF Order, Turn
            <4> QED
                BY <1>4, <4>1 DEF Begun
        <3> QED
            BY <3>1, <3>2
    <2>4. Ready(l)
        BY <2>1, <2>3 DEF Order, PolygonsFirst
    <2> QED
        BY <2>1, <2>4, ReadyKept
<1> QED
    BY <1>2, <1>3, <1>4 DEF Begun, Messages

-----------------------------------------------------------------------------
(* What a step publishes holds back its lists, too.                           *)

\* A delivery that is gone has ended, or has broken its chord.
LeavesDone(t, from, known) ==
    (Gone(from, t) /\ AtWork(t)) =>
        \/ rows'[msgs[t].row].status \in {"SUCCESS", "FAILED"}
        \/ \A c \in DOMAIN chords : c = msgs[t].chord => known[c].broken

LEMMA HoldsKept ==
    ASSUME NEW t, NEW from, Order(t, from), NEW known, DOMAIN known = DOMAIN chords,
           \A c \in DOMAIN chords : /\ known[c].body = chords[c].body \/ known[c].body = <<>>
                                    /\ chords[c].broken => known[c].broken,
           LeavesDone(t, from, known)
    PROVE  \A c \in DOMAIN known : HoldsBack(known[c], c)'
<1>1. SUFFICES ASSUME NEW c \in DOMAIN chords, ~known[c].broken, NEW i \in DOMAIN known[c].body,
                      NEW j \in DOMAIN known[c].body[i]
               PROVE  HeldBack(known[c].body[i][j], c)'
    BY DEF HoldsBack
<1>2. PICK m : m = known[c].body[i][j]
    OBVIOUS
<1>3. known[c].body = chords[c].body /\ ~chords[c].broken
    BY <1>1
<1>4. HeldBack(m, c)
    BY <1>1, <1>2, <1>3 DEF Order, PolygonsFirst, HoldsBack
<1>5. Fresh(m, rows)
    BY <1>1, <1>2, <1>3 DEF Order, Typed, IsQueue, GroupsFit
<1>6. SUFFICES ASSUME m.kind = "extract", m.row \in DOMAIN rows', NEW p \in DOMAIN rows', IsPair(p, m.row)'
               PROVE  Done(p)' \/ \E s \in DOMAIN msgs' : OnRow(s, p)' /\ msgs'[s].chord = c
    BY <1>2 DEF HeldBack, Rows, Messages
<1>7. m.row \in Rows
    <2>1. m.row \in 0..Len(rows) /\ rows \in Seq(RowRecord) /\ rows' \in Seq(RowRecord)
        BY <1>5 DEF Fresh, Refers, Order, Typed, IsTable
    <2> QED
        BY <1>6, <2>1 DEF Rows
<1>8. p \in Rows /\ IsPair(p, m.row)
    BY <1>6, <1>7, PairKept
<1>9. rows[p].type = "POLYGON" /\ 0 \notin Messages
    BY <1>8, OrderTypes DEF IsPair
<1>10. CASE Done(p)
    BY <1>8, <1>9, <1>10, DoneKept
<1>11. ASSUME NEW s \in Messages, OnRow(s, p), msgs[s].chord = c
       PROVE  Done(p)' \/ \E o \in DOMAIN msgs' : OnRow(o, p)' /\ msgs'[o].chord = c
    <2>1. CASE \E o \in DOMAIN msgs' : from[o] = s
        <3>1. PICK o \in DOMAIN msgs' : from[o] = s
            BY <2>1
        <3>2. Same(msgs'[o], msgs[s])
            BY <1>9, <1>11, <3>1 DEF Order, Carries, Same
        <3> QED
            BY <1>11, <3>1, <3>2 DEF Same, OnRow
    <2>2. CASE ~\E o \in DOMAIN msgs' : from[o] = s
        <3>1. s = t /\ Gone(from, t)
            BY <1>11, <2>2 DEF Order, Carries, Gone
        <3>2. AtWork(t) /\ msgs[t].row = p /\ msgs[t].chord = c
            BY <1>8, <1>11, <3>1 DEF AtWork, OnRow
        <3>3. rows'[p].status \in {"SUCCESS", "FAILED"}
            BY <1>1, <3>1, <3>2 DEF LeavesDone
        <3> QED
            BY <1>8, <1>9, <1>11, <3>1, <3>3, EndsDone
    <2> QED
        BY <2>1, <2>2
<1> QED
    BY <1>4, <1>6, <1>7, <1>8, <1>10, <1>11 DEF HeldBack

\* The new messages are those of a group, and what is not empty after it waits for them.
Posted(from, known, groups) ==
    \E k \in Nat, more \in Seq(Message), first \in Nat, body \in Groups :
        /\ News(from, more, k)
        /\ \A i \in DOMAIN groups : i < first => groups[i] = <<>>
        /\ \/ more = <<>> /\ chords' = known
           \/ first \in DOMAIN groups /\ Alike(more, groups[first])
        /\ \A b \in DOMAIN body : \E p \in DOMAIN groups \ {first} : body[b] = groups[p]
        /\ \/ chords' = known
           \/ /\ chords' = Append(known, [left |-> Len(more), broken |-> FALSE, body |-> body])
              /\ \A j \in DOMAIN more : more[j].chord = Len(known) + 1

LEMMA SentHolds ==
    ASSUME NEW from, NEW known \in Seq(Chord), NEW groups, \E n \in Nat : DOMAIN groups = 1..n,
           Posted(from, known, groups), Behind(groups)', \A c \in DOMAIN known : HoldsBack(known[c], c)'
    PROVE  NewReady(from) /\ \A c \in DOMAIN chords' : \A chord : chord = chords'[c] => HoldsBack(chord, c)'
<1>1. PICK k \in Nat, more \in Seq(Message), first \in Nat, body \in Groups :
        /\ News(from, more, k)
        /\ \A i \in DOMAIN groups : i < first => groups[i] = <<>>
        /\ \/ more = <<>> /\ chords' = known
           \/ first \in DOMAIN groups /\ Alike(more, groups[first])
        /\ \A b \in DOMAIN body : \E p \in DOMAIN groups \ {first} : body[b] = groups[p]
        /\ \/ chords' = known
           \/ /\ chords' = Append(known, [left |-> Len(more), broken |-> FALSE, body |-> body])
              /\ \A j \in DOMAIN more : more[j].chord = Len(known) + 1
    BY DEF Posted
<1>2. first \in DOMAIN groups /\ first # 1 => groups[1] = <<>>
    <2>1. PICK n \in Nat : DOMAIN groups = 1..n
        OBVIOUS
    <2>2. first \in DOMAIN groups /\ first # 1 => 1 \in DOMAIN groups /\ 1 < first
        BY <2>1
    <2> QED
        BY <1>1, <2>2
<1>3. NewReady(from)
    <2>1. SUFFICES ASSUME NEW i \in DOMAIN msgs', from[i] = 0, msgs'[i].kind = "extract",
                          NEW l \in DOMAIN rows', msgs'[i].row = l, NEW p \in DOMAIN rows', IsPair(p, l)'
                   PROVE  Done(p)'
        BY DEF NewReady, Ready, Rows
    <2>2. PICK j \in DOMAIN more : msgs'[i] = more[j]
        BY <1>1, <2>1 DEF News
    <2>3. first \in DOMAIN groups /\ Alike(more, groups[first])
        BY <1>1, <2>2
    <2>4. /\ j \in DOMAIN groups[first]
          /\ groups[first][j].kind = "extract" /\ groups[first][j].row = l
        BY <2>1, <2>2, <2>3 DEF Alike
    <2>5. \/ Done(p)'
          \/ first # 1 /\ \E o \in DOMAIN groups[1] : groups[1][o].kind = "extract" /\ groups[1][o].row = p
        BY <2>1, <2>3, <2>4 DEF Behind, Rows
    <2> QED
        BY <1>2, <2>3, <2>5
<1>4. ASSUME NEW chord, chord.body = body, \A j \in DOMAIN more : more[j].chord = Len(known) + 1, chords' # known
      PROVE  HoldsBack(chord, Len(known) + 1)'
    <2>1. PICK c : c = Len(known) + 1
        OBVIOUS
    <2>2. SUFFICES ASSUME NEW b \in DOMAIN body, NEW j \in DOMAIN body[b] PROVE HeldBack(body[b][j], c)'
        BY <1>4, <2>1 DEF HoldsBack
    <2>3. PICK q \in DOMAIN groups \ {first} : body[b] = groups[q]
        BY <1>1
    <2>4. PICK m : m = groups[q][j]
        OBVIOUS
    <2>5. SUFFICES ASSUME m.kind = "extract", m.row \in DOMAIN rows', NEW p \in DOMAIN rows', IsPair(p, m.row)'
                   PROVE  Done(p)' \/ \E s \in DOMAIN msgs' : OnRow(s, p)' /\ msgs'[s].chord = c
        BY <2>3, <2>4 DEF HeldBack, Rows, Messages
    <2>6. \/ Done(p)'
          \/ \E o \in DOMAIN groups[1] : groups[1][o].kind = "extract" /\ groups[1][o].row = p
        BY <2>2, <2>3, <2>4, <2>5 DEF Behind, Rows
    <2>7. ASSUME NEW o \in DOMAIN groups[1], groups[1][o].kind = "extract", groups[1][o].row = p
          PROVE  \E s \in DOMAIN msgs' : OnRow(s, p)' /\ msgs'[s].chord = c
        <3>1. first \in DOMAIN groups /\ Alike(more, groups[first])
            BY <1>1, <1>4
        <3>2. first = 1
            BY <1>2, <2>7, <3>1
        <3>3. o \in DOMAIN more /\ more[o].kind = "extract" /\ more[o].row = p /\ more[o].chord = c
            BY <1>4, <2>1, <2>7, <3>1, <3>2 DEF Alike
        <3>4. k + o \in DOMAIN msgs' /\ msgs'[k + o] = more[o]
            BY <1>1, <3>3 DEF News
        <3> QED
            BY <3>3, <3>4 DEF OnRow
    <2> QED
        BY <2>6, <2>7
<1>5. ASSUME NEW c \in DOMAIN chords', NEW chord, chord = chords'[c] PROVE HoldsBack(chord, c)'
    <2>1. CASE chords' = known
        BY <1>5, <2>1
    <2>2. CASE chords' # known
        <3>1. PICK new : new = [left |-> Len(more), broken |-> FALSE, body |-> body]
            OBVIOUS
        <3>2. /\ chords' = Append(known, new) /\ new.body = body
              /\ \A j \in DOMAIN more : more[j].chord = Len(known) + 1
            BY <1>1, <2>2, <3>1
        <3>3. (c \in DOMAIN known /\ chords'[c] = known[c]) \/ (c = Len(known) + 1 /\ chords'[c] = new)
            BY <1>5, <3>2
        <3> QED
            BY <1>4, <1>5, <2>2, <3>2, <3>3
    <2> QED
        BY <2>1, <2>2
<1> QED
    BY <1>3, <1>5

LEMMA FirstKept ==
    ASSUME NEW t, NEW from, Order(t, from), NewReady(from),
           \A c \in DOMAIN chords' : \A chord : chord = chords'[c] => HoldsBack(chord, c)',
           \A i \in DOMAIN msgs' : (from[i] = t /\ msgs'[i].pc = "made") =>
                \A groups : groups = msgs'[i].todo => Behind(groups)'
    PROVE  PolygonsFirst'
<1>1. \A r \in DOMAIN rows' : Counted(r)' /\ Ended(r)' /\ (Begun(r)' => Ready(r)')
    BY CountedKept, EndedKept, BegunKept
<1>2. ASSUME NEW i \in DOMAIN msgs', msgs'[i].pc = "made", NEW groups, groups = msgs'[i].todo
      PROVE  Behind(groups)'
    <2>1. CASE from[i] = t
        BY <1>2, <2>1
    <2>2. CASE from[i] = 0
        BY <1>2, <2>2 DEF Order, Turn
    <2>3. CASE from[i] \notin {0, t}
        <3>1. PICK s : s = from[i]
            OBVIOUS
        <3>2. s \in 0..Len(msgs) /\ msgs \in Seq(Message) /\ msgs'[i] = msgs[s]
            BY <1>2, <2>3, <3>1 DEF Order, Carries, Typed, IsQueue
        <3>3. s \in Messages
            BY <2>3, <3>1, <3>2 DEF Messages
        <3>4. msgs[s].pc = "made" /\ msgs[s].todo = groups
            BY <1>2, <3>2
        <3>5. GroupsFit(groups, rows)
            BY <3>3, <3>4, MessageOf DEF Order, MessageFits
        <3>6. Behind(groups)
            BY <3>3, <3>4 DEF Order, PolygonsFirst
        <3> QED
            BY <3>5, <3>6, BehindKept
    <2> QED
        BY <2>1, <2>2, <2>3
<1>3. (\A r \in Rows : Counted(r) /\ Ended(r) /\ (Begun(r) => Ready(r)))'
    BY <1>1 DEF Rows
<1>4. (\A s \in Messages : msgs[s].pc = "made" => Behind(msgs[s].todo))'
    BY <1>2 DEF Messages, Behind
<1>5. (\A c \in DOMAIN chords : HoldsBack(chords[c], c))'
    OBVIOUS
<1> QED
    BY <1>3, <1>4, <1>5 DEF PolygonsFirst

-----------------------------------------------------------------------------
(* The steps that end a delivery or move it on.                               *)

TurnsOnly(t) ==
    /\ rows' \in Seq(RowRecord) /\ Grows(rows, rows') /\ OneEach(rows')
    /\ \A o \in Rows : (rows[o].type # "EXPOSURE_DETAIL" /\ ~OnRow(t, o)) =>
            rows'[o].runs = rows[o].runs /\ rows'[o].status = rows[o].status
    /\ \A o \in DOMAIN rows' \ Rows : \/ rows'[o].type = "HAZARD"
                                     \/ (rows'[o].runs = 0 /\ rows'[o].status = "PENDING")

AllQueued(groups) == \A i \in DOMAIN groups : \A j \in DOMAIN groups[i] : groups[i][j].pc = "queued"

LEMMA NewsQueued ==
    ASSUME NEW from, NEW known, NEW groups, Posted(from, known, groups), AllQueued(groups)
    PROVE  \A i \in DOMAIN msgs' : from[i] = 0 => msgs'[i].pc = "queued"
<1>1. PICK k \in Nat, more \in Seq(Message), first \in Nat :
        /\ News(from, more, k)
        /\ (more = <<>> /\ chords' = known) \/ (first \in DOMAIN groups /\ Alike(more, groups[first]))
    BY DEF Posted
<1>2. SUFFICES ASSUME NEW i \in DOMAIN msgs', from[i] = 0 PROVE msgs'[i].pc = "queued"
    OBVIOUS
<1>3. PICK j \in DOMAIN more : msgs'[i] = more[j]
    BY <1>1, <1>2 DEF News
<1>4. first \in DOMAIN groups /\ Alike(more, groups[first])
    BY <1>1, <1>3
<1> QED
    BY <1>3, <1>4 DEF Alike, AllQueued

LEMMA AckedOrder ==
    ASSUME Typed, PolygonsFirst, NEW t \in Messages, TurnsOnly(t), AtWork(t) => Turns(t, TRUE, "queued"),
           NEW known, NEW groups, AllQueued(groups), Opened(Acked(t), known, groups, msgs', chords')
    PROVE  \E from : Order(t, from) /\ Gone(from, t) /\ Posted(from, known, groups)
<1>1. msgs \in Seq(Message)
    BY DEF Typed, IsQueue
<1>2. PICK more \in Seq(Message), first \in Nat, body \in Groups :
        /\ msgs' = Acked(t) \o more
        /\ \A i \in DOMAIN groups : i < first => groups[i] = <<>>
        /\ \/ more = <<>> /\ chords' = known
           \/ first \in DOMAIN groups /\ Alike(more, groups[first])
        /\ \A b \in DOMAIN body : \E p \in DOMAIN groups \ {first} : body[b] = groups[p]
        /\ \/ chords' = known
           \/ /\ chords' = Append(known, [left |-> Len(more), broken |-> FALSE, body |-> body])
              /\ \A j \in DOMAIN more : more[j].chord = Len(known) + 1
    BY DEF Opened
<1>3. PICK from : \E k \in Nat : Carries(t, from) /\ Gone(from, t) /\ News(from, more, k)
    BY <1>1, <1>2, AckedCarries
<1>4. Posted(from, known, groups)
    BY <1>2, <1>3 DEF Posted
<1>5. AtWork(t) => OwnTurn(t, from)
    BY <1>3 DEF Turns, OwnTurn, Gone
<1>6. Turn(t, from)
    BY <1>4, <1>5, NewsQueued DEF Turn, TurnsOnly
<1> QED
    BY <1>3, <1>4, <1>6 DEF Order, TurnsOnly

\* A delivery goes on, and its message becomes another.
MovesTo(t, m, known, groups) ==
    /\ m \in Message /\ Same(m, msgs[t]) /\ Turns(t, FALSE, m.pc) /\ AllQueued(groups)
    /\ Opened([msgs EXCEPT ![t] = m], known, groups, msgs', chords')

StaysAs(t, m, from) == ~Gone(from, t) /\ \A i \in DOMAIN msgs' : from[i] = t => msgs'[i] = m

LEMMA MovedOrder ==
    ASSUME Typed, PolygonsFirst, NEW t \in Messages, TurnsOnly(t),
           NEW m, NEW known, NEW groups, MovesTo(t, m, known, groups)
    PROVE  \E from : Order(t, from) /\ Posted(from, known, groups) /\ StaysAs(t, m, from)
<1>1. msgs \in Seq(Message)
    BY DEF Typed, IsQueue
<1>2. PICK more \in Seq(Message), first \in Nat, body \in Groups :
        /\ msgs' = [msgs EXCEPT ![t] = m] \o more
        /\ \A i \in DOMAIN groups : i < first => groups[i] = <<>>
        /\ \/ more = <<>> /\ chords' = known
           \/ first \in DOMAIN groups /\ Alike(more, groups[first])
        /\ \A b \in DOMAIN body : \E p \in DOMAIN groups \ {first} : body[b] = groups[p]
        /\ \/ chords' = known
           \/ /\ chords' = Append(known, [left |-> Len(more), broken |-> FALSE, body |-> body])
              /\ \A j \in DOMAIN more : more[j].chord = Len(known) + 1
    BY DEF Opened, MovesTo
<1>3. PICK from : \E k \in Nat : /\ Carries(t, from) /\ News(from, more, k)
                                 /\ t \in DOMAIN msgs' /\ from[t] = t /\ msgs'[t] = m
                                 /\ \A i \in DOMAIN msgs' : from[i] = t => i = t
    <2>1. MovesOn(t, m, more)
        BY <1>2 DEF MovesOn
    <2> QED
        BY <1>1, <2>1, MovedCarries DEF MovesTo
<1>4. Posted(from, known, groups)
    <2>1. PICK k \in Nat : News(from, more, k)
        BY <1>3
    <2> QED
        BY <1>2, <2>1 DEF Posted
<1>5. ~Gone(from, t)
    BY <1>3 DEF Gone
<1>6. \A i \in DOMAIN msgs' : from[i] = t => msgs'[i] = m
    BY <1>3
<1>7. AtWork(t) => OwnTurn(t, from)
    BY <1>6 DEF Turns, OwnTurn, MovesTo
<1>8. Turn(t, from)
    BY <1>4, <1>7, NewsQueued DEF Turn, TurnsOnly, MovesTo
<1> QED
    BY <1>3, <1>4, <1>5, <1>6, <1>8 DEF Order, TurnsOnly, StaysAs

LEMMA PlacesOf ==
    ASSUME NEW groups \in Groups
    PROVE  \E n \in Nat : DOMAIN groups = 1..n
<1>1. DOMAIN groups = 1..Len(groups) /\ Len(groups) \in Nat
    BY DEF Groups
<1> QED
    BY <1>1

\* What is published keeps the order, when the lists in it are held back.
LEMMA PostedKept ==
    ASSUME NEW t, NEW from, Order(t, from), NEW known \in Seq(Chord),
           NEW groups, \E n \in Nat : DOMAIN groups = 1..n, Posted(from, known, groups), Behind(groups)', DOMAIN known = DOMAIN chords,
           \A c \in DOMAIN chords : /\ known[c].body = chords[c].body \/ known[c].body = <<>>
                                    /\ chords[c].broken => known[c].broken,
           LeavesDone(t, from, known),
           \A i \in DOMAIN msgs' : (from[i] = t /\ msgs'[i].pc = "made") =>
                \A made : made = msgs'[i].todo => Behind(made)'
    PROVE  PolygonsFirst'
<1>1. \A c \in DOMAIN known : HoldsBack(known[c], c)'
    BY HoldsKept
<1>2. NewReady(from) /\ \A c \in DOMAIN chords' : \A chord : chord = chords'[c] => HoldsBack(chord, c)'
    BY <1>1, SentHolds
<1> QED
    BY <1>2, FirstKept

\* The last part of a chord leaves the polygons of all the lists done.
LEMMA ClosesBehind ==
    ASSUME NEW t, NEW from, Order(t, from), Gone(from, t), AtWork(t),
           rows'[msgs[t].row].status \in {"SUCCESS", "FAILED"}, NEW groups, Closes(t, groups)
    PROVE  Behind(groups)'
<1>1. CASE groups = <<>>
    BY <1>1 DEF Behind
<1>2. ASSUME NEW c \in DOMAIN chords, c = msgs[t].chord, ~chords[c].broken, groups = chords[c].body,
             PartsOf(Acked(t), c) = {}
      PROVE  Behind(groups)'
    <2>1. SUFFICES ASSUME NEW i \in DOMAIN groups, NEW j \in DOMAIN groups[i], groups[i][j].kind = "extract",
                          groups[i][j].row \in DOMAIN rows', NEW p \in DOMAIN rows', IsPair(p, groups[i][j].row)'
                   PROVE  Done(p)'
        BY DEF Behind, Rows
    <2>2. PICK m : m = groups[i][j]
        OBVIOUS
    <2>3. HeldBack(m, c)
        BY <1>2, <2>1, <2>2 DEF Order, PolygonsFirst, HoldsBack
    <2>4. Fresh(m, rows)
        BY <1>2, <2>1, <2>2 DEF Order, Typed, IsQueue, GroupsFit
    <2>5. m.row \in Rows
        <3>1. m.row \in 0..Len(rows) /\ rows \in Seq(RowRecord) /\ rows' \in Seq(RowRecord)
            BY <2>4 DEF Fresh, Refers, Order, Typed, IsTable
        <3> QED
            BY <2>1, <2>2, <3>1 DEF Rows
    <2>6. p \in Rows /\ IsPair(p, m.row)
        BY <2>1, <2>2, <2>5, PairKept
    <2>7. rows[p].type = "POLYGON"
        BY <2>6 DEF IsPair
    <2>8. CASE Done(p)
        BY <2>6, <2>7, <2>8, DoneKept
    <2>9. ASSUME NEW s \in Messages, OnRow(s, p), msgs[s].chord = c
          PROVE  Done(p)'
        <3>1. s = t
            <4>1. SUFFICES ASSUME s # t PROVE FALSE
                OBVIOUS
            <4>2. msgs \in Seq(Message) /\ t \in Messages
                BY DEF Order, Typed, IsQueue
            <4>3. PICK o \in DOMAIN Acked(t) : Acked(t)[o] = msgs[s]
                BY <4>1, <4>2, AckedMessages
            <4>4. o \in PartsOf(Acked(t), c)
                BY <2>9, <4>3 DEF PartsOf
            <4> QED
                BY <1>2, <4>4
        <3>2. msgs[t].row = p
            BY <2>9, <3>1 DEF OnRow
        <3> QED
            BY <2>6, <2>7, <2>9, <3>1, <3>2, EndsDone
    <2> QED
        BY <2>1, <2>2, <2>3, <2>5, <2>6, <2>8, <2>9 DEF HeldBack
<1> QED
    BY <1>1, <1>2 DEF Closes

LEMMA WorksTurns ==
    ASSUME Typed, PagesOnce, NEW t \in Messages, AtWork(t), OnlyOwn(t), rows' \in Seq(RowRecord), Grows(rows, rows')
    PROVE  TurnsOnly(t)
<1>1. DOMAIN rows' = Rows /\ OneEach(rows')
    BY SameRowsOnce DEF OnlyOwn
<1>2. \A o \in Rows : ~OnRow(t, o) => rows'[o] = rows[o]
    BY DEF OnlyOwn, OnRow, AtWork
<1> QED
    BY <1>1, <1>2 DEF TurnsOnly

LEMMA WorksOrder ==
    ASSUME Typed, PagesOnce, PolygonsFirst, NEW t \in Messages, Works(t), rows' \in Seq(RowRecord), Grows(rows, rows')
    PROVE  PolygonsFirst'
<1>1. AtWork(t) /\ TurnsOnly(t)
    BY WorksTurns DEF Works
<1>2. chords \in Seq(Chord) /\ msgs \in Seq(Message) /\ IsQueue(msgs, chords, rows) /\ <<>> \in Groups
    BY MessageTypes DEF Typed, IsQueue
<1>3. AllQueued(<<>>) /\ Behind(<<>>)'
    BY DEF AllQueued, Behind
<1>4. CASE Quits(t)
    <2>1. PICK known, groups : Leaving(t, known, groups) /\ Closes(t, groups)
        BY <1>4 DEF Quits
    <2>2. Turns(t, TRUE, "queued") /\ rows'[msgs[t].row].status \in {"SUCCESS", "FAILED"}
        BY <1>4 DEF Quits
    <2>3. groups \in Groups /\ AllQueued(groups)
        <3>1. \A c \in DOMAIN chords : chords[c].body \in Groups /\ GroupsFit(chords[c].body, rows)
            <4>1. \A c \in DOMAIN chords : chords[c] \in Chord
                BY <1>2
            <4> QED
                BY <1>2, <4>1 DEF IsQueue, Chord
        <3>2. \A c \in DOMAIN chords : AllQueued(chords[c].body)
            BY <3>1 DEF GroupsFit, AllQueued, Fresh
        <3> QED
            BY <1>2, <1>3, <2>1, <3>1, <3>2 DEF Closes
    <2>4. PICK from : Order(t, from) /\ Gone(from, t) /\ Posted(from, known, groups)
        BY <1>1, <2>1, <2>2, <2>3, AckedOrder DEF Leaving
    <2>5. Behind(groups)'
        BY <1>1, <2>1, <2>2, <2>4, ClosesBehind
    <2>6. LeavesDone(t, from, known)
        BY <2>2 DEF LeavesDone
    <2>7. \A i \in DOMAIN msgs' : from[i] # t
        BY <2>4 DEF Gone
    <2> QED
        BY <2>1, <2>3, <2>4, <2>5, <2>6, <2>7, PlacesOf, PostedKept DEF Leaving
<1>5. CASE Breaks(t)
    <2>1. PICK known : Leaving(t, known, <<>>) /\ \A c \in DOMAIN chords : c = msgs[t].chord => known[c].broken
        BY <1>5 DEF Breaks
    <2>2. Turns(t, TRUE, "queued")
        BY <1>5 DEF Breaks
    <2>3. PICK from : Order(t, from) /\ Gone(from, t) /\ Posted(from, known, <<>>)
        BY <1>1, <1>3, <2>1, <2>2, AckedOrder DEF Leaving
    <2>4. LeavesDone(t, from, known)
        BY <2>1 DEF LeavesDone
    <2>5. \A i \in DOMAIN msgs' : from[i] # t
        BY <2>3 DEF Gone
    <2> QED
        BY <1>2, <1>3, <2>1, <2>3, <2>4, <2>5, PlacesOf, PostedKept DEF Leaving
<1>6. CASE Shifts(t)
    <2>1. PICK m : Shifted(t, m) /\ m.pc # "made" /\ Turns(t, FALSE, m.pc)
        BY <1>6 DEF Shifts
    <2>2. m \in Message /\ Same(m, msgs[t]) /\ msgs' = [msgs EXCEPT ![t] = m] /\ chords' = chords
        BY <2>1 DEF Shifted
    <2>3. msgs' \in Seq(Message)
        BY <1>2, <2>2 DEF Messages
    <2>4. PICK known : known = chords
        OBVIOUS
    <2>5. MovesTo(t, m, known, <<>>)
        BY <1>3, <2>1, <2>2, <2>3, <2>4, NothingOpens DEF MovesTo
    <2>6. PICK from : Order(t, from) /\ Posted(from, known, <<>>) /\ StaysAs(t, m, from)
        BY <1>1, <2>5, MovedOrder
    <2>7. LeavesDone(t, from, known)
        BY <2>6 DEF LeavesDone, StaysAs
    <2>8. \A i \in DOMAIN msgs' : from[i] = t => msgs'[i].pc # "made"
        BY <2>1, <2>6 DEF StaysAs
    <2>9. known \in Seq(Chord) /\ DOMAIN known = DOMAIN chords
          /\ \A c \in DOMAIN chords : known[c].body = chords[c].body /\ (chords[c].broken => known[c].broken)
        BY <1>2, <2>4
    <2> QED
        BY <1>2, <1>3, <2>6, <2>7, <2>8, <2>9, PlacesOf, PostedKept
<1> QED
    BY <1>4, <1>5, <1>6 DEF Works

LEMMA DispatchOrder ==
    ASSUME Typed, PagesOnce, PolygonsFirst, NEW t \in Messages, Dispatch(t), rows' \in Seq(RowRecord), Grows(rows, rows')
    PROVE  PolygonsFirst'
<1>1. rows' = rows /\ DOMAIN rows' = Rows
    BY DEF Dispatch, Rows
<1>2. PICK groups : groups = msgs[t].todo
    OBVIOUS
<1>3. /\ AtWork(t) /\ msgs[t].pc = "made" /\ groups \in Groups /\ GroupsFit(groups, rows)
    BY <1>2, DispatchIs
<1>4. PICK m \in Message : /\ Same(m, msgs[t]) /\ m.pc = "sent"
                           /\ Opened([msgs EXCEPT ![t] = m], chords, groups, msgs', chords')
    BY <1>2, DispatchIs
<1>5. TurnsOnly(t)
    BY <1>1, <1>3, WorksTurns DEF OnlyOwn
<1>6. Turns(t, FALSE, m.pc)
    BY <1>1, <1>3 DEF Turns
<1>7. AllQueued(groups)
    BY <1>3 DEF GroupsFit, AllQueued, Fresh
<1>8. PICK known : known = chords
    OBVIOUS
<1>9. PICK from : Order(t, from) /\ Posted(from, known, groups) /\ StaysAs(t, m, from)
    <2>1. MovesTo(t, m, known, groups)
        BY <1>4, <1>6, <1>7, <1>8 DEF MovesTo
    <2> QED
        BY <1>5, <2>1, MovedOrder
<1>10. Behind(groups)
    BY <1>2, <1>3 DEF PolygonsFirst
<1>11. Behind(groups)'
    BY <1>3, <1>9, <1>10, BehindKept
<1>12. LeavesDone(t, from, known)
    BY <1>9 DEF LeavesDone, StaysAs
<1>13. \A i \in DOMAIN msgs' : from[i] = t => msgs'[i].pc # "made"
    BY <1>4, <1>9 DEF StaysAs
<1>14. known \in Seq(Chord) /\ DOMAIN known = DOMAIN chords
       /\ \A c \in DOMAIN chords : known[c].body = chords[c].body /\ (chords[c].broken => known[c].broken)
    BY <1>8 DEF Typed, IsQueue
<1> QED
    BY <1>3, <1>9, <1>11, <1>12, <1>13, <1>14, PlacesOf, PostedKept

\* A message other than a list's, of a group that is alone, waits for nothing.
LEMMA AloneBehind ==
    ASSUME NEW more, \A j \in DOMAIN more : \A l \in DOMAIN rows' :
                        (more[j].kind = "extract" /\ more[j].row = l) => rows'[l].type # "EXPOSURE_LIST"
    PROVE  Behind(<<more>>)'
<1>1. DOMAIN <<more>> = {1} /\ <<more>>[1] = more
    OBVIOUS
<1>2. PICK groups : groups = <<more>>
    OBVIOUS
<1>3. Behind(groups)'
    <2>1. SUFFICES ASSUME NEW i \in DOMAIN groups, NEW j \in DOMAIN groups[i], groups[i][j].kind = "extract",
                          groups[i][j].row \in DOMAIN rows', NEW p \in DOMAIN rows', IsPair(p, groups[i][j].row)'
                   PROVE  FALSE
        BY DEF Behind, Rows
    <2>2. j \in DOMAIN more /\ groups[i][j] = more[j]
        BY <1>1, <1>2, <2>1
    <2> QED
        BY <2>1, <2>2 DEF IsPair
<1> QED
    BY <1>2, <1>3

LEMMA PassesOrder ==
    ASSUME Typed, PagesOnce, PolygonsFirst, NEW t \in Messages, Passes(t), rows' \in Seq(RowRecord), Grows(rows, rows')
    PROVE  PolygonsFirst'
<1>1. /\ msgs[t].kind # "extract" /\ DOMAIN rows' = Rows
      /\ \A o \in Rows : rows[o].type # "EXPOSURE_DETAIL" => rows'[o] = rows[o]
    BY DEF Passes
<1>2. TurnsOnly(t) /\ ~AtWork(t)
    BY <1>1, SameRowsOnce DEF TurnsOnly, AtWork
<1>3. PICK more : Hands(t, more)
    BY DEF Passes
<1>4. PICK known, groups : known = chords /\ groups = <<more>>
    OBVIOUS
<1>5. Opened(Acked(t), known, groups, msgs', chords')
    BY <1>3, <1>4, HandsOpens DEF Hands
<1>6. DOMAIN groups = {1} /\ groups[1] = more
    BY <1>4
<1>7. AllQueued(groups)
    BY <1>3, <1>6 DEF AllQueued, Hands, Others
<1>8. PICK from : Order(t, from) /\ Gone(from, t) /\ Posted(from, known, groups)
    BY <1>2, <1>5, <1>7, AckedOrder
<1>9. Behind(groups)'
    BY <1>3, <1>4, AloneBehind DEF Hands, Others
<1>10. LeavesDone(t, from, known)
    BY <1>2 DEF LeavesDone
<1>11. \A i \in DOMAIN msgs' : from[i] # t
    BY <1>8 DEF Gone
<1>12. known \in Seq(Chord) /\ DOMAIN known = DOMAIN chords
       /\ \A c \in DOMAIN chords : known[c].body = chords[c].body /\ (chords[c].broken => known[c].broken)
    BY <1>4 DEF Typed, IsQueue
<1>13. \E n \in Nat : DOMAIN groups = 1..n
    <2>1. DOMAIN groups = 1..1
        BY <1>6
    <2> QED
        BY <2>1
<1> QED
    BY <1>8, <1>9, <1>10, <1>11, <1>12, <1>13, PostedKept

LEMMA ListOrder ==
    ASSUME Typed, PagesOnce, PolygonsFirst, NEW t \in Messages, ListMakes(t), rows' \in Seq(RowRecord), Grows(rows, rows')
    PROVE  PolygonsFirst'
<1>1. PICK row \in RowRecord, specs \in Seq(SpecRecord), todo \in Groups :
        /\ Makes(t, row, NewRows(specs), todo)
        /\ todo = <<>> \/ \E b : b.kind = "batch" /\ todo = <<<<b>>>>
    BY DEF ListMakes
<1>2. OneEach(rows')
    <2>1. PagesOnce'
        BY ListPages
    <2> QED
        BY <2>1 DEF PagesOnce
<1>3. ASSUME NEW o \in DOMAIN rows' \ Rows PROVE rows'[o].runs = 0 /\ rows'[o].status = "PENDING"
    <2>1. PICK i : rows'[o] = Row(specs[i].type, specs[i].item, specs[i].parent)
        BY <1>1, ListRowsNew
    <2> QED
        BY <2>1 DEF Row
<1>4. /\ AtWork(t) /\ Turns(t, FALSE, "sent")
      /\ \A o \in Rows \ {msgs[t].row} : rows'[o] = rows[o]
    BY <1>1 DEF Makes
<1>5. TurnsOnly(t)
    BY <1>2, <1>3, <1>4 DEF TurnsOnly, OnRow, AtWork
<1>6. PICK m : Shifted(t, m) /\ m.todo = todo /\ m.pc # "queued"
    BY <1>1 DEF Makes
<1>7. m \in Message /\ Same(m, msgs[t]) /\ msgs' = [msgs EXCEPT ![t] = m] /\ chords' = chords
    BY <1>6 DEF Shifted
<1>8. Turns(t, FALSE, m.pc)
    BY <1>4 DEF Turns
<1>9. PICK known : known = chords
    OBVIOUS
<1>10. AllQueued(<<>>) /\ Behind(<<>>)' /\ DOMAIN <<>> = 1..0
    BY DEF AllQueued, Behind
<1>11. msgs' \in Seq(Message)
    BY <1>7 DEF Messages, Typed, IsQueue
<1>12. MovesTo(t, m, known, <<>>)
    BY <1>7, <1>8, <1>9, <1>10, <1>11, NothingOpens DEF MovesTo
<1>13. PICK from : Order(t, from) /\ Posted(from, known, <<>>) /\ StaysAs(t, m, from)
    BY <1>5, <1>12, MovedOrder
<1>14. LeavesDone(t, from, known)
    BY <1>13 DEF LeavesDone, StaysAs
<1>15. Behind(todo)'
    <2>1. CASE todo = <<>>
        BY <1>10, <2>1
    <2>2. CASE todo # <<>>
        <3>1. PICK b : b.kind = "batch" /\ todo = <<<<b>>>>
            BY <1>1, <2>2
        <3>2. PICK more : more = <<b>>
            OBVIOUS
        <3>3. \A j \in DOMAIN more : more[j].kind # "extract"
            BY <3>1, <3>2
        <3> QED
            BY <3>1, <3>2, <3>3, AloneBehind
    <2> QED
        BY <2>1, <2>2
<1>16. \A i \in DOMAIN msgs' : from[i] = t => \A made : made = msgs'[i].todo => Behind(made)'
    BY <1>6, <1>13, <1>15 DEF StaysAs
<1>17. known \in Seq(Chord) /\ DOMAIN known = DOMAIN chords
       /\ \A c \in DOMAIN chords : known[c].body = chords[c].body /\ (chords[c].broken => known[c].broken)
    BY <1>9 DEF Typed, IsQueue
<1>18. \E n \in Nat : DOMAIN <<>> = 1..n
    BY <1>10
<1> QED
    BY <1>10, <1>13, <1>14, <1>16, <1>17, <1>18, PostedKept

\* The lists that a page runs have their polygons with them, or done.
LEMMA PageBehind ==
    ASSUME NEW t, NEW from, Order(t, from), NEW r, NEW hazards,
           NEW polygons \in Seq(Plain), NEW lists \in Seq(Plain),
           OpensParts(polygons, rows', r, "POLYGON", hazards), OpensParts(lists, rows', r, "EXPOSURE_LIST", hazards)
    PROVE  Behind(PageChord(polygons, lists))'
<1>1. PICK groups : groups = PageChord(polygons, lists)
    OBVIOUS
<1>2. groups = <<>> \/ (DOMAIN groups = {1, 2} /\ groups[1] = polygons /\ groups[2] = lists)
    BY <1>1 DEF PageChord
<1>3. Behind(groups)'
    <2>1. SUFFICES ASSUME NEW i \in DOMAIN groups, NEW j \in DOMAIN groups[i], groups[i][j].kind = "extract",
                          groups[i][j].row \in DOMAIN rows', NEW p \in DOMAIN rows', IsPair(p, groups[i][j].row)'
                   PROVE  \/ Done(p)'
                          \/ i # 1 /\ \E k \in DOMAIN groups[1] : groups[1][k].kind = "extract" /\ groups[1][k].row = p
        BY DEF Behind, Rows
    <2>2. PICK l : l = groups[i][j].row
        OBVIOUS
    <2>3. /\ rows'[p].type = "POLYGON" /\ rows'[l].type = "EXPOSURE_LIST"
          /\ rows'[p].parent = rows'[l].parent /\ rows'[p].item = rows'[l].item
        BY <2>1, <2>2 DEF IsPair
    <2>4. DOMAIN groups = {1, 2} /\ groups[1] = polygons /\ groups[2] = lists
        BY <1>2, <2>1
    <2>5. i # 1
        <3>1. SUFFICES ASSUME i = 1 PROVE FALSE
            OBVIOUS
        <3>2. PICK h, c : /\ c = Newest(Existing(rows', r, "POLYGON", h))
                          /\ polygons[j] = Extract(c, 0) /\ c \in Existing(rows', r, "POLYGON", h)
            BY <2>1, <2>4, <3>1 DEF OpensParts
        <3>3. groups[i][j] = Extract(c, 0)
            BY <2>4, <3>1, <3>2
        <3>4. l = c /\ rows'[c].type = "POLYGON"
            BY <2>2, <3>2, <3>3 DEF Extract, Existing
        <3> QED
            BY <2>3, <3>4
    <2>6. PICK h, c : /\ h \in Listing(hazards) /\ c = Newest(Existing(rows', r, "EXPOSURE_LIST", h))
                      /\ lists[j] = Extract(c, 0) /\ c \in Existing(rows', r, "EXPOSURE_LIST", h)
        BY <2>1, <2>4, <2>5 DEF OpensParts
    <2>7. l = c /\ rows'[l].parent = r /\ rows'[l].item = h
        <3>1. i = 2
            BY <2>1, <2>4, <2>5
        <3>2. groups[i][j] = Extract(c, 0)
            BY <2>4, <2>6, <3>1
        <3> QED
            BY <2>2, <2>6, <3>2 DEF Extract, Existing
    <2>8. PICK set, q : set = Existing(rows', r, "POLYGON", h) /\ q = Newest(set)
        OBVIOUS
    <2>9. p \in set /\ set \subseteq DOMAIN rows'
        BY <2>1, <2>3, <2>7, <2>8 DEF Existing
    <2>10. q \in set
        <3>1. PICK n : n = Len(rows')
            OBVIOUS
        <3>2. n \in Nat /\ set \subseteq 1..n
            BY <2>9, <3>1 DEF Order
        <3> QED
            BY <2>8, <2>9, <3>2, NewestOfSet
    <2>11. q = p
        <3>1. Twins(rows'[q], rows'[p])
            BY <2>3, <2>7, <2>8, <2>10 DEF Existing, Twins, PdcChildTypes
        <3> QED
            BY <2>9, <2>10, <3>1 DEF Order, OneEach
    <2>12. rows'[p].status = "SUCCESS" \/ \E k \in DOMAIN polygons : polygons[k] = Extract(p, 0)
        BY <2>6, <2>8, <2>11 DEF OpensParts
    <2>13. CASE rows'[p].status = "SUCCESS"
        BY <2>1, <2>3, <2>13, EndedKept DEF Ended
    <2>14. CASE \E k \in DOMAIN polygons : polygons[k] = Extract(p, 0)
        <3>1. PICK k \in DOMAIN groups[1] : groups[1][k] = Extract(p, 0)
            BY <2>4, <2>14
        <3> QED
            BY <2>5, <3>1 DEF Extract
    <2> QED
        BY <2>12, <2>13, <2>14
<1> QED
    BY <1>1, <1>3

LEMMA PageOrder ==
    ASSUME Typed, Pdc, PagesOnce, PolygonsFirst, NEW t \in Messages, PageMakes(t), rows' \in Seq(RowRecord), Grows(rows, rows')
    PROVE  PolygonsFirst'
<1>1. PICK r, specs : r = msgs[t].row /\ specs = msgs[t].todo
    OBVIOUS
<1>2. PICK next \in Seq(RowRecord), m \in Message, polygons \in Seq(Plain), lists \in Seq(Plain) :
        /\ msgs[t].kind = "extract" /\ msgs[t].pc = "stored" /\ r \in Rows /\ rows[r].type = "HAZARD"
        /\ Len(next) \in {0, 1} /\ \A i \in DOMAIN next : next[i].type = "HAZARD" /\ next[i].parent = 0
        /\ rows' = (rows \o NewRows(specs)) \o next
        /\ m.kind = "extract" /\ m.row = r /\ m.chord = msgs[t].chord /\ m.next = msgs[t].next
        /\ m.pc = (IF m.todo = <<>> THEN "sent" ELSE "made") /\ m.todo = PageChord(polygons, lists)
        /\ OpensParts(polygons, rows', r, "POLYGON", Hazards[rows[r].item])
        /\ OpensParts(lists, rows', r, "EXPOSURE_LIST", Hazards[rows[r].item])
        /\ msgs' = [msgs EXCEPT ![t] = m] \o [i \in DOMAIN next |-> Extract(Len(rows'), 0)]
        /\ UNCHANGED <<chords, spent>>
    BY <1>1 DEF PageMakes
<1>3. specs \in Seq(SpecRecord) /\ msgs \in Seq(Message) /\ chords \in Seq(Chord) /\ rows \in Seq(RowRecord)
    <2>1. SpecsFit(specs, r, rows)
        BY <1>1, <1>2, MessageOf DEF MessageFits
    <2> QED
        BY <2>1, MessageOf DEF SpecsFit, IsQueue
<1>4. PageAdds(specs, next)
    BY <1>2, <1>3, PageAddsRows
<1>5. OneEach(rows')
    <2>1. PagesOnce'
        BY PageMadePages
    <2> QED
        BY <2>1 DEF PagesOnce
<1>6. ASSUME NEW o \in DOMAIN rows' \ Rows
      PROVE  rows'[o].type = "HAZARD" \/ (rows'[o].runs = 0 /\ rows'[o].status = "PENDING")
    <2>1. CASE o > Len(rows) + Len(specs)
        BY <1>4, <2>1 DEF PageAdds
    <2>2. CASE ~(o > Len(rows) + Len(specs))
        <3>1. o \in (Len(rows) + 1)..(Len(rows) + Len(specs))
            BY <1>4, <2>2 DEF PageAdds
        <3>2. PICK i : i = o - Len(rows)
            OBVIOUS
        <3>3. i \in DOMAIN specs /\ rows'[o] = Row(specs[i].type, specs[i].item, specs[i].parent)
            BY <1>4, <3>1, <3>2 DEF PageAdds
        <3> QED
            BY <3>3 DEF Row
    <2> QED
        BY <2>1, <2>2
<1>7. \A o \in Rows : rows'[o] = rows[o]
    BY <1>4 DEF PageAdds
<1>8. TurnsOnly(t)
    BY <1>5, <1>6, <1>7 DEF TurnsOnly
<1>9. Turns(t, FALSE, m.pc) /\ Same(m, msgs[t])
    BY <1>1, <1>2, <1>7 DEF Turns, Same
<1>10. PICK more : more = [i \in DOMAIN next |-> Extract(Len(rows'), 0)]
    OBVIOUS
<1>11. more \in Seq(Message) /\ \A j \in DOMAIN more : more[j] = Extract(Len(rows'), 0)
    <2>1. PICK e : e = Extract(Len(rows'), 0)
        OBVIOUS
    <2>2. Len(rows') \in 0..Len(rows') /\ 0 \in 0..Len(rows') /\ Len(rows') \in Nat
        OBVIOUS
    <2>3. e \in Message
        BY <2>1, <2>2, ExtractFresh, MessageTypes
    <2>4. more \in [1..Len(next) -> Message] /\ Len(next) \in Nat
        BY <1>10, <2>1, <2>3
    <2> QED
        BY <1>10, <2>1, <2>4
<1>12. PICK known, groups : known = chords /\ groups = <<more>>
    OBVIOUS
<1>13. DOMAIN groups = {1} /\ groups[1] = more
    BY <1>12
<1>14. AllQueued(groups)
    BY <1>11, <1>13 DEF AllQueued, Extract
<1>15. MovesTo(t, m, known, groups)
    <2>1. Opened([msgs EXCEPT ![t] = m], chords, <<more>>, [msgs EXCEPT ![t] = m] \o more, chords)
        BY <1>11, HandsOpens
    <2>2. msgs' = [msgs EXCEPT ![t] = m] \o more /\ chords' = chords
        BY <1>2, <1>10
    <2>3. Opened([msgs EXCEPT ![t] = m], known, groups, msgs', chords')
        BY <1>12, <2>1, <2>2
    <2> QED
        BY <1>9, <1>14, <2>3 DEF MovesTo
<1>16. PICK from : Order(t, from) /\ Posted(from, known, groups) /\ StaysAs(t, m, from)
    BY <1>8, <1>15, MovedOrder
<1>17. Behind(groups)'
    <2>1. ASSUME NEW j \in DOMAIN more, NEW l \in DOMAIN rows', more[j].row = l
          PROVE  rows'[l].type # "EXPOSURE_LIST"
        <3>1. more[j] = Extract(Len(rows'), 0) /\ DOMAIN next # {}
            BY <1>10, <1>11, <2>1
        <3>2. l = Len(rows')
            BY <2>1, <3>1 DEF Extract
        <3>3. Len(next) = 1
            <4>1. Len(next) = 0 => DOMAIN next = {}
                OBVIOUS
            <4> QED
                BY <1>2, <3>1, <4>1
        <3>4. l > Len(rows) + Len(specs)
            <4>1. PICK n, size : n = Len(rows') /\ size = Len(rows) + Len(specs) + 1
                OBVIOUS
            <4>2. DOMAIN rows' = 1..size /\ size \in Nat /\ Len(rows) \in Nat /\ Len(specs) \in Nat
                BY <1>4, <3>3, <4>1 DEF PageAdds
            <4>3. n \in Nat /\ DOMAIN rows' = 1..n
                BY <4>1
            <4>4. n = size
                BY <4>2, <4>3
            <4> QED
                BY <3>2, <4>1, <4>2, <4>4
        <3> QED
            BY <1>4, <2>1, <3>4 DEF PageAdds
    <2> QED
        BY <1>12, <2>1, AloneBehind
<1>18. LeavesDone(t, from, known)
    BY <1>16 DEF LeavesDone, StaysAs
<1>19. \A i \in DOMAIN msgs' : from[i] = t => \A made : made = msgs'[i].todo => Behind(made)'
    <2>1. PICK todo : todo = PageChord(polygons, lists)
        OBVIOUS
    <2>2. Behind(todo)'
        BY <1>2, <1>16, <2>1, PageBehind
    <2> QED
        BY <1>2, <1>16, <2>1, <2>2 DEF StaysAs
<1>20. known \in Seq(Chord) /\ DOMAIN known = DOMAIN chords
       /\ \A c \in DOMAIN chords : known[c].body = chords[c].body /\ (chords[c].broken => known[c].broken)
    BY <1>3, <1>12
<1>21. \E n \in Nat : DOMAIN groups = 1..n
    <2>1. DOMAIN groups = 1..1
        BY <1>13
    <2> QED
        BY <2>1
<1> QED
    BY <1>16, <1>17, <1>18, <1>19, <1>20, <1>21, PostedKept

\* A retrigger runs lists that have been run before.
LEMMA RetriggerOrder ==
    ASSUME Typed, PolygonsFirst, PdcPipelineRetrigger
    PROVE  PolygonsFirst'
<1>1. PICK groups \in Groups : Stages(groups) /\ Opened(msgs, chords, groups, msgs', chords')
    BY RetriggerOpens
<1>2. PICK more \in Seq(Message), first \in Nat, body \in Groups :
        /\ msgs' = msgs \o more
        /\ \A i \in DOMAIN groups : i < first => groups[i] = <<>>
        /\ \/ more = <<>> /\ chords' = chords
           \/ first \in DOMAIN groups /\ Alike(more, groups[first])
        /\ \A b \in DOMAIN body : \E p \in DOMAIN groups \ {first} : body[b] = groups[p]
        /\ \/ chords' = chords
           \/ /\ chords' = Append(chords, [left |-> Len(more), broken |-> FALSE, body |-> body])
              /\ \A j \in DOMAIN more : more[j].chord = Len(chords) + 1
    BY <1>1 DEF Opened
<1>3. msgs' = more /\ rows' = rows /\ Messages = {} /\ chords \in Seq(Chord)
    BY <1>2, RetriggerOpens DEF Messages, Typed, IsQueue
<1>4. PICK from, known : from = [i \in DOMAIN msgs' |-> 0] /\ known = chords
    OBVIOUS
<1>5. News(from, more, 0)
    <2>1. \A i \in DOMAIN more : i - 0 = i /\ 0 + i = i
        OBVIOUS
    <2>2. DOMAIN msgs' = DOMAIN more /\ \A i \in DOMAIN more : from[i] = 0 /\ msgs'[i] = more[i]
        BY <1>3, <1>4
    <2> QED
        BY <2>1, <2>2 DEF News
<1>6. Posted(from, known, groups)
    BY <1>2, <1>4, <1>5 DEF Posted
<1>7. ASSUME NEW i \in DOMAIN groups, NEW j \in DOMAIN groups[i]
      PROVE  /\ groups[i][j].pc = "queued"
             /\ groups[i][j].kind = "extract" =>
                    \E r \in Rows : groups[i][j].row = r /\ rows[r].status = "FAILED"
    <2>1. CASE i = 5
        BY <1>1, <1>7, <2>1 DEF Stages
    <2>2. CASE i # 5
        <3>1. FailedRows(groups[i], StageTypes[i])
            BY <1>1, <1>7, <2>2 DEF Stages
        <3>2. PICK r \in Rows : groups[i][j] = Extract(r, 0) /\ rows[r].status = "FAILED"
            BY <1>7, <3>1 DEF FailedRows
        <3> QED
            BY <3>2 DEF Extract
    <2> QED
        BY <2>1, <2>2
<1>8. AllQueued(groups)
    BY <1>7 DEF AllQueued
<1>9. \A i \in DOMAIN msgs' : from[i] = 0 /\ msgs'[i].pc = "queued"
    BY <1>4, <1>6, <1>8, NewsQueued
<1>10. ASSUME NEW p \in Rows, Done(p) PROVE Done(p)'
    BY <1>3, <1>9, <1>10 DEF Done, Running, Messages
<1>11. ASSUME NEW l \in Rows, Ready(l) PROVE Ready(l)'
    BY <1>3, <1>10, <1>11 DEF Ready, IsPair, Rows
<1>12. Behind(groups)'
    <2>1. SUFFICES ASSUME NEW i \in DOMAIN groups, NEW j \in DOMAIN groups[i], groups[i][j].kind = "extract",
                          groups[i][j].row \in DOMAIN rows', NEW p \in DOMAIN rows', IsPair(p, groups[i][j].row)'
                   PROVE  Done(p)'
        BY DEF Behind, Rows
    <2>2. PICK l \in Rows : groups[i][j].row = l /\ rows[l].status = "FAILED"
        BY <1>7, <2>1
    <2>3. p \in Rows /\ IsPair(p, l)
        BY <1>3, <2>1, <2>2 DEF IsPair, Rows
    <2>4. Ready(l)
        BY <2>2, <2>3 DEF PolygonsFirst, Ended, Begun, IsPair
    <2> QED
        BY <1>10, <2>3, <2>4 DEF Ready
<1>13. ASSUME NEW c \in DOMAIN known PROVE HoldsBack(known[c], c)'
    <2>1. HoldsBack(known[c], c)
        BY <1>4, <1>13 DEF PolygonsFirst
    <2>2. ASSUME NEW m, HeldBack(m, c) PROVE HeldBack(m, c)'
        BY <1>3, <1>10, <2>2 DEF HeldBack, IsPair, Rows
    <2> QED
        BY <2>1, <2>2 DEF HoldsBack
<1>14. NewReady(from) /\ \A c \in DOMAIN chords' : \A chord : chord = chords'[c] => HoldsBack(chord, c)'
    <2>1. known \in Seq(Chord)
        BY <1>3, <1>4
    <2> QED
        BY <1>6, <1>12, <1>13, <2>1, PlacesOf, SentHolds
<1>15. ASSUME NEW r \in DOMAIN rows' PROVE Counted(r)' /\ Ended(r)'
    <2>1. Counted(r)'
        BY <1>9 DEF Counted, Running, Messages
    <2>2. Ended(r)'
        BY <1>3, <1>10, <1>15 DEF PolygonsFirst, Ended, Rows
    <2> QED
        BY <2>1, <2>2
<1>16. ASSUME NEW l \in DOMAIN rows', Begun(l)' PROVE Ready(l)'
    <2>1. CASE rows'[l].runs > 0
        BY <1>3, <1>11, <1>16, <2>1 DEF PolygonsFirst, Begun, Rows
    <2>2. CASE \E i \in DOMAIN msgs' : OnRow(i, l)'
        BY <1>9, <1>14, <1>16, <2>2 DEF NewReady, OnRow
    <2> QED
        BY <1>16, <2>1, <2>2 DEF Begun, Messages
<1>17. (\A r \in Rows : Counted(r) /\ Ended(r) /\ (Begun(r) => Ready(r)))'
    BY <1>15, <1>16 DEF Rows
<1>18. (\A s \in Messages : msgs[s].pc = "made" => Behind(msgs[s].todo))'
    BY <1>9 DEF Messages
<1>19. (\A c \in DOMAIN chords : HoldsBack(chords[c], c))'
    BY <1>14
<1> QED
    BY <1>17, <1>18, <1>19 DEF PolygonsFirst

-----------------------------------------------------------------------------
(* Every step of PDC, until a sweep.                                          *)

LEMMA PdcStepOrder ==
    ASSUME Typed, Pdc, PagesOnce, PolygonsFirst, NEW t \in Messages, PdcStep(t)
    PROVE  PolygonsFirst'
<1>1. rows' \in Seq(RowRecord) /\ Grows(rows, rows')
    BY PdcStepProper DEF Proper, TableGoesOn, IsTable
<1>2. CASE Dispatch(t)
    BY <1>1, <1>2, DispatchOrder
<1>3. CASE Finish(t) \/ WorkerLost(t) \/ PdcHazardFetched(t) \/ PdcFetch(t) \/ NoData(t)
    <2>1. Works(t)
        BY <1>3, FinishWorks, LostWorks, HazardFetchedWorks, FetchWorks
    <2> QED
        BY <1>1, <2>1, WorksOrder
<1>4. CASE RequestError(t) \/ RateLimited(t) \/ OtherError(t)
    <2>1. Works(t)
        BY <1>4, FailsWorks, OtherWorks DEF RequestError, RateLimited
    <2> QED
        BY <1>1, <2>1, WorksOrder
<1>5. CASE PdcHazardMade(t)
    BY <1>1, <1>5, PdcHazardMadeStep, PageOrder
<1>6. CASE PdcList(t)
    BY <1>1, <1>6, ListMakesOf, WorksOrder, ListOrder
<1>7. CASE PdcBatch(t) \/ PdcTrigger(t) \/ RunTransform(t, PdcReads(msgs[t].row))
    <2>1. Passes(t)
        BY <1>7, BatchPasses, TriggerPasses, TransformPasses
    <2> QED
        BY <1>1, <2>1, PassesOrder
<1> QED
    BY <1>2, <1>3, <1>4, <1>5, <1>6, <1>7 DEF PdcStep

OrderInv == Unswept => PolygonsFirst

LEMMA OrderInvInit == Init => OrderInv
<1> SUFFICES ASSUME Init, Pdc PROVE PolygonsFirst
    BY DEF OrderInv, Unswept
<1>1. /\ rows = <<Row("HAZARD", Pages[1], 0)>> /\ DOMAIN rows = {1} /\ chords = <<>>
      /\ DOMAIN msgs = {1} /\ msgs[1] = Extract(1, 0)
    BY PdcFirst
<1>2. rows[1].type = "HAZARD" /\ msgs[1].pc = "queued" /\ DOMAIN chords = {}
    BY <1>1 DEF Row, Extract
<1> QED
    BY <1>1, <1>2 DEF PolygonsFirst, Counted, Ended, Ready, IsPair, Rows, Messages

LEMMA OrderInvNext == Typed /\ AllAttended /\ PdcInv /\ OrderInv /\ [Next]_<<source, vars>> => OrderInv'
<1> SUFFICES ASSUME Typed, PdcInv, OrderInv, [Next]_<<source, vars>>, Unswept'
             PROVE  PolygonsFirst'
    BY DEF OrderInv
<1>1. /\ Unswept
      /\ UNCHANGED vars \/ PdcPipelineRetrigger \/ \E t \in Messages : PdcStep(t)
    BY UnsweptStep
<1>2. Pdc /\ PagesOnce /\ PolygonsFirst
    BY <1>1 DEF PdcInv, OrderInv, Unswept
<1>3. CASE UNCHANGED vars
    <2>1. UNCHANGED <<rows, msgs, chords>>
        BY <1>3 DEF vars
    <2> QED
        BY <1>2, <2>1 DEF PolygonsFirst, Counted, Ended, Begun, Ready, Done, Running, OnRow, IsPair,
                          Behind, HoldsBack, HeldBack, Rows, Messages
<1>4. CASE PdcPipelineRetrigger
    BY <1>2, <1>4, RetriggerOrder
<1>5. CASE \E t \in Messages : PdcStep(t)
    BY <1>2, <1>5, PdcStepOrder
<1> QED
    BY <1>1, <1>3, <1>4, <1>5

(* Until a sweep runs lists by themselves, a list has been run only when its     *)
(* polygon had been run to an end, whatever is lost, fails, is refused or is     *)
(* delivered again: a list is held back in the chord of the page's polygons for  *)
(* as long as a delivery of its polygon is a part of that chord, and a part      *)
(* leaves its chord only with its row ended or by breaking the chord.            *)
THEOREM PdcRunsPolygonsFirst == SourcesSpec => []PdcPolygonFirst
<1>1. Init => Typed /\ AllAttended /\ PdcInv /\ OrderInv
    BY InitEstablishes, PdcInvInit, OrderInvInit
<1>2. Typed /\ AllAttended /\ PdcInv /\ OrderInv /\ [Next]_<<source, vars>> => (Typed /\ AllAttended /\ PdcInv /\ OrderInv)'
    BY NextKeeps, PdcInvNext, OrderInvNext
<1>3. Typed /\ OrderInv => PdcPolygonFirst
    <2> SUFFICES ASSUME Typed, OrderInv, spent.sweeps = 0, NEW c \in Rows,
                        rows[c].type = "EXPOSURE_LIST", rows[c].runs > 0
                 PROVE  LET p == Newest(Existing(rows, rows[c].parent, "POLYGON", rows[c].item))
                        IN rows[p].runs > 1 \/ (rows[p].runs = 1 /\ rows[p].status # "IN_PROGRESS")
        BY DEF PdcPolygonFirst
    <2>1. PolygonsFirst
        <3>1. Pdc
            BY OnlyPdcLists DEF PdcChildTypes
        <3> QED
            BY <3>1 DEF OrderInv, Unswept
    <2>2. PICK set, p : set = Existing(rows, rows[c].parent, "POLYGON", rows[c].item) /\ p = Newest(set)
        OBVIOUS
    <2>3. p \in set
        <3>1. set # {}
            BY <2>2 DEF Typed, IsTable, ParentFits, Rows
        <3>2. PICK n : n = Len(rows)
            OBVIOUS
        <3>3. n \in Nat /\ set \subseteq 1..n
            BY <2>2, <3>2 DEF Typed, IsTable, Existing
        <3> QED
            BY <2>2, <3>1, <3>3, NewestOfSet
    <2>4. p \in Rows /\ IsPair(p, c)
        BY <2>2, <2>3 DEF Existing, IsPair, Rows
    <2>5. Done(p)
        BY <2>1, <2>4 DEF PolygonsFirst, Begun, Ready
    <2> QED
        BY <2>2, <2>5 DEF Done
<1> QED
    BY <1>1, <1>2, <1>3, PTL DEF SourcesSpec

-----------------------------------------------------------------------------
(* USGS: an earthquake that was extracted is transformed, its transform is on   *)
(* its way, or a file says by its row that it did not end well.                 *)

UsgsFiles == {"LOSSE", "ALERTS"}

\* The message runs the file p, is about to queue it, or will do so when it is taken.
Touches(m, table, p) ==
    /\ m.kind = "extract" /\ p \in DOMAIN table /\ table[p].type \in UsgsFiles
    /\ \/ m.row = p
       \/ m.pc = "queued" /\ m.failed = p /\ table[p].type = "LOSSE"
       \/ m.pc = "made" /\ \E j \in DOMAIN m.todo[1] : m.todo[1][j].row = p

TouchedOnce == \A s, t \in Messages, p \in Rows :
    (Touches(msgs[s], rows, p) /\ Touches(msgs[t], rows, p)) => s = t

\* The first group of a delivery: tasks of different rows.
Separate(g, table) ==
    /\ Starters(g)
    /\ \A j \in DOMAIN g : g[j].row \in DOMAIN table /\ g[j].failed \in {0, g[j].row}
    /\ \A i, j \in DOMAIN g : g[i].row = g[j].row => i = j

FilesOf(g, table, d) == \A j \in DOMAIN g : table[g[j].row].type \in UsgsFiles /\ table[g[j].row].parent = d

\* What a delivery of a query, and one of an earthquake, leaves to publish.
UsgsTodo(m, table) ==
    LET g == m.todo[1] IN
    /\ g \in Seq(Plain) /\ Separate(g, table)
    /\ \/ /\ table[m.row].type # "USGS_DETAIL" /\ m.todo = <<g>>
          /\ \A j \in DOMAIN g : table[g[j].row].type \notin UsgsFiles
       \/ /\ table[m.row].type = "USGS_DETAIL" /\ m.todo = <<g, <<Transform(m.row)>>>>
          /\ FilesOf(g, table, m.row)

\* A file is run as a part of a chord that the transform of its earthquake waits for.
UsgsMessage(m, known, table) ==
    /\ ~m.next
    /\ m.kind = "extract" =>
        /\ m.row \in DOMAIN table
        /\ table[m.row].type \notin UsgsFiles => m.chord = 0
        /\ table[m.row].type \in UsgsFiles =>
            /\ m.pc # "made" /\ m.chord \in DOMAIN known
            /\ known[m.chord].body = After(table[m.row].parent)
        /\ (m.pc = "queued" /\ m.failed \in DOMAIN table /\ table[m.failed].type = "LOSSE") =>
            m.row \in {m.failed, table[m.failed].parent}
        /\ m.pc = "made" => UsgsTodo(m, table)

\* A file that did not end well, and that nothing runs.
Spoiled(d) == \E p \in Rows :
    /\ rows[p].type \in UsgsFiles /\ rows[p].parent = d /\ rows[p].status # "SUCCESS"
    /\ \A t \in Messages : ~Touches(msgs[t], rows, p)

\* A delivery of the earthquake has made the chord, or will.
Prepares(t, d) ==
    /\ OnRow(t, d)
    /\ \/ msgs[t].pc = "made"
       \/ msgs[t].pc = "queued" /\ msgs[t].failed \in Rows /\ rows[msgs[t].failed].type = "LOSSE"
Prepared(d) == \E t \in Messages : Prepares(t, d)

QuakeFed(d) == d \in ended /\ Reads(d) /\ \A c \in Children(d) : Good(c) => Reads(c)

Cared(d) == Waiting(d) \/ Sent(d) \/ Prepared(d) \/ Spoiled(d) \/ QuakeFed(d)

AllCared == \A d \in Rows : (rows[d].type = "USGS_DETAIL" /\ rows[d].content # 0) => Cared(d)

\* What USGS serves never changes.
OneContent == (\A i \in Items : world[i].content = 1) /\ \A r \in Rows : rows[r].content \in {0, 1}

BrokenSpoils == \A c \in DOMAIN chords : (chords[c].broken /\ PartsOf(msgs, c) # {}) =>
    \A d \in Rows : chords[c].body = After(d) => Spoiled(d)

\* The children of an earthquake are its files.
OnlyFiles == \A c \in Rows :
    (rows[c].parent \in Rows /\ rows[rows[c].parent].type = "USGS_DETAIL") => rows[c].type \in UsgsFiles

UsgsHold ==
    /\ Bound(msgs, chords) /\ \A t \in Messages : UsgsMessage(msgs[t], chords, rows)
    /\ TouchedOnce /\ OneContent /\ OnlyFiles /\ BrokenSpoils /\ AllCared

-----------------------------------------------------------------------------
(* What the message of a step touches, it has touched before.                   *)

LEMMA TouchesLater ==
    ASSUME NEW table, NEW later, Grows(table, later), DOMAIN table \subseteq DOMAIN later,
           NEW m, NEW p \in DOMAIN table
    PROVE  Touches(m, later, p) <=> Touches(m, table, p)
BY DEF Touches, Grows

\* A message touches no row that is not there.
LEMMA TouchesOld ==
    ASSUME Typed, NEW t \in Messages, UsgsMessage(msgs[t], chords, rows), NEW later \in Seq(RowRecord), NEW p,
           Touches(msgs[t], later, p)
    PROVE  p \in Rows
<1>1. msgs[t].kind = "extract" /\ msgs[t].row \in Rows /\ p \in DOMAIN later
    BY DEF Touches, UsgsMessage, Rows
<1>2. msgs[t].failed \in 0..Len(rows) /\ Rows = 1..Len(rows)
    BY DEF Typed, IsTable, IsQueue, MessageFits, Refers, Messages, Rows
<1>3. CASE msgs[t].row = p
    BY <1>1, <1>3
<1>4. CASE msgs[t].pc = "made" /\ \E j \in DOMAIN msgs[t].todo[1] : msgs[t].todo[1][j].row = p
    BY <1>1, <1>4 DEF UsgsMessage, UsgsTodo, Separate, Rows
<1>5. CASE p = msgs[t].failed
    <2>1. p # 0
        BY <1>1
    <2> QED
        BY <1>2, <1>5, <2>1
<1> QED
    BY <1>3, <1>4, <1>5 DEF Touches

\* The rows of a step of t: its own row changes, and rows are added.
UsgsRows(t) ==
    /\ \A o \in Rows : rows'[o] = rows[o] \/ OnRow(t, o)
    /\ \A o \in DOMAIN rows' \ Rows :
        /\ rows'[o].status # "SUCCESS" /\ rows'[o].content = 0 /\ rows'[o].parent \in Rows
        /\ rows[rows'[o].parent].type = "USGS_DETAIL" => rows'[o].type \in UsgsFiles
    /\ Grows(rows, rows')

\* The messages of a step of t: it hands on what it touches.
HandsOn(t, from) ==
    /\ Carries(t, from)
    /\ \A i \in DOMAIN msgs' : from[i] \in {0, t} =>
            \A p \in Rows : Touches(msgs'[i], rows', p) => Touches(msgs[t], rows, p)
    /\ \A i, j \in DOMAIN msgs' : (from[i] \in {0, t} /\ from[j] \in {0, t}) =>
            \A p : (Touches(msgs'[i], rows', p) /\ Touches(msgs'[j], rows', p)) => i = j

\* A file belongs to an earthquake.
LEMMA FileParent ==
    ASSUME Typed, NEW c \in Rows, rows[c].type \in UsgsFiles
    PROVE  rows[c].parent \in Rows /\ rows[rows[c].parent].type = "USGS_DETAIL" /\ rows[c].parent # c
<1>1. /\ rows[c].parent \in 0..(c - 1) /\ rows[c].parent # 0 /\ Rows = 1..Len(rows) /\ Len(rows) \in Nat
      /\ rows[rows[c].parent].type = ParentType[rows[c].type]
    BY DEF Typed, IsTable, ParentFits, ParentType, UsgsFiles, Rows
<1>2. rows[rows[c].parent].type = "USGS_DETAIL"
    BY <1>1 DEF ParentType, UsgsFiles
<1> QED
    BY <1>1, <1>2

LEMMA TouchedBefore ==
    ASSUME Typed, Typed', \A s \in Messages : UsgsMessage(msgs[s], chords, rows), NEW t \in Messages, UsgsRows(t),
           NEW from, HandsOn(t, from), NEW i \in DOMAIN msgs', NEW p, Touches(msgs'[i], rows', p)
    PROVE  /\ p \in Rows => \E s \in Messages : Touches(msgs[s], rows, p) /\ (from[i] \in {0, t} => s = t)
                                                /\ (from[i] \notin {0, t} => s = from[i])
           /\ p \notin Rows => from[i] \in {0, t}
<1>1. Len(msgs) \in Nat /\ Messages = 1..Len(msgs) /\ from[i] \in 0..Len(msgs)
    BY DEF Typed, IsQueue, Messages, HandsOn, Carries
<1>2. rows \in Seq(RowRecord) /\ rows' \in Seq(RowRecord) /\ Grows(rows, rows') /\ DOMAIN rows \subseteq DOMAIN rows'
    BY DEF Typed, IsTable, UsgsRows, Grows
<1>3. CASE from[i] \in {0, t}
    BY <1>3 DEF HandsOn
<1>4. CASE from[i] \notin {0, t}
    <2>1. from[i] \in Messages /\ msgs'[i] = msgs[from[i]]
        BY <1>1, <1>4 DEF HandsOn, Carries
    <2>2. p \in Rows
        BY <1>2, <2>1, TouchesOld
    <2>3. Touches(msgs[from[i]], rows, p)
        BY <1>2, <2>1, <2>2, TouchesLater DEF Rows
    <2> QED
        BY <1>4, <2>1, <2>2, <2>3
<1> QED
    BY <1>3, <1>4

LEMMA OnceStays ==
    ASSUME Typed, Typed', \A s \in Messages : UsgsMessage(msgs[s], chords, rows), TouchedOnce, NEW t \in Messages,
           UsgsRows(t), NEW from, HandsOn(t, from)
    PROVE  TouchedOnce'
<1> SUFFICES ASSUME NEW i \in DOMAIN msgs', NEW j \in DOMAIN msgs', NEW p,
                    Touches(msgs'[i], rows', p), Touches(msgs'[j], rows', p)
             PROVE  i = j
    BY DEF TouchedOnce, Messages, Rows
<1>1. CASE from[i] \in {0, t} /\ from[j] \in {0, t}
    BY <1>1 DEF HandsOn
<1>2. CASE p \notin Rows
    BY <1>1, <1>2, TouchedBefore
<1>3. CASE p \in Rows /\ ~(from[i] \in {0, t} /\ from[j] \in {0, t})
    <2>1. PICK s \in Messages : /\ Touches(msgs[s], rows, p) /\ (from[i] \in {0, t} => s = t)
                                /\ (from[i] \notin {0, t} => s = from[i])
        BY <1>3, TouchedBefore
    <2>2. PICK o \in Messages : /\ Touches(msgs[o], rows, p) /\ (from[j] \in {0, t} => o = t)
                                /\ (from[j] \notin {0, t} => o = from[j])
        BY <1>3, TouchedBefore
    <2>3. s = o
        BY <1>3, <2>1, <2>2 DEF TouchedOnce
    <2>4. from[i] = from[j] /\ from[i] # 0
        BY <1>3, <2>1, <2>2, <2>3
    <2> QED
        BY <2>4 DEF HandsOn, Carries
<1> QED
    BY <1>1, <1>2, <1>3

LEMMA SpoiledStays ==
    ASSUME Typed, Typed', \A s \in Messages : UsgsMessage(msgs[s], chords, rows), NEW t \in Messages,
           UsgsRows(t), NEW from, HandsOn(t, from), NEW d, Spoiled(d)
    PROVE  Spoiled(d)'
<1>1. PICK p \in Rows : /\ rows[p].type \in UsgsFiles /\ rows[p].parent = d /\ rows[p].status # "SUCCESS"
                        /\ \A s \in Messages : ~Touches(msgs[s], rows, p)
    BY DEF Spoiled
<1>2. p \in DOMAIN rows'
    BY DEF Typed, IsTable, UsgsRows, Grows, Rows
<1>3. ~OnRow(t, p)
    BY <1>1 DEF OnRow, Touches, Rows
<1>4. rows'[p] = rows[p]
    BY <1>1, <1>3 DEF UsgsRows
<1>5. \A i \in DOMAIN msgs' : ~Touches(msgs'[i], rows', p)
    BY <1>1, TouchedBefore
<1> QED
    BY <1>1, <1>2, <1>4, <1>5 DEF Spoiled, Rows, Messages

\* What has been read stays read, if no other file of the earthquake becomes good.
LEMMA FedStays ==
    ASSUME Typed, Typed', OneContent, OneContent', NEW t \in Messages, UsgsRows(t),
           ended \subseteq ended', fed \subseteq fed', NEW d \in Rows, rows[d].content # 0, rows'[d].content # 0, QuakeFed(d),
           \A c \in Children(d) : Good(c)' => Good(c)
    PROVE  QuakeFed(d)'
<1>1. ASSUME NEW c \in Rows, Reads(c), rows[c].content # 0, rows'[c].content # 0 PROVE Reads(c)'
    <2>1. c \in DOMAIN rows' /\ rows'[c].content = rows[c].content
        BY <1>1 DEF OneContent, Typed, IsTable, UsgsRows, Grows, Rows
    <2> QED
        BY <1>1, <2>1 DEF Reads
<1>2. ASSUME NEW c \in DOMAIN rows', rows'[c].parent = d, Good(c)' PROVE Reads(c)'
    <2>1. c \in Rows
        BY <1>2 DEF UsgsRows, Good
    <2>2. c \in Children(d)
        BY <1>2, <2>1 DEF Children, UsgsRows, Grows, Rows
    <2>3. Good(c) /\ Reads(c)
        BY <1>2, <2>2 DEF QuakeFed
    <2> QED
        BY <1>1, <1>2, <2>1, <2>3 DEF Good
<1>3. d \in ended' /\ Reads(d)'
    BY <1>1 DEF QuakeFed
<1> QED
    BY <1>2, <1>3 DEF QuakeFed, Children, Rows


-----------------------------------------------------------------------------
(* What every step keeps.                                                       *)

\* The chords keep their bodies as long as they have parts.
BodiesStay ==
    /\ DOMAIN chords \subseteq DOMAIN chords'
    /\ \A c \in DOMAIN chords : chords'[c].body = chords[c].body \/ PartsOf(msgs', c) = {}

LEMMA TodoLater ==
    ASSUME NEW table, NEW later, Grows(table, later), DOMAIN table \subseteq DOMAIN later, NEW m, m.row \in DOMAIN table,
           UsgsTodo(m, table)
    PROVE  UsgsTodo(m, later)
<1>1. PICK g : g = m.todo[1]
    OBVIOUS
<1>2. /\ g \in Seq(Plain) /\ Separate(g, table)
      /\ \/ /\ table[m.row].type # "USGS_DETAIL" /\ m.todo = <<g>>
            /\ \A j \in DOMAIN g : table[g[j].row].type \notin UsgsFiles
         \/ /\ table[m.row].type = "USGS_DETAIL" /\ m.todo = <<g, <<Transform(m.row)>>>>
            /\ FilesOf(g, table, m.row)
    BY <1>1 DEF UsgsTodo
<1>3. \A r \in DOMAIN table : r \in DOMAIN later /\ later[r].type = table[r].type /\ later[r].parent = table[r].parent
    BY DEF Grows
<1>4. Separate(g, later)
    BY <1>2, <1>3 DEF Separate
<1>5. \A j \in DOMAIN g : g[j].row \in DOMAIN table
    BY <1>2 DEF Separate
<1>6. FilesOf(g, table, m.row) => FilesOf(g, later, m.row)
    BY <1>3, <1>5 DEF FilesOf
<1>7. \/ /\ later[m.row].type # "USGS_DETAIL" /\ m.todo = <<g>>
         /\ \A j \in DOMAIN g : later[g[j].row].type \notin UsgsFiles
      \/ /\ later[m.row].type = "USGS_DETAIL" /\ m.todo = <<g, <<Transform(m.row)>>>>
         /\ FilesOf(g, later, m.row)
    BY <1>2, <1>3, <1>5, <1>6
<1> QED
    BY <1>1, <1>2, <1>4, <1>7 DEF UsgsTodo

LEMMA MessageStays ==
    ASSUME Typed, rows' \in Seq(RowRecord), Grows(rows, rows'), DOMAIN rows \subseteq DOMAIN rows', NEW s \in Messages,
           UsgsMessage(msgs[s], chords, rows), DOMAIN chords \subseteq DOMAIN chords',
           msgs[s].chord \in DOMAIN chords => chords'[msgs[s].chord].body = chords[msgs[s].chord].body
    PROVE  UsgsMessage(msgs[s], chords', rows')
<1>1. PICK m : m = msgs[s]
    OBVIOUS
<1>2. UsgsMessage(m, chords, rows)
    BY <1>1
<1>3. m.failed \in 0..Len(rows) /\ Rows = 1..Len(rows)
    BY <1>1 DEF Typed, IsTable, IsQueue, MessageFits, Refers, Messages, Rows
<1>4. CASE m.kind # "extract"
    BY <1>1, <1>2, <1>4 DEF UsgsMessage
<1>5. CASE m.kind = "extract"
    <2>1. m.row \in DOMAIN rows /\ m.row \in DOMAIN rows' /\ rows'[m.row].type = rows[m.row].type
          /\ rows'[m.row].parent = rows[m.row].parent
        BY <1>2, <1>5 DEF UsgsMessage, Grows
    <2>2. m.pc = "made" => UsgsTodo(m, rows')
        BY <1>2, <1>5, <2>1, TodoLater DEF UsgsMessage
    <2>3. rows'[m.row].type \notin UsgsFiles => m.chord = 0
        BY <1>2, <1>5, <2>1 DEF UsgsMessage
    <2>4. rows'[m.row].type \in UsgsFiles =>
            /\ m.pc # "made" /\ m.chord \in DOMAIN chords'
            /\ chords'[m.chord].body = After(rows'[m.row].parent)
        BY <1>1, <1>2, <1>5, <2>1 DEF UsgsMessage
    <2>5. (m.pc = "queued" /\ m.failed \in DOMAIN rows' /\ rows'[m.failed].type = "LOSSE") =>
            m.row \in {m.failed, rows'[m.failed].parent}
        <3>1. m.failed \in DOMAIN rows' => m.failed \in Rows
            BY <1>3
        <3>2. m.failed \in Rows => /\ rows'[m.failed].type = rows[m.failed].type
                                   /\ rows'[m.failed].parent = rows[m.failed].parent
            BY DEF Grows, Rows
        <3> QED
            BY <1>2, <1>5, <3>1, <3>2 DEF UsgsMessage, Rows
    <2> QED
        BY <1>1, <1>2, <1>5, <2>1, <2>2, <2>3, <2>4, <2>5 DEF UsgsMessage
<1> QED
    BY <1>4, <1>5

LEMMA MessagesStay ==
    ASSUME Typed, Typed', \A s \in Messages : UsgsMessage(msgs[s], chords, rows), NEW t \in Messages, UsgsRows(t),
           NEW from, Carries(t, from), BodiesStay,
           \A i \in DOMAIN msgs' : from[i] \in {0, t} => UsgsMessage(msgs'[i], chords', rows')
    PROVE  (\A s \in Messages : UsgsMessage(msgs[s], chords, rows))'
<1> SUFFICES ASSUME NEW i \in DOMAIN msgs', from[i] \notin {0, t}
             PROVE  UsgsMessage(msgs'[i], chords', rows')
    BY DEF Messages
<1>1. from[i] \in Messages /\ msgs'[i] = msgs[from[i]]
    BY DEF Typed, IsQueue, Messages, Carries
<1>2. i \in PartsOf(msgs', msgs'[i].chord)
    BY DEF PartsOf
<1>3. rows' \in Seq(RowRecord) /\ Grows(rows, rows') /\ DOMAIN rows \subseteq DOMAIN rows'
    BY DEF Typed, IsTable, UsgsRows, Grows
<1> QED
    BY <1>1, <1>2, <1>3, MessageStays DEF BodiesStay

LEMMA BrokenStays ==
    ASSUME Typed, Typed', Bound(msgs, chords), \A s \in Messages : UsgsMessage(msgs[s], chords, rows), BrokenSpoils,
           NEW t \in Messages, UsgsRows(t), NEW from, HandsOn(t, from), BodiesStay,
           \A i \in DOMAIN msgs' : from[i] = 0 => msgs'[i].chord \notin DOMAIN chords,
           \A c \in DOMAIN chords' \ DOMAIN chords : ~chords'[c].broken,
           \A c \in DOMAIN chords : chords'[c].broken =>
                chords[c].broken \/ \A d \in Rows : chords[c].body = After(d) => Spoiled(d)'
    PROVE  BrokenSpoils'
<1> SUFFICES ASSUME NEW c \in DOMAIN chords, chords'[c].broken, NEW i \in DOMAIN msgs', msgs'[i].chord = c,
                    NEW d \in DOMAIN rows', chords'[c].body = After(d)
             PROVE  Spoiled(d)'
    BY DEF BrokenSpoils, PartsOf, Rows
<1>1. PICK s : s = from[i]
    OBVIOUS
<1>2. s \in Messages /\ msgs[s].chord = c
    BY <1>1 DEF Typed, IsQueue, Messages, HandsOn, Carries, Same
<1>3. PartsOf(msgs, c) # {} /\ PartsOf(msgs', c) # {}
    BY <1>2 DEF PartsOf, Messages
<1>4. chords[c].body = After(d)
    BY <1>3 DEF BodiesStay
<1>5. c # 0
    BY DEF Typed, IsQueue
<1>6. msgs[s].kind = "extract" /\ UsgsMessage(msgs[s], chords, rows)
    BY <1>2, <1>5 DEF Bound, Messages
<1>7. rows[msgs[s].row].type \in UsgsFiles /\ chords[c].body = After(rows[msgs[s].row].parent) /\ msgs[s].row \in Rows
    BY <1>2, <1>5, <1>6 DEF UsgsMessage, Rows
<1>8. rows[msgs[s].row].parent \in Rows
    BY <1>7, FileParent
<1>9. d \in Rows
    <2>1. d \in Nat /\ rows[msgs[s].row].parent \in Nat
        BY <1>8 DEF Typed, IsTable, Rows
    <2>2. d = rows[msgs[s].row].parent
        BY <1>4, <1>7, <2>1, AfterIs
    <2> QED
        BY <1>8, <2>2
<1>10. CASE chords[c].broken
    BY <1>3, <1>4, <1>9, <1>10, SpoiledStays DEF BrokenSpoils
<1> QED
    BY <1>4, <1>9, <1>10

LEMMA CaredStays ==
    ASSUME Typed, Typed', \A s \in Messages : UsgsMessage(msgs[s], chords, rows), OneContent, OneContent',
           NEW t \in Messages, UsgsRows(t), NEW from, HandsOn(t, from), ended \subseteq ended', fed \subseteq fed',
           NEW d \in Rows, rows[d].content # 0, rows'[d].content # 0, Cared(d),
           Waiting(d) => Cared(d)',
           (msgs[t].kind = "transform" /\ msgs[t].row = d) => Cared(d)',
           Prepares(t, d) => Cared(d)',
           (\A c \in Children(d) : Good(c)' => Good(c)) \/ Cared(d)'
    PROVE  Cared(d)'
<1>1. CASE Waiting(d)
    BY <1>1
<1>2. ASSUME NEW s \in Messages, s # t PROVE \E i \in DOMAIN msgs' : msgs'[i] = msgs[s]
    <2>1. PICK i \in DOMAIN msgs' : from[i] = s
        BY <1>2 DEF HandsOn, Carries
    <2>2. s # 0
        BY DEF Typed, IsQueue, Messages
    <2> QED
        BY <1>2, <2>1, <2>2 DEF HandsOn, Carries
<1>3. CASE Sent(d)
    <2>1. PICK s \in Messages : msgs[s].kind = "transform" /\ msgs[s].row = d
        BY <1>3 DEF Sent
    <2>2. CASE s # t
        BY <1>2, <2>1, <2>2 DEF Sent, Cared, Messages
    <2> QED
        BY <2>1, <2>2
<1>4. CASE Prepared(d)
    <2>1. PICK s \in Messages : Prepares(s, d)
        BY <1>4 DEF Prepared
    <2>2. CASE s # t
        <3>1. PICK i \in DOMAIN msgs' : msgs'[i] = msgs[s]
            BY <1>2, <2>2
        <3>2. \A r \in Rows : r \in DOMAIN rows' /\ rows'[r].type = rows[r].type
            BY DEF Typed, IsTable, UsgsRows, Grows, Rows
        <3>3. Prepares(i, d)'
            BY <2>1, <3>1, <3>2 DEF Prepares, OnRow, Rows
        <3> QED
            BY <3>1, <3>3 DEF Prepared, Cared, Messages
    <2> QED
        BY <2>1, <2>2
<1>5. CASE Spoiled(d)
    BY <1>5, SpoiledStays DEF Cared
<1>6. CASE QuakeFed(d)
    BY <1>6, FedStays DEF Cared
<1> QED
    BY <1>1, <1>3, <1>4, <1>5, <1>6 DEF Cared

LEMMA OnlyFilesStay ==
    ASSUME Typed, Typed', OnlyFiles, NEW t \in Messages, UsgsRows(t)
    PROVE  OnlyFiles'
<1> SUFFICES ASSUME NEW c \in DOMAIN rows', rows'[c].parent \in DOMAIN rows', rows'[rows'[c].parent].type = "USGS_DETAIL"
             PROVE  rows'[c].type \in UsgsFiles
    BY DEF OnlyFiles, Rows
<1>1. CASE c \notin Rows
    <2>1. rows'[c].parent \in Rows
        BY <1>1 DEF UsgsRows
    <2>2. rows[rows'[c].parent].type = "USGS_DETAIL"
        BY <2>1 DEF UsgsRows, Grows, Rows
    <2> QED
        BY <1>1, <2>2 DEF UsgsRows
<1>2. CASE c \in Rows
    <2>1. rows'[c].parent = rows[c].parent /\ rows'[c].type = rows[c].type
        BY <1>2 DEF UsgsRows, Grows, Rows
    <2>2. rows[c].parent \in 0..(c - 1) /\ rows \in Seq(RowRecord) /\ Rows = 1..Len(rows) /\ Len(rows) \in Nat
        BY <1>2 DEF Typed, IsTable, ParentFits, Rows
    <2>3. rows[c].parent = 0 \/ rows[c].parent \in Rows
        BY <1>2, <2>2
    <2>4. 0 \notin DOMAIN rows'
        BY DEF Typed, IsTable
    <2>5. rows[c].parent \in Rows
        BY <2>1, <2>3, <2>4
    <2>6. rows[rows[c].parent].type = "USGS_DETAIL"
        BY <2>1, <2>5 DEF UsgsRows, Grows, Rows
    <2> QED
        BY <1>2, <2>1, <2>5, <2>6 DEF OnlyFiles
<1> QED
    BY <1>1, <1>2

LEMMA UsgsKept ==
    ASSUME Typed, Typed', UsgsHold, NEW t \in Messages, UsgsRows(t), NEW from, HandsOn(t, from), BodiesStay,
           Bound(msgs', chords'),
           \A i \in DOMAIN msgs' : from[i] \in {0, t} => UsgsMessage(msgs'[i], chords', rows'),
           \A i \in DOMAIN msgs' : from[i] = 0 => msgs'[i].chord \notin DOMAIN chords,
           \A c \in DOMAIN chords' \ DOMAIN chords : ~chords'[c].broken,
           \A c \in DOMAIN chords : chords'[c].broken =>
                chords[c].broken \/ \A d \in Rows : chords[c].body = After(d) => Spoiled(d)',
           OneContent', ended \subseteq ended', fed \subseteq fed',
           \A d \in Rows : (rows[d].type = "USGS_DETAIL" /\ rows'[d].content # 0) =>
                /\ rows[d].content = 0 => Cared(d)'
                /\ Waiting(d) => Cared(d)'
                /\ (msgs[t].kind = "transform" /\ msgs[t].row = d) => Cared(d)'
                /\ Prepares(t, d) => Cared(d)'
                /\ (\A c \in Children(d) : Good(c)' => Good(c)) \/ Cared(d)'
    PROVE  UsgsHold'
<1>1. Carries(t, from)
    BY DEF HandsOn
<1>2. (\A s \in Messages : UsgsMessage(msgs[s], chords, rows))'
    BY <1>1, MessagesStay DEF UsgsHold
<1>3. TouchedOnce'
    BY OnceStays DEF UsgsHold
<1>4. BrokenSpoils'
    BY BrokenStays DEF UsgsHold
<1>5. AllCared'
    <2>1. SUFFICES ASSUME NEW d \in DOMAIN rows', rows'[d].type = "USGS_DETAIL", rows'[d].content # 0
                   PROVE  Cared(d)'
        BY DEF AllCared, Rows
    <2>2. d \in Rows /\ rows[d].type = "USGS_DETAIL"
        BY <2>1 DEF UsgsRows, Grows, Rows
    <2>3. CASE rows[d].content = 0
        BY <2>1, <2>2, <2>3
    <2>4. CASE rows[d].content # 0
        <3>1. Cared(d)
            BY <2>2, <2>4 DEF UsgsHold, AllCared
        <3> QED
            BY <2>1, <2>2, <2>4, <3>1, CaredStays DEF UsgsHold
    <2> QED
        BY <2>3, <2>4
<1>6. OnlyFiles'
    BY OnlyFilesStay DEF UsgsHold
<1> QED
    BY <1>2, <1>3, <1>4, <1>5, <1>6 DEF UsgsHold

-----------------------------------------------------------------------------
(* The deliveries that go on: what the handler makes, and a retry.              *)

LEMMA ShiftFrom ==
    ASSUME Typed, Bound(msgs, chords), NEW t \in Messages, NEW m, Shifted(t, m)
    PROVE  /\ Bound(msgs', chords')
           /\ \E from : /\ Carries(t, from) /\ t \in DOMAIN msgs' /\ from[t] = t /\ msgs'[t] = m
                        /\ \A i \in DOMAIN msgs' : from[i] # 0 /\ (from[i] = t => i = t)
<1>1. /\ msgs \in Seq(Message) /\ chords \in Seq(Chord) /\ m \in Message /\ Same(m, msgs[t])
      /\ UNCHANGED chords /\ m.chord = msgs[t].chord /\ m.kind = msgs[t].kind
    BY DEF Typed, IsQueue, Shifted, Same
<1>2. PICK none : none = <<>>
    OBVIOUS
<1>3. none \in Seq(Message) /\ DOMAIN none = {}
    BY <1>2
<1>4. MovesOn(t, m, none)
    <2>1. [msgs EXCEPT ![t] = m] \in Seq(Message)
        BY <1>1 DEF Messages
    <2>2. [msgs EXCEPT ![t] = m] \o <<>> = [msgs EXCEPT ![t] = m]
        BY <2>1
    <2> QED
        BY <1>2, <2>2 DEF MovesOn, Shifted
<1>5. Bound(msgs', chords')
    BY <1>1, <1>3, <1>4, MovesBound
<1>6. PICK from : \E k \in Nat : /\ Carries(t, from) /\ News(from, none, k)
                                 /\ t \in DOMAIN msgs' /\ from[t] = t /\ msgs'[t] = m
                                 /\ \A i \in DOMAIN msgs' : from[i] = t => i = t
    <2>1. msgs \in Seq(Message) /\ m \in Message /\ Same(m, msgs[t])
        BY <1>1
    <2>2. none \in Seq(Message)
        BY <1>3
    <2> QED
        BY ONLY t \in Messages, <2>1, <2>2, <1>4, MovedCarries
<1>7. \A i \in DOMAIN msgs' : from[i] # 0
    BY <1>3, <1>6 DEF News
<1> QED
    BY <1>5, <1>6, <1>7

LEMMA ShiftKeeps ==
    ASSUME Typed, Typed', UsgsHold, NEW t \in Messages, msgs[t].kind = "extract", UsgsRows(t),
           NEW m, Shifted(t, m), UsgsMessage(m, chords, rows'),
           \A p \in Rows : Touches(m, rows', p) => Touches(msgs[t], rows, p),
           OneContent', ended \subseteq ended', fed \subseteq fed', rows'[msgs[t].row].status # "SUCCESS",
           \A d \in Rows : (/\ rows[d].type = "USGS_DETAIL" /\ rows'[d].content # 0 /\ OnRow(t, d)
                            /\ rows[d].content = 0 \/ Prepares(t, d)) =>
                m.pc = "made" \/ (m.pc = "queued" /\ m.failed \in Rows /\ rows[m.failed].type = "LOSSE")
    PROVE  UsgsHold'
<1>1. /\ msgs \in Seq(Message) /\ chords \in Seq(Chord) /\ Bound(msgs, chords) /\ m \in Message /\ Same(m, msgs[t])
      /\ UNCHANGED chords /\ m.chord = msgs[t].chord /\ m.kind = "extract" /\ m.row = msgs[t].row
    BY DEF Typed, IsQueue, UsgsHold, Shifted, Same
<1>12. Bound(msgs', chords')
    BY ShiftFrom DEF UsgsHold
<1>5. PICK from : /\ Carries(t, from) /\ t \in DOMAIN msgs' /\ from[t] = t /\ msgs'[t] = m
                  /\ \A i \in DOMAIN msgs' : from[i] # 0 /\ (from[i] = t => i = t)
    BY ShiftFrom DEF UsgsHold
<1>6. \A i \in DOMAIN msgs' : from[i] # 0
    BY <1>5
<1>7. HandsOn(t, from)
    BY <1>5, <1>6 DEF HandsOn
<1>8. BodiesStay
    BY <1>1 DEF BodiesStay
<1>9. \A i \in DOMAIN msgs' : from[i] \in {0, t} => UsgsMessage(msgs'[i], chords', rows')
    BY <1>1, <1>5, <1>6
<1>10. ASSUME NEW d \in Rows, rows[d].type = "USGS_DETAIL", rows'[d].content # 0
       PROVE  /\ rows[d].content = 0 => Cared(d)'
              /\ Waiting(d) => Cared(d)'
              /\ (msgs[t].kind = "transform" /\ msgs[t].row = d) => Cared(d)'
              /\ Prepares(t, d) => Cared(d)'
              /\ \A c \in Children(d) : Good(c)' => Good(c)
    <2>1. Waiting(d) => Waiting(d)'
        BY <1>1 DEF Waiting
    <2>2. d \in DOMAIN rows' /\ \A r \in Rows : r \in DOMAIN rows' /\ rows'[r].type = rows[r].type
        BY DEF Typed, IsTable, UsgsRows, Grows, Rows
    <2>3. ASSUME OnRow(t, d), rows[d].content = 0 \/ Prepares(t, d) PROVE Cared(d)'
        <3>1. m.pc = "made" \/ (m.pc = "queued" /\ m.failed \in Rows /\ rows[m.failed].type = "LOSSE")
            BY <1>10, <2>3
        <3>2. Prepares(t, d)'
            BY <1>1, <1>5, <2>2, <2>3, <3>1 DEF Prepares, OnRow, Rows
        <3> QED
            BY <1>5, <3>2 DEF Prepared, Cared, Messages
    <2>4. rows[d].content = 0 => OnRow(t, d)
        BY <1>10 DEF UsgsRows
    <2>5. ASSUME NEW c \in Children(d), Good(c)' PROVE Good(c)
        <3>1. c \in Rows /\ (rows'[c] = rows[c] \/ OnRow(t, c))
            BY DEF Children, UsgsRows
        <3>2. c # msgs[t].row
            BY <2>5 DEF Good
        <3> QED
            BY <2>5, <3>1, <3>2 DEF Good, OnRow
    <2>6. Prepares(t, d) => OnRow(t, d)
        BY DEF Prepares
    <2> QED
        BY <1>1, <2>1, <2>3, <2>4, <2>5, <2>6 DEF Cared
<1>11. \A c \in DOMAIN chords' : c \in DOMAIN chords /\ (chords'[c].broken => chords[c].broken)
    BY <1>1
<1> QED
    <2>1. \A c \in DOMAIN chords : chords'[c].broken =>
                chords[c].broken \/ \A d \in Rows : chords[c].body = After(d) => Spoiled(d)'
        BY <1>11, <1>1
    <2>2. \A c \in DOMAIN chords' \ DOMAIN chords : ~chords'[c].broken
        BY <1>11
    <2>3. \A i \in DOMAIN msgs' : from[i] = 0 => msgs'[i].chord \notin DOMAIN chords
        BY <1>6
    <2>4. \A d \in Rows : (rows[d].type = "USGS_DETAIL" /\ rows'[d].content # 0) =>
                /\ rows[d].content = 0 => Cared(d)'
                /\ Waiting(d) => Cared(d)'
                /\ (msgs[t].kind = "transform" /\ msgs[t].row = d) => Cared(d)'
                /\ Prepares(t, d) => Cared(d)'
                /\ (\A c \in Children(d) : Good(c)' => Good(c)) \/ Cared(d)'
        BY <1>10
    <2> QED
        BY <1>12, <1>7, <1>8, <1>9, <2>1, <2>2, <2>3, <2>4, UsgsKept

LEMMA MadeContent ==
    ASSUME Typed, NEW t \in Messages, Received(t), NEW row \in RowRecord, NEW new \in Seq(RowRecord), NEW groups,
           Made(t, row, new, groups, 0)
    PROVE  rows'[msgs[t].row].content = row.content /\ rows'[msgs[t].row].status = "IN_PROGRESS"
<1>1. PICK r : r = msgs[t].row
    OBVIOUS
<1>2. r \in DOMAIN rows /\ rows \in Seq(RowRecord) /\ rows[r] \in RowRecord
    BY <1>1, Delivery DEF Rows
<1>3. PICK begun : begun = Started(t)[r]
    OBVIOUS
<1>4. begun.status = "IN_PROGRESS" /\ begun.runs \in Nat /\ begun \in RowRecord
    <2>1. begun \in RowRecord /\ begun.status = "IN_PROGRESS"
        BY <1>1, <1>2, <1>3, MarkIs DEF Started, SetStatus, Status, Rows
    <2> QED
        BY <2>1 DEF RowRecord
<1>5. PICK one : one = [row EXCEPT !.status = begun.status]
    OBVIOUS
<1>6. PICK two : two = [one EXCEPT !.runs = begun.runs]
    OBVIOUS
<1>7. one \in RowRecord /\ one.status = "IN_PROGRESS" /\ one.content = row.content
    BY <1>4, <1>5 DEF RowRecord, Status
<1>8. two \in RowRecord /\ two.status = "IN_PROGRESS" /\ two.content = row.content
    BY <1>4, <1>6, <1>7 DEF RowRecord
<1>9. PICK table : table = [rows EXCEPT ![r] = two]
    OBVIOUS
<1>10. table \in Seq(RowRecord) /\ r \in 1..Len(table) /\ table[r] = two
    BY <1>2, <1>8, <1>9
<1>11. rows' = table \o new
    BY <1>1, <1>3, <1>5, <1>6, <1>9 DEF Made
<1>12. rows'[r] = table[r]
    <2>1. PICK all : all = table \o new
        OBVIOUS
    <2>2. \A i \in 1..Len(table) : all[i] = table[i]
        BY ONLY <2>1, <1>10, Joined
    <2> QED
        BY <1>10, <1>11, <2>1, <2>2
<1> QED
    BY <1>1, <1>8, <1>10, <1>12

LEMMA UsgsMadeKeeps ==
    ASSUME Typed, Typed', UsgsHold, NEW t \in Messages, Received(t),
           NEW row \in RowRecord, row.content \in {0, 1},
           NEW new \in Seq(RowRecord),
           \A i \in DOMAIN new : new[i].status = "PENDING" /\ new[i].content = 0 /\ new[i].parent = msgs[t].row,
           rows[msgs[t].row].type = "USGS_DETAIL" => \A i \in DOMAIN new : new[i].type \in UsgsFiles,
           NEW groups \in Groups, Made(t, row, new, groups, 0), Grows(rows, rows'),
           groups # <<>> => /\ rows[msgs[t].row].type \notin UsgsFiles
                            /\ \A m : (m.row = msgs[t].row /\ m.todo = groups) => UsgsTodo(m, rows')
                            /\ \A j \in DOMAIN groups[1] : groups[1][j].row \in Rows => Touches(msgs[t], rows, groups[1][j].row),
           (rows[msgs[t].row].type = "USGS_DETAIL" /\ (rows[msgs[t].row].content # row.content \/ UsgsPartial(t)))
                => groups # <<>>
    PROVE  UsgsHold'
<1>1. Makes(t, row, new, groups)
    BY MadeIs
<1>2. PICK m : Shifted(t, m) /\ m.todo = groups /\ m.pc = IF groups = <<>> THEN "sent" ELSE "made"
    BY <1>1 DEF Makes
<1>3. PICK r : r = msgs[t].row
    OBVIOUS
<1>4. rows'[r].content = row.content /\ rows'[r].status = "IN_PROGRESS"
    BY <1>3, MadeContent
<1>5. r \in Rows /\ msgs[t].kind = "extract" /\ msgs[t].pc = "queued" /\ r \in DOMAIN rows'
    BY <1>1, <1>3, Delivery DEF Makes
<1>6. UsgsRows(t)
    <2>1. \A o \in Rows : rows'[o] = rows[o] \/ OnRow(t, o)
        BY <1>1, <1>3, <1>5 DEF Makes, OnRow
    <2>2. \A o \in DOMAIN rows' \ Rows :
            /\ rows'[o].status # "SUCCESS" /\ rows'[o].content = 0 /\ rows'[o].parent \in Rows
            /\ rows[rows'[o].parent].type = "USGS_DETAIL" => rows'[o].type \in UsgsFiles
        BY <1>1, <1>3, <1>5 DEF Makes
    <2> QED
        BY <2>1, <2>2 DEF UsgsRows
<1>7. m.kind = "extract" /\ m.row = r /\ m.chord = msgs[t].chord /\ m.next = msgs[t].next /\ UNCHANGED chords
    BY <1>2, <1>3, <1>5 DEF Shifted, Same
<1>8. UsgsMessage(msgs[t], chords, rows) /\ \A o \in Rows : /\ rows'[o].type = rows[o].type /\ rows'[o].parent = rows[o].parent
    BY DEF UsgsHold, Grows, Rows
<1>9. UsgsMessage(m, chords, rows')
    BY <1>2, <1>3, <1>5, <1>7, <1>8 DEF UsgsMessage, Rows
<1>10. ASSUME NEW p \in Rows, Touches(m, rows', p) PROVE Touches(msgs[t], rows, p)
    <2>1. CASE m.row = p
        BY <1>3, <1>5, <1>7, <1>8, <1>10, <2>1 DEF Touches, Rows
    <2>2. CASE m.pc = "made" /\ \E j \in DOMAIN m.todo[1] : m.todo[1][j].row = p
        BY <1>2, <1>10, <2>2
    <2> QED
        BY <1>2, <1>10, <2>1, <2>2 DEF Touches
<1>11. OneContent'
    <2>1. \A o \in DOMAIN rows' : rows'[o].content \in {0, 1}
        BY <1>1, <1>3, <1>4 DEF Makes, UsgsHold, OneContent
    <2> QED
        BY <2>1 DEF OneContent, UsgsHold, Made, Rows
<1>12. ASSUME NEW d \in Rows, rows[d].type = "USGS_DETAIL", rows'[d].content # 0, OnRow(t, d),
              rows[d].content = 0 \/ Prepares(t, d)
       PROVE  m.pc = "made"
    <2>1. d = r
        BY <1>3, <1>12 DEF OnRow
    <2>2. Prepares(t, d) => UsgsPartial(t)
        <3>1. Rows = 1..Len(rows)
            BY DEF Typed, IsTable, Rows
        <3> QED
            BY <1>3, <1>5, <1>12, <2>1, <3>1 DEF Prepares, UsgsPartial, RowOf
    <2>3. groups # <<>>
        BY <1>3, <1>4, <1>12, <2>1, <2>2
    <2> QED
        BY <1>2, <2>3
<1>13. ended \subseteq ended' /\ fed \subseteq fed'
    BY DEF Made
<1> QED
    BY <1>2, <1>3, <1>4, <1>5, <1>6, <1>9, <1>10, <1>11, <1>12, <1>13, ShiftKeeps

\* New rows are queued one by one.
LEMMA NewGroupSeparate ==
    ASSUME Typed, NEW t \in Messages, NEW row, NEW new \in Seq(RowRecord), NEW groups, Makes(t, row, new, groups),
           NEW g, g = NewGroup(Len(new))
    PROVE  /\ g \in Seq(Plain) /\ Separate(g, rows')
           /\ \A j \in DOMAIN g : j \in DOMAIN new /\ g[j].row \notin Rows /\ rows'[g[j].row] = new[j]
<1>1. /\ Len(rows) \in Nat /\ Rows = 1..Len(rows) /\ DOMAIN rows' = 1..(Len(rows) + Len(new)) /\ Len(new) \in Nat
      /\ DOMAIN new = 1..Len(new) /\ \A o \in DOMAIN rows' \ Rows : rows'[o] = new[o - Len(rows)]
    BY DEF Makes
<1>2. g \in Seq(Plain)
    <2>1. rows \in Seq(RowRecord)
        BY DEF Typed, IsTable
    <2> QED
        BY <1>1, <2>1, GroupOfNew
<1>3. DOMAIN g = DOMAIN new /\ \A j \in DOMAIN g : g[j] = Extract(Len(rows) + j, 0)
    BY <1>1 DEF NewGroup
<1>4. ASSUME NEW j \in DOMAIN g
      PROVE  /\ g[j].row = Len(rows) + j /\ g[j].kind = "extract" /\ g[j].failed = 0 /\ ~g[j].next /\ g[j].pc = "queued"
             /\ Len(rows) + j \in DOMAIN rows' \ Rows /\ (Len(rows) + j) - Len(rows) = j
    <2>1. Len(rows) + j \in DOMAIN rows' \ Rows /\ (Len(rows) + j) - Len(rows) = j
        BY <1>1, <1>3
    <2>2. g[j] = Extract(Len(rows) + j, 0)
        BY <1>3
    <2> QED
        BY <2>1, <2>2 DEF Extract
<1>5. Separate(g, rows')
    <2>1. ASSUME NEW i \in DOMAIN g, NEW j \in DOMAIN g, g[i].row = g[j].row PROVE i = j
        <3>1. i \in Nat /\ j \in Nat /\ Len(rows) + i = Len(rows) + j
            BY <1>1, <1>3, <1>4, <2>1
        <3> QED
            BY <1>1, <3>1
    <2> QED
        BY <1>4, <2>1 DEF Separate, Starters
<1> QED
    BY <1>1, <1>2, <1>3, <1>4, <1>5

LEMMA StoredContent ==
    ASSUME Typed, OneContent, NEW t \in Messages, Received(t)
    PROVE  Stored(t) \in RowRecord /\ Stored(t).type = rows[msgs[t].row].type /\ Stored(t).content = 1
<1>1. PICK r : r = msgs[t].row
    OBVIOUS
<1>2. r \in Rows /\ rows[r] \in RowRecord
    BY <1>1, Delivery
<1>3. rows[r].item \in Items /\ world[rows[r].item].content = 1
    BY <1>2 DEF RowRecord, OneContent
<1>4. Stored(t) \in RowRecord /\ Stored(t).type = rows[r].type
    BY <1>1, StoredRow
<1>5. Stored(t).content = world[rows[r].item].content
    BY <1>1, <1>2 DEF Stored, RowOf, RowRecord
<1> QED
    BY <1>1, <1>3, <1>4, <1>5

LEMMA UsgsQueryKeeps ==
    ASSUME Typed, Typed', Usgs, UsgsHold, NEW t \in Messages, UsgsQuery(t), Grows(rows, rows')
    PROVE  UsgsHold'
<1>1. PICK r : r = msgs[t].row
    OBVIOUS
<1>2. Received(t) /\ r \in Rows /\ rows[r].type = "USGS_QUERY" /\ OneContent
    BY <1>1, Delivery DEF UsgsQuery, Handles, RowOf, UsgsHold
<1>3. PICK new : new = [i \in DOMAIN Quakes |-> Row("USGS_DETAIL", Quakes[i], r)]
    OBVIOUS
<1>4. /\ new \in Seq(RowRecord) /\ Len(new) = Len(Quakes) /\ DOMAIN new = DOMAIN Quakes
      /\ \A i \in DOMAIN new : new[i] = Row("USGS_DETAIL", Quakes[i], r)
    <2>1. "USGS_DETAIL" \in RowTypes /\ r \in Nat /\ Quakes \in Seq(Items)
        BY <1>2, UsgsAssumption DEF RowTypes, Typed, IsTable, Rows
    <2> QED
        BY <1>3, <2>1, RowsOfList
<1>5. \A i \in DOMAIN new : /\ new[i].type = "USGS_DETAIL" /\ new[i].status = "PENDING" /\ new[i].content = 0
                           /\ new[i].parent = r
    BY <1>4 DEF Row
<1>6. PICK g, groups, row : g = NewGroup(Len(new)) /\ groups = <<g>> /\ row = Stored(t)
    OBVIOUS
<1>7. Made(t, row, new, groups, 0)
    BY <1>1, <1>3, <1>4, <1>6 DEF UsgsQuery
<1>8. row \in RowRecord /\ row.content = 1
    BY <1>2, <1>6, StoredContent
<1>9. g \in Seq(Plain)
    BY <1>4, <1>6, GroupOfNew DEF Typed, IsTable
<1>10. groups \in Groups /\ groups[1] = g
    BY <1>6, <1>9 DEF Groups
<1>11. Makes(t, row, new, groups)
    BY <1>2, <1>4, <1>7, <1>8, <1>10, MadeIs
<1>12. /\ Separate(g, rows')
       /\ \A j \in DOMAIN g : j \in DOMAIN new /\ g[j].row \notin Rows /\ rows'[g[j].row] = new[j]
    <2>1. t \in Messages /\ new \in Seq(RowRecord) /\ g = NewGroup(Len(new))
        BY <1>4, <1>6
    <2> QED
        BY ONLY Typed, <2>1, <1>11, NewGroupSeparate
<1>13. ASSUME NEW m, m.row = r, m.todo = groups PROVE UsgsTodo(m, rows')
    <2>1. rows'[m.row].type = "USGS_QUERY"
        BY <1>2, <1>13 DEF Grows, Rows
    <2>2. \A j \in DOMAIN g : rows'[g[j].row].type \notin UsgsFiles
        BY <1>5, <1>12 DEF UsgsFiles
    <2> QED
        BY <1>6, <1>9, <1>10, <1>12, <1>13, <2>1, <2>2 DEF UsgsTodo
<1> QED
    BY <1>1, <1>2, <1>4, <1>5, <1>7, <1>8, <1>10, <1>12, <1>13, UsgsMadeKeeps DEF UsgsFiles

\* The delivery of an earthquake that is to run a LOSSE again.
LEMMA UsgsPartialKeeps ==
    ASSUME Typed, Typed', Usgs, UsgsHold, NEW t \in Messages, UsgsDetail(t), UsgsPartial(t), Grows(rows, rows')
    PROVE  UsgsHold'
<1>1. PICK r, f : r = msgs[t].row /\ f = msgs[t].failed
    OBVIOUS
<1>2. /\ Received(t) /\ r \in Rows /\ rows[r].type = "USGS_DETAIL" /\ OneContent /\ rows[r] \in RowRecord
      /\ msgs[t].pc = "queued" /\ msgs[t].kind = "extract"
    BY <1>1, Delivery DEF UsgsDetail, Handles, RowOf, UsgsHold, Received, Taken, Waits, At
<1>3. f \in Rows /\ f \in 0..Len(rows) /\ Len(rows) \in Nat /\ rows[f].type = "LOSSE"
    BY <1>1, FailedRow DEF UsgsPartial
<1>4. rows[f].parent = r /\ f # r
    BY <1>1, <1>2, <1>3 DEF UsgsHold, UsgsMessage, Rows
<1>5. Extract(f, f) \in Plain /\ Extract(f, f).row = f /\ Extract(f, f).failed = f /\ Extract(f, f).pc = "queued"
      /\ Extract(f, f).kind = "extract" /\ ~Extract(f, f).next
    <2>1. Extract(f, f) \in Plain
        BY <1>3, ExtractFresh
    <2> QED
        BY <2>1 DEF Extract
<1>6. PICK g : g = <<Extract(f, f)>>
    OBVIOUS
<1>7. g \in Seq(Plain) /\ DOMAIN g = {1} /\ g[1] = Extract(f, f)
    BY <1>5, <1>6
<1>8. PICK groups : groups = <<g, <<Transform(r)>>>>
    OBVIOUS
<1>9. Transform(r) \in Plain
    BY <1>2, <1>3, TransformFresh DEF Rows, NotRead
<1>10. groups \in Groups /\ groups[1] = g
    BY <1>7, <1>8, <1>9, TwoGroups
<1>11. PICK row, new : row = RowOf(t) /\ new = <<>>
    OBVIOUS
<1>12. /\ row \in RowRecord /\ row = rows[r] /\ row.content \in {0, 1}
       /\ new \in Seq(RowRecord) /\ DOMAIN new = {}
    BY <1>1, <1>2, <1>11 DEF RowOf, OneContent
<1>13. Made(t, row, new, groups, 0)
    BY <1>1, <1>6, <1>8, <1>11 DEF UsgsDetail
<1>14. /\ f \in DOMAIN rows' /\ rows'[f].type = "LOSSE" /\ rows'[f].parent = r
       /\ r \in DOMAIN rows' /\ rows'[r].type = "USGS_DETAIL"
    BY <1>2, <1>3, <1>4 DEF Grows, Rows, Typed, IsTable
<1>15. Separate(g, rows') /\ FilesOf(g, rows', r)
    BY <1>5, <1>7, <1>14 DEF Separate, Starters, FilesOf, UsgsFiles
<1>16. ASSUME NEW m, m.row = r, m.todo = groups PROVE UsgsTodo(m, rows')
    BY <1>7, <1>8, <1>10, <1>14, <1>15, <1>16 DEF UsgsTodo
<1>17. \A j \in DOMAIN groups[1] : Touches(msgs[t], rows, groups[1][j].row)
    BY <1>1, <1>2, <1>3, <1>5, <1>7, <1>10 DEF Touches, UsgsFiles, Rows
<1> QED
    BY <1>1, <1>2, <1>8, <1>10, <1>12, <1>13, <1>16, <1>17, UsgsMadeKeeps DEF UsgsFiles

\* Any other delivery of an earthquake.
LEMMA UsgsWholeKeeps ==
    ASSUME Typed, Typed', Usgs, UsgsHold, NEW t \in Messages, UsgsDetail(t), ~UsgsPartial(t), Grows(rows, rows')
    PROVE  UsgsHold'
<1>1. PICK r : r = msgs[t].row
    OBVIOUS
<1>2. /\ Received(t) /\ r \in Rows /\ rows[r].type = "USGS_DETAIL" /\ OneContent /\ rows[r] \in RowRecord
      /\ rows \in Seq(RowRecord) /\ r \in 1..Len(rows) /\ Len(rows) \in Nat
    <2>1. Received(t) /\ RowOf(t).type = "USGS_DETAIL"
        BY DEF UsgsDetail, Handles
    <2>2. r \in Rows /\ rows[r] \in RowRecord /\ rows \in Seq(RowRecord)
        BY <1>1, <2>1, Delivery
    <2> QED
        BY <1>1, <2>1, <2>2 DEF RowOf, UsgsHold, Rows
<1>3. PICK files : files = Products[rows[r].item]
    OBVIOUS
<1>4. PICK Files : Files = [type : {"LOSSE", "ALERTS"}, item : Items]
    OBVIOUS
<1>5. files \in Seq(Files)
    <2>1. rows[r].item \in Listing(Quakes)
        BY <1>2 DEF Typed, IsTable, ItemFits, Rows
    <2> QED
        BY <1>3, <1>4, <2>1, UsgsAssumption, Zenon
<1>6. ASSUME NEW i \in DOMAIN files PROVE files[i].type \in UsgsFiles /\ files[i].item \in Items
    <2>1. files[i] \in Files
        BY <1>5
    <2> QED
        BY <1>4, <2>1 DEF UsgsFiles
<1>7. PICK new : new = [i \in DOMAIN files |-> Row(files[i].type, files[i].item, r)]
    OBVIOUS
<1>8. ASSUME NEW i \in DOMAIN files
      PROVE  /\ new[i] \in RowRecord /\ new[i].type \in UsgsFiles /\ new[i].parent = r
             /\ new[i].status = "PENDING" /\ new[i].content = 0
    <2>1. new[i] = Row(files[i].type, files[i].item, r)
        BY <1>7
    <2>2. files[i].type \in RowTypes /\ r \in Nat
        BY <1>2, <1>6 DEF RowTypes, UsgsFiles
    <2>3. Row(files[i].type, files[i].item, r).content = 0
        BY DEF Row
    <2> QED
        BY <1>6, <2>1, <2>2, <2>3, RowNew
<1>9. new \in Seq(RowRecord) /\ Len(new) = Len(files) /\ DOMAIN new = DOMAIN files /\ Len(files) \in Nat
    <2>1. Len(files) \in Nat /\ DOMAIN files = 1..Len(files)
        BY <1>5
    <2>2. new \in [1..Len(files) -> RowRecord]
        BY <1>7, <1>8, <2>1
    <2> QED
        BY <2>1, <2>2
<1>10. PICK g, groups, row : g = NewGroup(Len(new)) /\ groups = <<g, <<Transform(r)>>>> /\ row = Stored(t)
    OBVIOUS
<1>11. Made(t, row, new, groups, 0)
    BY <1>1, <1>3, <1>7, <1>9, <1>10 DEF UsgsDetail, LossChord
<1>12. row \in RowRecord /\ row.content = 1
    BY <1>2, <1>10, StoredContent
<1>13. g \in Seq(Plain) /\ Transform(r) \in Plain
    <2>1. g \in Seq(Plain)
        BY <1>2, <1>9, <1>10, GroupOfNew
    <2> QED
        BY <1>2, <2>1, TransformFresh DEF NotRead
<1>14. groups \in Groups /\ groups[1] = g
    BY <1>10, <1>13, TwoGroups
<1>15. Makes(t, row, new, groups)
    BY <1>2, <1>9, <1>11, <1>12, <1>14, MadeIs
<1>16. /\ Separate(g, rows')
       /\ \A j \in DOMAIN g : j \in DOMAIN new /\ g[j].row \notin Rows /\ rows'[g[j].row] = new[j]
    <2>1. t \in Messages /\ new \in Seq(RowRecord) /\ g = NewGroup(Len(new))
        BY <1>9, <1>10
    <2> QED
        BY ONLY Typed, <2>1, <1>15, NewGroupSeparate
<1>17. FilesOf(g, rows', r)
    BY <1>8, <1>9, <1>16 DEF FilesOf
<1>18. rows'[r].type = "USGS_DETAIL"
    BY <1>2 DEF Grows, Rows
<1>19. ASSUME NEW m, m.row = r, m.todo = groups PROVE UsgsTodo(m, rows')
    BY <1>10, <1>13, <1>14, <1>16, <1>17, <1>18, <1>19 DEF UsgsTodo
<1>20. \A i \in DOMAIN new : /\ new[i].status = "PENDING" /\ new[i].content = 0 /\ new[i].parent = r
                            /\ new[i].type \in UsgsFiles
    BY <1>8, <1>9
<1>21. \A j \in DOMAIN groups[1] : groups[1][j].row \notin Rows
    BY <1>14, <1>16
<1>22. groups # <<>>
    BY <1>10
<1> QED
    BY <1>1, <1>2, <1>9, <1>11, <1>12, <1>14, <1>19, <1>20, <1>21, <1>22, UsgsMadeKeeps DEF UsgsFiles

LEMMA UsgsFileKeeps ==
    ASSUME Typed, Typed', Usgs, UsgsHold, NEW t \in Messages, UsgsFile(t), Grows(rows, rows')
    PROVE  UsgsHold'
<1>1. PICK row, new, groups : row = Stored(t) /\ new = <<>> /\ groups = <<>>
    OBVIOUS
<1>2. new \in Seq(RowRecord) /\ DOMAIN new = {} /\ groups \in Groups
    BY <1>1 DEF Groups
<1>3. Received(t) /\ rows[msgs[t].row].type \in UsgsFiles /\ OneContent
    BY DEF UsgsFile, RowOf, UsgsFiles, UsgsHold
<1>4. row \in RowRecord /\ row.content = 1
    BY <1>1, <1>3, StoredContent
<1>5. Made(t, row, new, groups, 0)
    BY <1>1 DEF UsgsFile
<1>6. rows[msgs[t].row].type # "USGS_DETAIL"
    BY <1>3 DEF UsgsFiles
<1> QED
    BY <1>1, <1>2, <1>3, <1>4, <1>5, <1>6, UsgsMadeKeeps

LEMMA UsgsNoDataKeeps ==
    ASSUME Typed, Typed', Usgs, UsgsHold, NEW t \in Messages, NoData(t), ~UsgsPartial(t), Grows(rows, rows')
    PROVE  UsgsHold'
<1>1. PICK row, new, groups : row = RowOf(t) /\ new = <<>> /\ groups = <<>>
    OBVIOUS
<1>2. new \in Seq(RowRecord) /\ DOMAIN new = {} /\ groups \in Groups
    BY <1>1 DEF Groups
<1>3. Received(t) /\ OneContent
    BY DEF NoData, UsgsHold
<1>4. msgs[t].row \in Rows /\ rows[msgs[t].row] \in RowRecord
    BY <1>3, Delivery
<1>5. row \in RowRecord /\ row.content = rows[msgs[t].row].content /\ row.content \in {0, 1}
    BY <1>1, <1>3, <1>4 DEF RowOf, OneContent
<1>6. Made(t, row, new, groups, 0)
    BY <1>1 DEF NoData
<1> QED
    BY <1>1, <1>2, <1>3, <1>5, <1>6, UsgsMadeKeeps

-----------------------------------------------------------------------------
(* The deliveries that end, or are retried: only their own row changes.         *)

OwnRow(t) ==
    /\ AtWork(t) /\ OnlyOwn(t) /\ Grows(rows, rows')
    /\ rows'[msgs[t].row].content = rows[msgs[t].row].content
    /\ UNCHANGED <<world, ended, fed>>

LEMMA MarkContent ==
    ASSUME Typed, NEW t \in Messages, msgs[t].row \in Rows, NEW status \in Status
    PROVE  Mark(rows, t, status)[msgs[t].row].content = rows[msgs[t].row].content
<1>1. PICK r : r = msgs[t].row
    OBVIOUS
<1>2. rows \in Seq(RowRecord) /\ r \in DOMAIN rows /\ rows[r] \in RowRecord
    BY <1>1 DEF Typed, IsTable, Rows
<1>3. PICK one : one = [rows[r] EXCEPT !.status = status]
    OBVIOUS
<1>4. one \in RowRecord /\ one.content = rows[r].content
    BY <1>2, <1>3 DEF RowRecord
<1>5. PICK two : two = [one EXCEPT !.runs = IF Received(t) /\ @ < 2 THEN @ + 1 ELSE @]
    OBVIOUS
<1>6. two.content = rows[r].content
    BY <1>4, <1>5 DEF RowRecord
<1>7. Mark(rows, t, status) = [rows EXCEPT ![r] = two]
    BY <1>1, <1>2, <1>3, <1>5 DEF Mark
<1> QED
    BY <1>1, <1>2, <1>6, <1>7

LEMMA OwnRows ==
    ASSUME Typed, Typed', OneContent, NEW t \in Messages, OwnRow(t)
    PROVE  /\ UsgsRows(t) /\ OneContent' /\ ended \subseteq ended' /\ fed \subseteq fed'
           /\ DOMAIN rows' = Rows
           /\ \A d \in Rows : rows'[d].content = rows[d].content /\ rows'[d].type = rows[d].type
                              /\ rows'[d].parent = rows[d].parent
<1>1. DOMAIN rows' = Rows /\ \A o \in Rows \ {msgs[t].row} : rows'[o] = rows[o]
    BY DEF OwnRow, OnlyOwn
<1>2. UsgsRows(t)
    BY <1>1 DEF UsgsRows, OnRow, OwnRow, AtWork
<1>3. \A d \in Rows : rows'[d].content = rows[d].content
    BY <1>1 DEF OwnRow
<1>4. OneContent'
    BY <1>1, <1>3 DEF OneContent, OwnRow, Rows
<1> QED
    BY <1>1, <1>2, <1>3, <1>4 DEF OwnRow, Grows, Rows

\* A file that is a part of a chord is one of the earthquake whose transform waits for it.
LEMMA PartIsFile ==
    ASSUME Typed, UsgsHold, NEW t \in Messages, msgs[t].kind = "extract", msgs[t].chord # 0
    PROVE  /\ msgs[t].row \in Rows /\ rows[msgs[t].row].type \in UsgsFiles /\ msgs[t].chord \in DOMAIN chords
           /\ rows[msgs[t].row].parent \in Rows
           /\ chords[msgs[t].chord].body = After(rows[msgs[t].row].parent)
           /\ \A d \in Rows : chords[msgs[t].chord].body = After(d) => d = rows[msgs[t].row].parent
<1>1. /\ msgs[t].row \in Rows /\ rows[msgs[t].row].type \in UsgsFiles /\ msgs[t].chord \in DOMAIN chords
      /\ chords[msgs[t].chord].body = After(rows[msgs[t].row].parent)
    BY DEF UsgsHold, UsgsMessage, Rows
<1>2. rows[msgs[t].row].parent \in Rows
    BY <1>1, FileParent
<1>3. \A d \in Rows : d \in Nat
    BY DEF Typed, IsTable, Rows
<1> QED
    BY <1>1, <1>2, <1>3, AfterIs

\* A file that is given up, and that nothing runs any more.
LEMMA GivesUp ==
    ASSUME Typed, Typed', UsgsHold, NEW t \in Messages, OwnRow(t), NEW from, HandsOn(t, from),
           \A i \in DOMAIN msgs' : ~(from[i] \in {0, t} /\ Touches(msgs'[i], rows', msgs[t].row)),
           rows[msgs[t].row].type \in UsgsFiles, rows'[msgs[t].row].status # "SUCCESS",
           NEW d, d = rows[msgs[t].row].parent
    PROVE  Spoiled(d)'
<1>1. PICK r : r = msgs[t].row
    OBVIOUS
<1>2. r \in Rows /\ r \in DOMAIN rows' /\ msgs[t].kind = "extract" /\ UsgsRows(t)
      /\ rows'[r].type = rows[r].type /\ rows'[r].parent = d
    BY <1>1, OwnRows DEF OwnRow, AtWork, UsgsHold
<1>3. Touches(msgs[t], rows, r)
    BY <1>1, <1>2 DEF Touches, Rows
<1>4. ASSUME NEW i \in DOMAIN msgs' PROVE ~Touches(msgs'[i], rows', r)
    <2>1. SUFFICES ASSUME Touches(msgs'[i], rows', r) PROVE FALSE
        OBVIOUS
    <2>2. from[i] \notin {0, t}
        BY <1>1, <2>1
    <2>3. PICK s \in Messages : Touches(msgs[s], rows, r) /\ s = from[i]
        BY <1>2, <2>1, <2>2, TouchedBefore DEF UsgsHold
    <2>4. s = t
        BY <1>2, <1>3, <2>3 DEF UsgsHold, TouchedOnce
    <2> QED
        BY <2>2, <2>3, <2>4
<1> QED
    BY <1>1, <1>2, <1>4 DEF Spoiled, Rows, Messages

LEMMA OthersGood ==
    ASSUME Typed, Typed', OneContent, NEW t \in Messages, OwnRow(t), rows'[msgs[t].row].status # "SUCCESS"
    PROVE  \A c \in Rows : Good(c)' => Good(c)
<1> SUFFICES ASSUME NEW c \in Rows, Good(c)'
             PROVE  Good(c)
    OBVIOUS
<1>1. c # msgs[t].row
    BY DEF Good
<1>2. rows'[c] = rows[c]
    BY <1>1 DEF OwnRow, OnlyOwn
<1> QED
    BY <1>2 DEF Good

\* A delivery that is to run a LOSSE again fetches nothing.
LEMMA OnlyPartial ==
    ASSUME Typed, NEW t \in Messages, ~UsgsPartial(t), msgs[t].pc # "made"
    PROVE  \A d \in Rows : rows[d].type = "USGS_DETAIL" => ~Prepares(t, d)
<1>1. Rows = 1..Len(rows)
    BY DEF Typed, IsTable, Rows
<1>2. SUFFICES ASSUME NEW d \in Rows, rows[d].type = "USGS_DETAIL", Prepares(t, d) PROVE FALSE
    OBVIOUS
<1> QED
    BY <1>1, <1>2 DEF Prepares, UsgsPartial, RowOf, OnRow

LEMMA UsgsRaiseKeeps ==
    ASSUME Typed, Typed', UsgsHold, NEW t \in Messages, Received(t), ~UsgsPartial(t), OwnRow(t), Raise(t),
           rows'[msgs[t].row].status # "SUCCESS"
    PROVE  UsgsHold'
<1>1. msgs \in Seq(Message) /\ chords \in Seq(Chord) /\ Bound(msgs, chords) /\ OneContent
      /\ msgs[t].pc = "queued" /\ msgs[t].kind = "extract" /\ msgs[t].row \in Rows
    BY Delivery DEF Typed, IsQueue, UsgsHold, Received, Taken, Waits, At
<1>2. /\ UsgsRows(t) /\ OneContent' /\ ended \subseteq ended' /\ fed \subseteq fed'
      /\ \A d \in Rows : rows'[d].content = rows[d].content
    BY <1>1, OwnRows
<1>3. PICK none : none = <<>>
    OBVIOUS
<1>4. none \in Seq(Message) /\ DOMAIN none = {} /\ msgs' = Acked(t) \o none
    <2>1. Acked(t) \in Seq(Message) /\ msgs' = Acked(t)
        BY <1>1, AckedMessages DEF Raise
    <2> QED
        BY <1>3, <2>1
<1>5. PICK from : \E k \in Nat : Carries(t, from) /\ Gone(from, t) /\ News(from, none, k)
    BY <1>1, <1>4, AckedCarries
<1>6. \A i \in DOMAIN msgs' : from[i] \notin {0, t}
    BY <1>4, <1>5 DEF Gone, News
<1>7. HandsOn(t, from)
    BY <1>5, <1>6 DEF HandsOn
<1>8. /\ Bound(msgs', chords') /\ DOMAIN chords' = DOMAIN chords
      /\ \A c \in DOMAIN chords : /\ chords'[c].body = chords[c].body
                                  /\ chords'[c].broken <=> chords[c].broken \/ c = msgs[t].chord
    BY <1>1, RaiseBound
<1>9. BodiesStay
    BY <1>8 DEF BodiesStay
<1>10. ASSUME NEW c \in DOMAIN chords, c = msgs[t].chord, NEW d \in Rows, chords[c].body = After(d)
       PROVE  Spoiled(d)'
    <2>1. c # 0
        BY <1>1
    <2>2. rows[msgs[t].row].type \in UsgsFiles /\ d = rows[msgs[t].row].parent
        BY <1>1, <1>10, <2>1, PartIsFile
    <2> QED
        BY <1>6, <1>7, <2>2, GivesUp
<1>11. \A c \in DOMAIN chords : chords'[c].broken =>
            chords[c].broken \/ \A d \in Rows : chords[c].body = After(d) => Spoiled(d)'
    BY <1>8, <1>10
<1>12. \A d \in Rows : rows[d].type = "USGS_DETAIL" => ~Prepares(t, d)
    BY <1>1, OnlyPartial
<1>13. ASSUME NEW d \in Rows, Waiting(d) PROVE Cared(d)'
    <2>1. PICK c \in DOMAIN chords : chords[c].body = After(d) /\ ~chords[c].broken
        BY <1>13 DEF Waiting
    <2>2. CASE c = msgs[t].chord
        BY <1>10, <1>13, <2>1, <2>2 DEF Cared
    <2>3. CASE c # msgs[t].chord
        BY <1>8, <2>1, <2>3 DEF Waiting, Cared
    <2> QED
        BY <2>2, <2>3
<1>14. \A d \in Rows : \A c \in Children(d) : Good(c)' => Good(c)
    BY <1>1, OthersGood DEF Children
<1>15. \A c \in DOMAIN chords' \ DOMAIN chords : ~chords'[c].broken
    BY <1>8
<1>16. \A d \in Rows : (rows[d].type = "USGS_DETAIL" /\ rows'[d].content # 0) =>
            /\ rows[d].content = 0 => Cared(d)'
            /\ Waiting(d) => Cared(d)'
            /\ (msgs[t].kind = "transform" /\ msgs[t].row = d) => Cared(d)'
            /\ Prepares(t, d) => Cared(d)'
            /\ (\A c \in Children(d) : Good(c)' => Good(c)) \/ Cared(d)'
    BY <1>1, <1>2, <1>12, <1>13, <1>14
<1> QED
    BY <1>2, <1>6, <1>7, <1>8, <1>9, <1>11, <1>15, <1>16, UsgsKept

\* What a task that returns publishes is a transform.
LEMMA QuitsCarries ==
    ASSUME Typed, Typed', Bound(msgs, chords), NEW t \in Messages, NEW known, NEW groups,
           Leaving(t, known, groups), Closes(t, groups)
    PROVE  \E from : /\ Carries(t, from) /\ Gone(from, t)
                     /\ \A i \in DOMAIN msgs' : from[i] = 0 => msgs'[i].kind = "transform" /\ ~msgs'[i].next
<1>1. msgs \in Seq(Message) /\ chords \in Seq(Chord)
    BY DEF Typed, IsQueue
<1>2. PICK more \in Seq(Message), first \in Nat :
            /\ msgs' = Acked(t) \o more
            /\ \/ DOMAIN more = {}
               \/ first \in DOMAIN groups /\ Alike(more, groups[first])
    <2>1. \A more \in Seq(Message) : more = <<>> => DOMAIN more = {}
        OBVIOUS
    <2> QED
        BY <2>1 DEF Leaving, Opened
<1>3. ASSUME NEW j \in DOMAIN more PROVE more[j].kind = "transform" /\ ~more[j].next
    <2>1. first \in DOMAIN groups /\ Alike(more, groups[first])
        BY <1>2, <1>3
    <2>2. PICK r \in Nat : groups = After(r)
        BY <2>1 DEF Closes, Bound, EndsWell
    <2>3. groups[first] = <<Transform(r)>>
        BY <2>1, <2>2 DEF After
    <2>4. j \in DOMAIN <<Transform(r)>> /\ <<Transform(r)>>[j] = Transform(r)
        BY <1>3, <2>1, <2>3 DEF Alike
    <2> QED
        BY <1>3, <2>1, <2>3, <2>4, TransformIs DEF Alike
<1>4. PICK from : \E k \in Nat : Carries(t, from) /\ Gone(from, t) /\ News(from, more, k)
    BY <1>1, <1>2, AckedCarries
<1> QED
    BY <1>3, <1>4 DEF News

LEMMA UsgsReturnKeeps ==
    ASSUME Typed, Typed', Usgs, UsgsHold, NEW t \in Messages, Received(t) \/ msgs[t].pc = "sent", ~UsgsPartial(t) \/ msgs[t].pc = "sent",
           OwnRow(t), NEW value \in 0..Len(rows), Return(t, value)
    PROVE  UsgsHold'
<1>1. /\ msgs \in Seq(Message) /\ chords \in Seq(Chord) /\ Bound(msgs, chords) /\ OneContent
      /\ rows \in Seq(RowRecord) /\ IsQueue(msgs, chords, rows) /\ CeleryRetries \in Nat
      /\ msgs[t].pc \in {"queued", "sent"} /\ msgs[t].kind = "extract" /\ msgs[t].row \in Rows /\ ~msgs[t].next
    <2>1. msgs[t].kind = "extract" /\ msgs[t].row \in Rows /\ rows \in Seq(RowRecord) /\ IsQueue(msgs, chords, rows)
          /\ msgs \in Seq(Message)
        BY Delivery
    <2>2. msgs[t].pc \in {"queued", "sent"}
        BY DEF Received, Taken, Waits, At
    <2>3. Bound(msgs, chords) /\ OneContent /\ ~msgs[t].next /\ chords \in Seq(Chord)
        BY <2>1 DEF UsgsHold, UsgsMessage, IsQueue
    <2> QED
        BY <2>1, <2>2, <2>3, FanOutAssumption
<1>2. /\ UsgsRows(t) /\ OneContent' /\ ended \subseteq ended' /\ fed \subseteq fed'
      /\ \A d \in Rows : rows'[d].content = rows[d].content
    BY <1>1, OwnRows
<1>3. /\ Bound(msgs', chords') /\ ChordsGoOn
      /\ \A a \in Nat : Waiting(a) => Waiting(a)' \/ Sent(a)'
    BY <1>1, ReturnBound
<1>4. PICK from : /\ Carries(t, from) /\ Gone(from, t)
                  /\ \A i \in DOMAIN msgs' : from[i] = 0 => msgs'[i].kind = "transform" /\ ~msgs'[i].next
    <2>1. PICK known, groups : Leaving(t, known, groups) /\ Closes(t, groups)
        BY <1>1, ReturnLeaves
    <2> QED
        BY <1>1, <2>1, QuitsCarries
<1>5. ASSUME NEW i \in DOMAIN msgs', from[i] \in {0, t}
      PROVE  /\ from[i] = 0 /\ msgs'[i].kind = "transform" /\ ~msgs'[i].next
             /\ \A p : ~Touches(msgs'[i], rows', p)
    BY <1>4, <1>5 DEF Gone, Touches
<1>6. HandsOn(t, from)
    BY <1>4, <1>5 DEF HandsOn
<1>7. \A i \in DOMAIN msgs' : from[i] \in {0, t} => UsgsMessage(msgs'[i], chords', rows')
    BY <1>5 DEF UsgsMessage
<1>8. \A i \in DOMAIN msgs' : from[i] = 0 => msgs'[i].chord \notin DOMAIN chords
    <2>1. ASSUME NEW i \in DOMAIN msgs', from[i] = 0 PROVE msgs'[i].chord = 0
        BY <1>3, <1>4, <2>1 DEF Bound
    <2>2. 0 \notin DOMAIN chords
        BY <1>1
    <2> QED
        BY <2>1, <2>2
<1>9. BodiesStay
    BY <1>3 DEF BodiesStay, ChordsGoOn
<1>10. ASSUME NEW d \in Rows, Waiting(d) PROVE Cared(d)'
    <2>1. d \in Nat
        BY <1>1 DEF Rows
    <2> QED
        BY <1>3, <1>10, <2>1 DEF Cared
<1>11. \A d \in Rows : rows[d].type = "USGS_DETAIL" => ~Prepares(t, d)
    <2>1. CASE msgs[t].pc = "sent"
        BY <2>1 DEF Prepares
    <2>2. CASE msgs[t].pc = "queued"
        BY <2>2, OnlyPartial
    <2> QED
        BY <1>1, <2>1, <2>2
<1>12. ASSUME NEW d \in Rows, rows[d].type = "USGS_DETAIL"
       PROVE  (\A c \in Children(d) : Good(c)' => Good(c)) \/ Cared(d)'
    <2>1. SUFFICES ASSUME NEW c \in Children(d), Good(c)', ~Good(c) PROVE Cared(d)'
        OBVIOUS
    <2>2. c \in Rows /\ rows[c].parent = d
        BY DEF Children
    <2>3. c = msgs[t].row
        BY <2>1, <2>2 DEF OwnRow, OnlyOwn, Good
    <2>4. rows[c].type \in UsgsFiles
        BY <1>12, <2>2 DEF UsgsHold, OnlyFiles
    <2>5. msgs[t].chord \in DOMAIN chords /\ chords[msgs[t].chord].body = After(d)
        BY <1>1, <2>2, <2>3, <2>4 DEF UsgsHold, UsgsMessage
    <2>6. CASE ~chords[msgs[t].chord].broken
        BY <1>10, <2>5, <2>6 DEF Waiting
    <2>7. CASE chords[msgs[t].chord].broken
        <3>1. t \in PartsOf(msgs, msgs[t].chord)
            BY DEF PartsOf, Messages
        <3>2. Spoiled(d)
            BY <2>5, <2>7, <3>1 DEF UsgsHold, BrokenSpoils
        <3>3. Spoiled(d)'
            BY <1>2, <1>6, <3>2, SpoiledStays DEF UsgsHold
        <3> QED
            BY <3>3 DEF Cared
    <2> QED
        BY <2>6, <2>7
<1>13. \A c \in DOMAIN chords' \ DOMAIN chords : ~chords'[c].broken
    BY <1>3 DEF ChordsGoOn
<1>14. \A c \in DOMAIN chords : chords'[c].broken =>
            chords[c].broken \/ \A d \in Rows : chords[c].body = After(d) => Spoiled(d)'
    BY <1>3 DEF ChordsGoOn
<1>15. \A d \in Rows : (rows[d].type = "USGS_DETAIL" /\ rows'[d].content # 0) =>
            /\ rows[d].content = 0 => Cared(d)'
            /\ Waiting(d) => Cared(d)'
            /\ (msgs[t].kind = "transform" /\ msgs[t].row = d) => Cared(d)'
            /\ Prepares(t, d) => Cared(d)'
            /\ (\A c \in Children(d) : Good(c)' => Good(c)) \/ Cared(d)'
    BY <1>1, <1>2, <1>10, <1>11, <1>12
<1> QED
    BY <1>2, <1>3, <1>6, <1>7, <1>8, <1>9, <1>13, <1>14, <1>15, UsgsKept

LEMMA UsgsFinishKeeps ==
    ASSUME Typed, Typed', Usgs, UsgsHold, NEW t \in Messages, Finish(t), Grows(rows, rows')
    PROVE  UsgsHold'
<1>1. /\ msgs[t].pc = "sent" /\ msgs[t].kind = "extract" /\ msgs[t].row \in Rows
      /\ rows' = Mark(rows, t, "SUCCESS") /\ Return(t, msgs[t].value) /\ UNCHANGED <<world, ended, fed>>
    BY Delivery DEF Finish, At, SetStatus
<1>2. msgs[t].value \in 0..Len(rows)
    BY MessageOf DEF Refers
<1>3. "SUCCESS" \in Status
    BY DEF Status
<1>4. OwnRow(t)
    BY <1>1, <1>3, MarkIs, MarkContent DEF OwnRow, OnlyOwn, AtWork
<1> QED
    BY <1>1, <1>2, <1>4, UsgsReturnKeeps

LEMMA UsgsOtherKeeps ==
    ASSUME Typed, Typed', Usgs, UsgsHold, NEW t \in Messages, OtherError(t), ~UsgsPartial(t), Grows(rows, rows')
    PROVE  UsgsHold'
<1>1. /\ Received(t) /\ msgs[t].kind = "extract" /\ msgs[t].row \in Rows
      /\ rows' = Mark(rows, t, "FAILED") /\ Raise(t) /\ UNCHANGED <<world, ended, fed>>
    BY Delivery DEF OtherError, SetStatus
<1>2. "FAILED" \in Status
    BY DEF Status
<1>3. OwnRow(t) /\ rows'[msgs[t].row].status # "SUCCESS"
    BY <1>1, <1>2, MarkIs, MarkContent DEF OwnRow, OnlyOwn, AtWork
<1> QED
    BY <1>1, <1>3, UsgsRaiseKeeps

\* The row of a delivery that is to be tried again.
LEMMA RetriedRow ==
    ASSUME Typed, NEW t \in Messages, Received(t),
           rows' = [rows EXCEPT ![msgs[t].row].status = "ON_RETRY", ![msgs[t].row].attempts = @ + 1],
           Grows(rows, rows'), UNCHANGED <<world, ended, fed>>
    PROVE  OwnRow(t) /\ rows'[msgs[t].row].status # "SUCCESS"
<1>1. PICK r : r = msgs[t].row
    OBVIOUS
<1>2. r \in DOMAIN rows /\ rows \in Seq(RowRecord) /\ rows[r] \in RowRecord /\ AtWork(t) /\ Rows = DOMAIN rows
    BY <1>1, Delivery DEF Rows, AtWork
<1>3. PICK one : one = [rows[r] EXCEPT !.status = "ON_RETRY"]
    OBVIOUS
<1>4. one \in RowRecord /\ one.status = "ON_RETRY" /\ one.content = rows[r].content
    BY <1>2, <1>3 DEF RowRecord, Status
<1>5. PICK two : two = [one EXCEPT !.attempts = @ + 1]
    OBVIOUS
<1>6. two.status = "ON_RETRY" /\ two.content = rows[r].content
    BY <1>4, <1>5 DEF RowRecord
<1>7. rows' = [rows EXCEPT ![r] = two]
    BY <1>1, <1>2, <1>3, <1>5
<1>8. DOMAIN rows' = Rows /\ rows'[r] = two /\ \A o \in Rows \ {r} : rows'[o] = rows[o]
    BY <1>2, <1>7
<1> QED
    BY <1>1, <1>2, <1>6, <1>8 DEF OwnRow, OnlyOwn

LEMMA UsgsRetryKeeps ==
    ASSUME Typed, Typed', Usgs, UsgsHold, NEW t \in Messages, Received(t), ~UsgsPartial(t),
           OwnRow(t), rows'[msgs[t].row].status # "SUCCESS", msgs' = RetryMessage(t), UNCHANGED chords
    PROVE  UsgsHold'
<1>1. /\ msgs[t] \in Message /\ msgs \in Seq(Message) /\ t \in DOMAIN msgs /\ rows \in Seq(RowRecord)
      /\ msgs[t].pc = "queued" /\ msgs[t].kind = "extract" /\ msgs[t].row \in Rows /\ OneContent
    BY Delivery DEF Received, Taken, Waits, At, UsgsHold
<1>2. PICK m1 : m1 = [msgs[t] EXCEPT !.pc = "queued"]
    OBVIOUS
<1>3. PICK m : m = [m1 EXCEPT !.retries = @ + 1]
    OBVIOUS
<1>4. m1 \in Message /\ Same(m1, msgs[t]) /\ m1.pc = "queued" /\ m1.failed = msgs[t].failed
    BY <1>1, <1>2 DEF Message, MessageWith, Places, Same
<1>5. m1.retries + 1 \in Nat
    BY <1>4 DEF Message, MessageWith
<1>6. m \in Message /\ Same(m, msgs[t]) /\ m.pc = "queued" /\ m.failed = msgs[t].failed
    BY <1>3, <1>4, <1>5 DEF Message, MessageWith, Same
<1>7. msgs' = [msgs EXCEPT ![t] = m]
    <2>1. m = [m1 EXCEPT !.retries = msgs[t].retries + 1]
        BY <1>1, <1>2, <1>3 DEF Message, MessageWith
    <2> QED
        BY <1>1, <1>2, <2>1 DEF RetryMessage, Move
<1>8. Shifted(t, m)
    BY <1>6, <1>7 DEF Shifted
<1>9. /\ UsgsRows(t) /\ OneContent' /\ ended \subseteq ended' /\ fed \subseteq fed' /\ DOMAIN rows' = Rows
      /\ \A d \in Rows : rows'[d].content = rows[d].content
    BY <1>1, OwnRows
<1>10. UsgsMessage(msgs[t], chords', rows')
    <2>1. rows' \in Seq(RowRecord) /\ Grows(rows, rows') /\ DOMAIN rows \subseteq DOMAIN rows'
        BY <1>9 DEF Typed, IsTable, OwnRow, Rows
    <2>2. UsgsMessage(msgs[t], chords, rows) /\ DOMAIN chords \subseteq DOMAIN chords'
        BY DEF UsgsHold
    <2> QED
        BY <2>1, <2>2, MessageStays
<1>11. UsgsMessage(m, chords, rows')
    BY <1>1, <1>6, <1>10 DEF UsgsMessage, Same
<1>12. ASSUME NEW p \in Rows, Touches(m, rows', p) PROVE Touches(msgs[t], rows, p)
    <2>1. Touches(msgs[t], rows', p)
        BY <1>1, <1>6, <1>12 DEF Touches, Same
    <2> QED
        BY <1>9, <2>1, TouchesLater DEF UsgsRows, Rows
<1>13. \A d \in Rows : (/\ rows[d].type = "USGS_DETAIL" /\ rows'[d].content # 0 /\ OnRow(t, d)
                        /\ rows[d].content = 0 \/ Prepares(t, d)) =>
            m.pc = "made" \/ (m.pc = "queued" /\ m.failed \in Rows /\ rows[m.failed].type = "LOSSE")
    BY <1>1, <1>9, OnlyPartial
<1> QED
    BY <1>1, <1>8, <1>9, <1>11, <1>12, <1>13, ShiftKeeps

LEMMA UsgsFailsKeeps ==
    ASSUME Typed, Typed', Usgs, UsgsHold, NEW t \in Messages, NEW limit, FetchFails(t, limit), ~UsgsPartial(t),
           Grows(rows, rows')
    PROVE  UsgsHold'
<1>1. Received(t) /\ msgs[t].kind = "extract" /\ msgs[t].row \in Rows /\ UNCHANGED <<world, ended, fed>>
    BY Delivery DEF FetchFails
<1>2. CASE rows' = Mark(rows, t, "FAILED") /\ Return(t, 0)
    <2>1. "FAILED" \in Status
        BY DEF Status
    <2>2. OwnRow(t)
        BY <1>1, <1>2, <2>1, MarkIs, MarkContent DEF OwnRow, OnlyOwn, AtWork
    <2>3. 0 \in 0..Len(rows)
        BY DEF Typed, IsTable
    <2> QED
        BY <1>1, <1>2, <2>2, <2>3, UsgsReturnKeeps
<1>3. CASE /\ rows' = [rows EXCEPT ![msgs[t].row].status = "ON_RETRY", ![msgs[t].row].attempts = @ + 1]
           /\ \/ RetryAllowed(t) /\ msgs' = RetryMessage(t) /\ UNCHANGED chords
              \/ ~RetryAllowed(t) /\ Raise(t)
    <2>1. OwnRow(t) /\ rows'[msgs[t].row].status # "SUCCESS"
        BY <1>1, <1>3, RetriedRow
    <2> QED
        BY <1>1, <1>3, <2>1, UsgsRetryKeeps, UsgsRaiseKeeps
<1> QED
    BY <1>2, <1>3 DEF FetchFails, RetryOr

-----------------------------------------------------------------------------
(* A transform is run, and what was made is published.                          *)

LEMMA UsgsRunsKeeps ==
    ASSUME Typed, Typed', Usgs, UsgsHold, NEW t \in Messages, RunTransform(t, UsgsReads(msgs[t].row))
    PROVE  UsgsHold'
<1>1. PICK r : r = msgs[t].row
    OBVIOUS
<1>2. /\ msgs[t].kind = "transform" /\ ended' = ended \cup {r} /\ msgs' = Acked(t)
      /\ fed' = fed \cup {<<c, rows[c].content>> : c \in UsgsReads(r)}
      /\ UNCHANGED <<rows, chords, world, spent>>
    BY <1>1 DEF RunTransform, At
<1>3. /\ msgs \in Seq(Message) /\ chords \in Seq(Chord) /\ Bound(msgs, chords) /\ OneContent
      /\ rows \in Seq(RowRecord) /\ msgs[t].chord = 0
    BY <1>2 DEF Typed, IsQueue, IsTable, UsgsHold, Bound, Messages
<1>4. UsgsRows(t)
    BY <1>2, <1>3, GrowsItself DEF UsgsRows, Rows
<1>5. Bound(msgs', chords') /\ ChordsGoOn
    BY <1>2, <1>3, RunsBound
<1>6. PICK none : none = <<>>
    OBVIOUS
<1>7. none \in Seq(Message) /\ DOMAIN none = {} /\ msgs' = Acked(t) \o none
    <2>1. Acked(t) \in Seq(Message) /\ msgs' = Acked(t)
        BY <1>2, <1>3, AckedMessages
    <2> QED
        BY <1>6, <2>1
<1>8. PICK from : \E k \in Nat : Carries(t, from) /\ Gone(from, t) /\ News(from, none, k)
    BY <1>3, <1>7, AckedCarries
<1>9. \A i \in DOMAIN msgs' : from[i] \notin {0, t}
    BY <1>7, <1>8 DEF Gone, News
<1>10. HandsOn(t, from)
    BY <1>8, <1>9 DEF HandsOn
<1>11. ASSUME NEW d \in Rows, rows[d].content # 0, d = r PROVE QuakeFed(d)'
    <2>1. UsgsReads(d) = {d} \cup {c \in Children(d) : Good(c)}
        BY <1>11 DEF UsgsReads, WithOwn
    <2>2. ASSUME NEW c \in UsgsReads(d) PROVE Reads(c)'
        <3>1. <<c, rows[c].content>> \in fed'
            BY <1>2, <1>11, <2>2
        <3> QED
            BY <1>2, <3>1 DEF Reads
    <2>3. \A c \in Children(d)' : Good(c)' => c \in UsgsReads(d)
        BY <1>2, <2>1 DEF Children, Good, Rows
    <2> QED
        BY <1>2, <1>11, <2>1, <2>2, <2>3 DEF QuakeFed
<1>12. \A d \in Rows : (rows[d].type = "USGS_DETAIL" /\ rows'[d].content # 0) =>
            /\ rows[d].content = 0 => Cared(d)'
            /\ Waiting(d) => Cared(d)'
            /\ (msgs[t].kind = "transform" /\ msgs[t].row = d) => Cared(d)'
            /\ Prepares(t, d) => Cared(d)'
            /\ (\A c \in Children(d) : Good(c)' => Good(c)) \/ Cared(d)'
    <2>1. \A d \in Rows : Waiting(d) => Waiting(d)'
        BY <1>2 DEF Waiting
    <2>2. \A d \in Rows : ~Prepares(t, d)
        BY <1>2 DEF Prepares, OnRow
    <2>3. \A c : Good(c)' => Good(c)
        BY <1>2 DEF Good
    <2> QED
        BY <1>1, <1>2, <1>11, <2>1, <2>2, <2>3 DEF Cared
<1>13. /\ BodiesStay /\ \A c \in DOMAIN chords' \ DOMAIN chords : ~chords'[c].broken
       /\ \A c \in DOMAIN chords : chords'[c].broken =>
            chords[c].broken \/ \A d \in Rows : chords[c].body = After(d) => Spoiled(d)'
    BY <1>2 DEF BodiesStay
<1>14. OneContent' /\ ended \subseteq ended' /\ fed \subseteq fed'
    BY <1>2, <1>3 DEF OneContent, Rows
<1> QED
    BY <1>4, <1>5, <1>9, <1>10, <1>12, <1>13, <1>14, UsgsKept

LEMMA UsgsSendsKeeps ==
    ASSUME Typed, Typed', UsgsHold, NEW t \in Messages, msgs[t].kind = "extract", msgs[t].pc = "made",
           UNCHANGED <<rows, world, ended, fed>>, NEW more \in Seq(Message), MovesOn(t, SentOf(t), more),
           Bound(msgs', chords'), ChordsGoOn, \A a \in Nat : Waiting(a) => Waiting(a)',
           \A j \in DOMAIN more : UsgsMessage(more[j], chords', rows) /\ more[j].chord \notin DOMAIN chords,
           \A j \in DOMAIN more, p \in Rows : Touches(more[j], rows, p) => Touches(msgs[t], rows, p),
           \A i, j \in DOMAIN more : \A p : (Touches(more[i], rows, p) /\ Touches(more[j], rows, p)) => i = j,
           NEW r, r = msgs[t].row, rows[r].type = "USGS_DETAIL" => Cared(r)'
    PROVE  UsgsHold'
<1>1. /\ msgs \in Seq(Message) /\ chords \in Seq(Chord) /\ OneContent /\ rows \in Seq(RowRecord) /\ msgs[t] \in Message
      /\ UsgsMessage(msgs[t], chords, rows)
    BY DEF Typed, IsQueue, IsTable, UsgsHold, Messages
<1>2. PICK m : m = SentOf(t)
    OBVIOUS
<1>3. m \in Message /\ Same(m, msgs[t]) /\ m.pc = "sent"
    BY <1>1, <1>2, SentOfIs DEF Same
<1>4. UsgsRows(t)
    BY <1>1, GrowsItself DEF UsgsRows, Rows
<1>5. PICK from : \E k \in Nat : /\ Carries(t, from) /\ News(from, more, k)
                                 /\ t \in DOMAIN msgs' /\ from[t] = t /\ msgs'[t] = m
                                 /\ \A i \in DOMAIN msgs' : from[i] = t => i = t
    <2>1. MovesOn(t, m, more)
        BY <1>2
    <2> QED
        BY <1>1, <1>3, <2>1, MovedCarries
<1>6. PICK k \in Nat : News(from, more, k)
    BY <1>5
<1>7. rows[msgs[t].row].type \notin UsgsFiles /\ msgs[t].row \in Rows
    BY <1>1 DEF UsgsMessage, Rows
<1>8. \A p : ~Touches(m, rows, p)
    BY <1>3, <1>7 DEF Touches, Same
<1>9. ASSUME NEW i \in DOMAIN msgs', from[i] \in {0, t}, NEW p, Touches(msgs'[i], rows', p)
      PROVE  from[i] = 0 /\ i - k \in DOMAIN more /\ msgs'[i] = more[i - k] /\ p \in Rows
    <2>1. from[i] # t
        BY <1>5, <1>8, <1>9
    <2> QED
        BY <1>6, <1>9, <2>1 DEF News, Touches, Rows
<1>10. HandsOn(t, from)
    <2>1. ASSUME NEW i \in DOMAIN msgs', from[i] \in {0, t}, NEW p \in Rows, Touches(msgs'[i], rows', p)
          PROVE  Touches(msgs[t], rows, p)
        BY <1>9, <2>1
    <2>2. ASSUME NEW i \in DOMAIN msgs', NEW j \in DOMAIN msgs', from[i] \in {0, t}, from[j] \in {0, t},
                 NEW p, Touches(msgs'[i], rows', p), Touches(msgs'[j], rows', p)
          PROVE  i = j
        <3>1. i - k \in DOMAIN more /\ msgs'[i] = more[i - k] /\ j - k \in DOMAIN more /\ msgs'[j] = more[j - k]
            BY <1>9, <2>2
        <3>2. i - k = j - k
            BY <2>2, <3>1
        <3>3. i \in Int /\ j \in Int
            BY DEF Typed, IsQueue
        <3> QED
            BY <3>2, <3>3
    <2> QED
        BY <1>5, <2>1, <2>2 DEF HandsOn
<1>11. BodiesStay
    BY DEF ChordsGoOn, BodiesStay
<1>12. ASSUME NEW i \in DOMAIN msgs', from[i] = t PROVE UsgsMessage(msgs'[i], chords', rows')
    <2>1. rows' \in Seq(RowRecord) /\ Grows(rows, rows') /\ DOMAIN rows \subseteq DOMAIN rows'
        BY <1>1, GrowsItself
    <2>2. msgs[t].chord = 0
        BY <1>1, <1>7 DEF UsgsMessage, Rows
    <2>3. msgs[t].chord \notin DOMAIN chords /\ DOMAIN chords \subseteq DOMAIN chords'
        BY <1>1, <2>2 DEF ChordsGoOn
    <2>4. UsgsMessage(msgs[t], chords', rows')
        BY <1>1, <2>1, <2>3, MessageStays
    <2>5. msgs'[i] = m
        BY <1>5, <1>12
    <2> QED
        BY <1>3, <1>7, <2>4, <2>5 DEF UsgsMessage, Same
<1>13. \A i \in DOMAIN msgs' : from[i] \in {0, t} => UsgsMessage(msgs'[i], chords', rows')
    BY <1>6, <1>12 DEF News
<1>14. \A i \in DOMAIN msgs' : from[i] = 0 => msgs'[i].chord \notin DOMAIN chords
    BY <1>6 DEF News
<1>15. /\ \A c \in DOMAIN chords' \ DOMAIN chords : ~chords'[c].broken
       /\ \A c \in DOMAIN chords : chords'[c].broken =>
            chords[c].broken \/ \A d \in Rows : chords[c].body = After(d) => Spoiled(d)'
    BY DEF ChordsGoOn
<1>16. OneContent' /\ ended \subseteq ended' /\ fed \subseteq fed'
    BY <1>1 DEF OneContent, Rows
<1>17. \A d \in Rows : (rows[d].type = "USGS_DETAIL" /\ rows'[d].content # 0) =>
            /\ rows[d].content = 0 => Cared(d)'
            /\ Waiting(d) => Cared(d)'
            /\ (msgs[t].kind = "transform" /\ msgs[t].row = d) => Cared(d)'
            /\ Prepares(t, d) => Cared(d)'
            /\ (\A c \in Children(d) : Good(c)' => Good(c)) \/ Cared(d)'
    <2>1. \A d \in Rows : Waiting(d) => Waiting(d)'
        BY <1>1 DEF Rows
    <2>2. \A d \in Rows : Prepares(t, d) => d = r
        BY DEF Prepares, OnRow
    <2>3. \A c : Good(c)' => Good(c)
        BY DEF Good
    <2> QED
        BY <2>1, <2>2, <2>3 DEF Cared
<1> QED
    BY <1>4, <1>10, <1>11, <1>13, <1>14, <1>15, <1>16, <1>17, UsgsKept

\* The messages of a group, as they are published.
Likewise(more, g) ==
    /\ DOMAIN more = DOMAIN g
    /\ \A j \in DOMAIN g : /\ more[j].kind = g[j].kind /\ more[j].row = g[j].row /\ more[j].next = g[j].next
                           /\ more[j].pc = g[j].pc /\ more[j].failed = g[j].failed

LEMMA GroupTouches ==
    ASSUME rows \in Seq(RowRecord), NEW g, Separate(g, rows), NEW more, Likewise(more, g), NEW j \in DOMAIN more
    PROVE  /\ more[j].kind = "extract" /\ more[j].row \in DOMAIN rows /\ ~more[j].next /\ more[j].pc = "queued"
           /\ more[j].row = g[j].row
           /\ more[j].failed \in DOMAIN rows => more[j].row = more[j].failed
           /\ \A p : Touches(more[j], rows, p) => p = g[j].row /\ rows[p].type \in UsgsFiles
<1>1. more[j].kind = "extract" /\ more[j].row \in DOMAIN rows /\ ~more[j].next /\ more[j].pc = "queued"
      /\ more[j].row = g[j].row /\ more[j].failed \in {0, g[j].row}
    BY DEF Likewise, Separate, Starters
<1>2. 0 \notin DOMAIN rows
    OBVIOUS
<1> QED
    BY <1>1, <1>2 DEF Touches

LEMMA UsgsDispatchKeeps ==
    ASSUME Typed, Typed', Usgs, UsgsHold, NEW t \in Messages, Dispatch(t)
    PROVE  UsgsHold'
<1>1. /\ msgs[t].kind = "extract" /\ msgs[t].pc = "made" /\ msgs[t].row \in Rows /\ msgs[t] \in Message
      /\ msgs \in Seq(Message) /\ chords \in Seq(Chord) /\ rows \in Seq(RowRecord) /\ Bound(msgs, chords)
      /\ UNCHANGED <<rows, world, ended, fed>> /\ MessageFits(msgs[t], rows)
    <2>1. msgs[t].kind = "extract" /\ msgs[t].pc = "made" /\ UNCHANGED <<rows, world, ended, fed>>
        BY DEF Dispatch, At
    <2> QED
        BY <2>1, Delivery DEF IsQueue, UsgsHold
<1>2. PICK r : r = msgs[t].row
    OBVIOUS
<1>3. UsgsMessage(msgs[t], chords, rows) /\ UsgsTodo(msgs[t], rows) /\ GroupsFit(msgs[t].todo, rows)
    BY <1>1 DEF UsgsHold, UsgsMessage, MessageFits
<1>4. PICK g : g = msgs[t].todo[1]
    OBVIOUS
<1>5. /\ g \in Seq(Plain) /\ Separate(g, rows)
      /\ \/ /\ rows[r].type # "USGS_DETAIL" /\ msgs[t].todo = <<g>>
            /\ \A j \in DOMAIN g : rows[g[j].row].type \notin UsgsFiles
         \/ /\ rows[r].type = "USGS_DETAIL" /\ msgs[t].todo = <<g, <<Transform(r)>>>>
            /\ FilesOf(g, rows, r)
    BY <1>2, <1>3, <1>4 DEF UsgsTodo
<1>6. \A j \in DOMAIN g : g[j].chord = 0 /\ g[j].kind = "extract"
    <2>1. 1 \in DOMAIN msgs[t].todo
        BY <1>5
    <2> QED
        BY <1>3, <1>4, <1>5, <2>1 DEF GroupsFit, Fresh, Separate, Starters
<1>7. PICK m : m = SentOf(t)
    OBVIOUS
<1>8. m \in Message /\ m.chord = msgs[t].chord /\ m.kind = msgs[t].kind
    BY <1>1, <1>7, SentOfIs
<1>9. 0 \notin DOMAIN chords /\ Len(chords) \in Nat /\ Len(chords) + 1 \notin DOMAIN chords
    BY <1>1
<1>10. CASE /\ rows[r].type # "USGS_DETAIL" /\ msgs[t].todo = <<g>>
            /\ \A j \in DOMAIN g : rows[g[j].row].type \notin UsgsFiles
    <2>1. MovesOn(t, m, g) /\ UNCHANGED chords
        BY <1>1, <1>5, <1>7, <1>10, DispatchSends
    <2>2. g \in Seq(Message)
        BY <1>5, MessageTypes
    <2>3. Bound(msgs', chords') /\ ChordsGoOn
        BY <1>1, <1>6, <1>8, <2>1, <2>2, MovesBound
    <2>4. Likewise(g, g)
        BY DEF Likewise
    <2>5. ASSUME NEW j \in DOMAIN g, NEW p PROVE ~Touches(g[j], rows, p)
        <3>1. Touches(g[j], rows, p) => p = g[j].row /\ rows[p].type \in UsgsFiles
            BY <1>1, <1>5, <2>4, GroupTouches
        <3> QED
            BY <1>10, <3>1
    <2>6. ASSUME NEW j \in DOMAIN g PROVE UsgsMessage(g[j], chords', rows) /\ g[j].chord \notin DOMAIN chords
        <3>1. /\ g[j].kind = "extract" /\ g[j].row \in DOMAIN rows /\ ~g[j].next /\ g[j].pc = "queued"
              /\ g[j].failed \in DOMAIN rows => g[j].row = g[j].failed
            BY <1>1, <1>5, <2>4, <2>6, GroupTouches
        <3>2. rows[g[j].row].type \notin UsgsFiles /\ g[j].chord = 0
            BY <1>6, <1>10, <2>6
        <3> QED
            BY <1>9, <3>1, <3>2 DEF UsgsMessage
    <2>7. \A a \in Nat : Waiting(a) => Waiting(a)'
        BY <2>1 DEF Waiting
    <2> QED
        BY <1>1, <1>2, <1>7, <1>10, <2>1, <2>2, <2>3, <2>5, <2>6, <2>7, UsgsSendsKeeps
<1>11. CASE /\ rows[r].type = "USGS_DETAIL" /\ msgs[t].todo = <<g, <<Transform(r)>>>>
            /\ FilesOf(g, rows, r)
    <2>1. r \in Nat
        BY <1>1, <1>2 DEF Rows
    <2>2. Opens(t, g, r)
        BY <1>1, <1>5, <1>11, <2>1, DispatchOpens
    <2>3. \A o \in Messages : msgs[o].chord <= Len(chords)
        BY DEF Typed, IsQueue, Messages
    <2>4. /\ Bound(msgs', chords') /\ ChordsGoOn /\ (Waiting(r)' \/ Sent(r)')
          /\ \A a \in Nat : Waiting(a) => Waiting(a)'
        BY <1>1, <1>5, <1>6, <2>1, <2>2, <2>3, OpensBound
    <2>5. Cared(r)'
        BY <2>4 DEF Cared
    <2>6. CASE g = <<>> /\ MovesOn(t, SentOf(t), <<Transform(r)>>) /\ UNCHANGED chords
        <3>1. PICK more : more = <<Transform(r)>>
            OBVIOUS
        <3>2. more \in Seq(Message) /\ DOMAIN more = {1} /\ more[1] = Transform(r)
            BY <2>1, <3>1, TransformIs
        <3>3. \A j \in DOMAIN more : UsgsMessage(more[j], chords', rows) /\ more[j].chord \notin DOMAIN chords
            BY <1>9, <2>1, <3>2, TransformIs DEF UsgsMessage
        <3>4. \A j \in DOMAIN more : \A p : ~Touches(more[j], rows, p)
            BY <2>1, <3>2, TransformIs DEF Touches
        <3> QED
            BY <1>1, <1>2, <2>4, <2>5, <2>6, <3>1, <3>2, <3>3, <3>4, UsgsSendsKeeps
    <2>7. CASE /\ g # <<>> /\ MovesOn(t, SentOf(t), Header(g, Len(chords) + 1))
               /\ chords' = Append(chords, [left |-> Len(g), broken |-> FALSE, body |-> After(r)])
        <3>1. PICK more : more = Header(g, Len(chords) + 1)
            OBVIOUS
        <3>2. /\ more \in Seq(Message) /\ Likewise(more, g)
              /\ \A j \in DOMAIN more : more[j].chord = Len(chords) + 1
            BY <1>5, <1>9, <3>1, HeaderIs DEF Likewise
        <3>3. Len(chords) + 1 \in DOMAIN chords' /\ chords'[Len(chords) + 1].body = After(r)
            <4>1. PICK one : one = [left |-> Len(g), broken |-> FALSE, body |-> After(r)]
                OBVIOUS
            <4>2. one.body = After(r)
                BY <4>1
            <4>3. chords' = Append(chords, one)
                BY <2>7, <4>1
            <4> QED
                BY <1>1, <4>2, <4>3
        <3>4. ASSUME NEW j \in DOMAIN more
              PROVE  UsgsMessage(more[j], chords', rows) /\ more[j].chord \notin DOMAIN chords
            <4>1. /\ more[j].kind = "extract" /\ more[j].row \in DOMAIN rows /\ ~more[j].next /\ more[j].pc = "queued"
                  /\ more[j].failed \in DOMAIN rows => more[j].row = more[j].failed
                  /\ more[j].row = g[j].row
                BY <1>1, <1>5, <3>2, <3>4, GroupTouches
            <4>2. rows[more[j].row].type \in UsgsFiles /\ rows[more[j].row].parent = r /\ more[j].chord = Len(chords) + 1
                BY <1>11, <3>2, <3>4, <4>1 DEF FilesOf, Likewise
            <4> QED
                BY <1>9, <3>3, <4>1, <4>2 DEF UsgsMessage
        <3>5. ASSUME NEW j \in DOMAIN more, NEW p, Touches(more[j], rows, p)
              PROVE  p = g[j].row /\ j \in DOMAIN g /\ rows[p].type \in UsgsFiles
            <4>1. p = g[j].row /\ rows[p].type \in UsgsFiles
                BY <1>1, <1>5, <3>2, <3>5, GroupTouches
            <4> QED
                BY <3>2, <4>1 DEF Likewise
        <3>6. ASSUME NEW j \in DOMAIN more, NEW p \in Rows, Touches(more[j], rows, p)
              PROVE  Touches(msgs[t], rows, p)
            BY <1>1, <1>4, <3>5, <3>6 DEF Touches, Rows
        <3>7. \A i, j \in DOMAIN more : \A p : (Touches(more[i], rows, p) /\ Touches(more[j], rows, p)) => i = j
            BY <1>5, <3>5 DEF Separate
        <3> QED
            BY <1>1, <1>2, <2>4, <2>5, <2>7, <3>1, <3>2, <3>4, <3>6, <3>7, UsgsSendsKeeps
    <2> QED
        BY <2>2, <2>6, <2>7 DEF Opens
<1> QED
    BY <1>5, <1>10, <1>11

-----------------------------------------------------------------------------
(* The rows that are run again, and the theorem.                                *)

LEMMA QuietEnds ==
    ASSUME Typed, Bound(msgs, chords), Quiet
    PROVE  \A a : ~Waiting(a) /\ ~Sent(a)
<1> SUFFICES ASSUME NEW a PROVE ~Waiting(a) /\ ~Sent(a)
    OBVIOUS
<1>1. ~Sent(a)
    BY DEF Sent, Quiet, Messages
<1>2. ASSUME NEW c \in DOMAIN chords, chords[c].body = After(a), ~chords[c].broken PROVE FALSE
    <2>1. PartsOf(msgs, c) = {}
        BY DEF PartsOf, Quiet
    <2>2. chords[c].left = 0
        BY <1>2, <2>1, FS_EmptySet DEF Bound, Exact
    <2>3. EndsWell(chords[c])
        BY DEF Bound
    <2> QED
        BY <1>2, <2>2, <2>3, AfterNotNone DEF EndsWell
<1> QED
    BY <1>1, <1>2 DEF Waiting

LEMMA UsgsRetriggerKeeps ==
    ASSUME Typed, Typed', Usgs, UsgsHold, NEW status \in {"FAILED", "PENDING"},
           Retrigger(status, [r \in Rows |-> UsgsTarget(r)])
    PROVE  UsgsHold'
<1>1. /\ rows \in Seq(RowRecord) /\ Rows = 1..Len(rows) /\ Len(rows) \in Nat /\ Messages = {} /\ msgs = <<>>
      /\ chords \in Seq(Chord) /\ UNCHANGED <<chords, world, ended, fed>> /\ msgs' \in Seq(Message)
      /\ Bound(msgs, chords) /\ Quiet
    BY DEF Typed, IsTable, IsQueue, Rows, Messages, Retrigger, Quiet, UsgsHold
<1>2. PICK S : S = {r \in Rows : rows[r].status = status}
    OBVIOUS
<1>3. PICK chosen : chosen = InOrder(S)
    OBVIOUS
<1>4. chosen \in Seq(S) /\ DOMAIN chosen = 1..Cardinality(S)
    BY <1>1, <1>2, <1>3, InOrderLists
<1>5. DOMAIN msgs' = DOMAIN chosen
    BY <1>2, <1>3 DEF Retrigger
<1>6. ASSUME NEW r \in Rows, NEW i \in DOMAIN msgs', r = chosen[i]
      PROVE  /\ msgs'[i].kind = "extract" /\ msgs'[i].failed = r /\ msgs'[i].pc = "queued" /\ msgs'[i].chord = 0
             /\ ~msgs'[i].next
             /\ msgs'[i].row = IF rows[r].type \in UsgsFiles THEN rows[r].parent ELSE r
    <2>1. PICK target : target = [q \in Rows |-> UsgsTarget(q)]
        OBVIOUS
    <2>2. msgs' = [j \in DOMAIN chosen |-> target[chosen[j]]]
        BY <1>2, <1>3, <2>1 DEF Retrigger
    <2>3. msgs'[i] = target[r]
        BY <1>5, <1>6, <2>2
    <2>4. target[r] = UsgsTarget(r)
        BY <2>1
    <2> QED
        BY <2>3, <2>4 DEF UsgsTarget, Extract, UsgsFiles
<1>7. ASSUME NEW i \in DOMAIN msgs' PROVE chosen[i] \in Rows
    <2>1. chosen \in Seq(S)
        BY <1>4
    <2>2. \A j \in DOMAIN chosen : chosen[j] \in S
        BY ONLY <2>1
    <2>3. i \in DOMAIN chosen
        BY <1>5
    <2>4. chosen[i] \in S
        BY ONLY <2>2, <2>3
    <2> QED
        BY <1>2, <2>4
<1>8. ASSUME NEW r \in Rows
      PROVE  /\ rows'[r].type = rows[r].type /\ rows'[r].parent = rows[r].parent
             /\ rows'[r].content = rows[r].content
             /\ rows'[r].status = rows[r].status \/ rows'[r].status = "PENDING"
    <2>0. rows[r] \in RowRecord
        BY <1>1
    <2>1. PICK s : s = IF rows[r].status = status THEN "PENDING" ELSE rows[r].status
        OBVIOUS
    <2>2. rows'[r] = [rows[r] EXCEPT !.status = s]
        BY <2>0, <2>1 DEF RowRecord, Retrigger
    <2> QED
        BY <2>0, <2>1, <2>2 DEF RowRecord
<1>9. DOMAIN rows' = Rows
    BY DEF Retrigger
<1>10. ASSUME NEW i \in DOMAIN msgs'
       PROVE  /\ msgs'[i].row \in Rows /\ rows[msgs'[i].row].type \notin UsgsFiles
              /\ msgs'[i].kind = "extract" /\ msgs'[i].failed = chosen[i] /\ msgs'[i].pc = "queued"
              /\ msgs'[i].chord = 0 /\ ~msgs'[i].next /\ chosen[i] \in Rows
              /\ rows[chosen[i]].type \in UsgsFiles => msgs'[i].row = rows[chosen[i]].parent
    <2>1. PICK r \in Rows : r = chosen[i]
        BY <1>7
    <2>2. /\ msgs'[i].kind = "extract" /\ msgs'[i].failed = r /\ msgs'[i].pc = "queued" /\ msgs'[i].chord = 0
          /\ ~msgs'[i].next
          /\ msgs'[i].row = IF rows[r].type \in UsgsFiles THEN rows[r].parent ELSE r
        BY <1>6, <2>1
    <2>3. rows[r].type \in UsgsFiles =>
            rows[r].parent \in Rows /\ rows[rows[r].parent].type = "USGS_DETAIL"
        BY FileParent
    <2> QED
        BY <2>1, <2>2, <2>3 DEF UsgsFiles
<1>11. ASSUME NEW i \in DOMAIN msgs' PROVE UsgsMessage(msgs'[i], chords', rows')
    BY <1>8, <1>9, <1>10 DEF UsgsMessage, UsgsFiles
<1>12. ASSUME NEW i \in DOMAIN msgs', NEW p, Touches(msgs'[i], rows', p)
       PROVE  p = chosen[i] /\ p \in Rows /\ rows[p].type = "LOSSE"
    BY <1>8, <1>9, <1>10, <1>12 DEF Touches
<1>13. TouchedOnce'
    <2>1. SUFFICES ASSUME NEW i \in DOMAIN msgs', NEW j \in DOMAIN msgs', NEW p,
                          Touches(msgs'[i], rows', p), Touches(msgs'[j], rows', p)
                   PROVE  i = j
        BY DEF TouchedOnce, Messages
    <2>2. chosen[i] = chosen[j]
        BY <1>12, <2>1
    <2>3. i \in 1..Cardinality(S) /\ j \in 1..Cardinality(S)
        BY <1>4, <1>5
    <2> QED
        BY <1>1, <1>2, <1>3, <2>2, <2>3, InOrderOnce
<1>14. Bound(msgs', chords')
    <2>1. PICK more : more = msgs'
        OBVIOUS
    <2>2. Exact(msgs \o more, chords)
        <3>1. more \in Seq(Message)
            BY <1>1, <2>1
        <3>2. \A i \in DOMAIN more : more[i].chord = 0
            BY <1>10, <2>1
        <3>3. Exact(msgs, chords)
            BY <1>1 DEF Bound
        <3>4. msgs \in Seq(Message) /\ chords \in Seq(Chord)
            BY <1>1 DEF Typed, IsQueue
        <3> QED
            BY ONLY <3>1, <3>2, <3>3, <3>4, ExactMore
    <2>3. msgs \o more = more
        BY <1>1, <2>1
    <2>4. Exact(msgs', chords')
        BY <1>1, <2>1, <2>2, <2>3
    <2> QED
        BY <1>1, <1>10, <2>4 DEF Bound
<1>15. OneContent' /\ OnlyFiles'
    BY <1>1, <1>8, <1>9 DEF UsgsHold, OneContent, OnlyFiles, Rows
<1>16. BrokenSpoils'
    <2>1. 0 \notin DOMAIN chords
        BY <1>1
    <2>2. \A c \in DOMAIN chords : PartsOf(msgs', c) = {}
        BY <1>10, <2>1 DEF PartsOf
    <2> QED
        BY <1>1, <2>2 DEF BrokenSpoils
<1>17. ASSUME NEW d \in Rows, Spoiled(d) PROVE Cared(d)'
    <2>1. PICK p \in Rows : rows[p].type \in UsgsFiles /\ rows[p].parent = d /\ rows[p].status # "SUCCESS"
        BY <1>17 DEF Spoiled
    <2>2. CASE \E i \in DOMAIN msgs' : Touches(msgs'[i], rows', p)
        <3>1. PICK i \in DOMAIN msgs' : Touches(msgs'[i], rows', p)
            BY <2>2
        <3>2. p = chosen[i] /\ rows[p].type = "LOSSE"
            BY <1>12, <3>1
        <3>3. msgs'[i].row = d /\ msgs'[i].kind = "extract" /\ msgs'[i].pc = "queued" /\ msgs'[i].failed = p
            BY <1>10, <2>1, <3>2
        <3>4. rows'[p].type = "LOSSE" /\ p \in DOMAIN rows'
            BY <1>8, <1>9, <3>2
        <3>5. Prepares(i, d)'
            BY <3>3, <3>4 DEF Prepares, OnRow, Rows
        <3> QED
            BY <3>5 DEF Prepared, Cared, Messages
    <2>3. CASE \A i \in DOMAIN msgs' : ~Touches(msgs'[i], rows', p)
        <3>1. /\ p \in DOMAIN rows' /\ rows'[p].type \in UsgsFiles /\ rows'[p].parent = d
              /\ rows'[p].status # "SUCCESS"
            BY <1>8, <1>9, <2>1
        <3> QED
            BY <2>3, <3>1 DEF Spoiled, Cared, Rows, Messages
    <2> QED
        BY <2>2, <2>3
<1>18. ASSUME NEW d \in Rows, QuakeFed(d) PROVE QuakeFed(d)'
    <2>1. \A c \in Rows : /\ Reads(c)' <=> Reads(c)
                          /\ Good(c)' => Good(c)
        BY <1>1, <1>8 DEF Reads, Good
    <2>2. Children(d)' = Children(d)
        BY <1>8, <1>9 DEF Children, Rows
    <2>3. Children(d) \subseteq Rows
        BY DEF Children
    <2> QED
        BY <1>1, <1>18, <2>1, <2>2, <2>3 DEF QuakeFed
<1>19. AllCared'
    <2>1. SUFFICES ASSUME NEW d \in Rows, rows[d].type = "USGS_DETAIL", rows[d].content # 0 PROVE Cared(d)'
        BY <1>8, <1>9 DEF AllCared, Rows
    <2>2. Cared(d)
        BY <2>1 DEF UsgsHold, AllCared
    <2>3. ~Waiting(d) /\ ~Sent(d) /\ ~Prepared(d)
        BY <1>1, QuietEnds DEF Prepared
    <2> QED
        BY <1>17, <1>18, <2>2, <2>3 DEF Cared
<1> QED
    BY <1>11, <1>13, <1>14, <1>15, <1>16, <1>19 DEF UsgsHold, Messages

UsgsInv == (Usgs /\ spent.losses = 0) => UsgsHold

LEMMA UsgsInvInit == Init => UsgsInv
<1> SUFFICES ASSUME Init, Usgs PROVE UsgsHold
    BY DEF UsgsInv
<1>1. /\ rows = <<Row("USGS_QUERY", "query", 0)>> /\ msgs = [i \in DOMAIN rows |-> Extract(i, 0)] /\ chords = <<>>
      /\ world = [i \in Items |-> [tag |-> 1, content |-> 1]]
    BY DEF Init, Usgs, UsgsInit, InitRows, PagedTypes, Singles
<1>2. DOMAIN rows = {1} /\ rows[1].type = "USGS_QUERY" /\ rows[1].content = 0 /\ rows[1].parent = 0
    BY <1>1 DEF Row
<1>3. DOMAIN msgs = {1} /\ msgs[1] = Extract(1, 0)
    BY <1>1, <1>2
<1>4. msgs[1].chord = 0 /\ ~msgs[1].next /\ msgs[1].pc = "queued" /\ msgs[1].kind = "extract" /\ msgs[1].row = 1
      /\ msgs[1].failed = 0
    BY <1>3 DEF Extract
<1>5. DOMAIN chords = {}
    BY <1>1
<1>6. Bound(msgs, chords)
    BY <1>3, <1>4, <1>5 DEF Bound, Exact
<1>7. \A t \in Messages : UsgsMessage(msgs[t], chords, rows)
    BY <1>2, <1>3, <1>4 DEF UsgsMessage, UsgsFiles, Messages
<1>8. TouchedOnce
    BY <1>3 DEF TouchedOnce, Messages
<1>9. OneContent
    BY <1>1, <1>2 DEF OneContent, Rows
<1>10. OnlyFiles /\ BrokenSpoils /\ AllCared
    BY <1>2, <1>5 DEF OnlyFiles, BrokenSpoils, AllCared, Rows
<1> QED
    BY <1>6, <1>7, <1>8, <1>9, <1>10 DEF UsgsHold

LEMMA UsgsSpends ==
    ASSUME IsWorld, NEW t \in Messages, UsgsStep(t), spent'.losses = 0
    PROVE  spent.losses = 0 /\ ~WorkerLost(t)
<1>e. "errors" \in Faults /\ "losses" \in Faults /\ "unknown" \in Faults /\ "empty" \in Faults
    BY DEF Faults
<1>1. ~WorkerLost(t)
    BY <1>e, CountsUp DEF WorkerLost
<1>2. UNCHANGED spent \/ \E what \in Faults : Spend(what)
    BY <1>e, <1>1 DEF UsgsStep, Dispatch, Finish, UsgsQuery, UsgsDetail, UsgsFile, FetchGoesWrong, NoData, RequestError,
                      RateLimited, FetchFails, OtherError, RunTransform, Error
<1> QED
    BY <1>1, <1>2, CountsUp

LEMMA UsgsStepHolds ==
    ASSUME Typed, Typed', Usgs, UsgsHold, NEW t \in Messages, UsgsStep(t), ~WorkerLost(t)
    PROVE  UsgsHold'
<1>g. Grows(rows, rows')
    BY UsgsStepProper DEF Proper, TableGoesOn
<1>1. CASE Dispatch(t)
    BY <1>1, UsgsDispatchKeeps
<1>2. CASE Finish(t)
    BY <1>g, <1>2, UsgsFinishKeeps
<1>3. CASE UsgsQuery(t)
    BY <1>g, <1>3, UsgsQueryKeeps
<1>4. CASE UsgsDetail(t)
    BY <1>g, <1>4, UsgsPartialKeeps, UsgsWholeKeeps
<1>5. CASE UsgsFile(t)
    BY <1>g, <1>5, UsgsFileKeeps
<1>6. CASE Received(t) /\ ~UsgsPartial(t) /\ FetchGoesWrong(t)
    BY <1>g, <1>6, UsgsNoDataKeeps, UsgsFailsKeeps, UsgsOtherKeeps DEF FetchGoesWrong, RequestError, RateLimited
<1>7. CASE RunTransform(t, UsgsReads(msgs[t].row))
    BY <1>7, UsgsRunsKeeps
<1> QED
    BY <1>1, <1>2, <1>3, <1>4, <1>5, <1>6, <1>7 DEF UsgsStep

LEMMA UsgsInvNext == Typed /\ AllAttended /\ UsgsInv /\ [Next]_<<source, vars>> => UsgsInv'
<1> SUFFICES ASSUME Typed, AllAttended, UsgsInv, [Next]_<<source, vars>>, Usgs', spent'.losses = 0
             PROVE  UsgsHold'
    BY DEF UsgsInv
<1>1. UNCHANGED source /\ Usgs
    BY DEF Next, Usgs, vars
<1>2. Typed'
    BY NextKeeps
<1>w. IsWorld
    BY DEF Typed
<1>3. CASE UNCHANGED <<source, vars>>
    <2>1. UNCHANGED <<rows, msgs, chords, world, ended, fed, spent>>
        BY <1>3 DEF vars
    <2>2. UsgsHold
        BY <1>1, <2>1 DEF UsgsInv
    <2> QED
        BY <2>1, <2>2 DEF UsgsHold, TouchedOnce, OneContent, OnlyFiles, BrokenSpoils, AllCared, Cared, Waiting, Sent, Prepared,
                          Prepares, Spoiled, QuakeFed, OnRow, Reads, Good, Children, Rows, Messages
<1>4. CASE \E t \in Messages : UsgsStep(t)
    <2>1. PICK t \in Messages : UsgsStep(t)
        BY <1>4
    <2>2. spent.losses = 0 /\ ~WorkerLost(t)
        BY <1>w, <2>1, UsgsSpends
    <2>3. UsgsHold
        BY <1>1, <2>2 DEF UsgsInv
    <2> QED
        BY <1>1, <1>2, <2>1, <2>2, <2>3, UsgsStepHolds
<1>5. CASE \E status \in {"FAILED", "PENDING"} : Retrigger(status, [r \in Rows |-> UsgsTarget(r)])
    <2>1. PICK status \in {"FAILED", "PENDING"} : Retrigger(status, [r \in Rows |-> UsgsTarget(r)])
        BY <1>5
    <2>2. spent.losses = 0
        <3>1. spent \in [Faults \cup {"retriggers", "sweeps"} -> Nat]
            BY <1>w DEF IsWorld
        <3>2. spent'.losses = spent.losses
            BY <2>1, <3>1 DEF Retrigger, Retriggered, Faults
        <3> QED
            BY <3>2
    <2>3. UsgsHold
        BY <1>1, <2>2 DEF UsgsInv
    <2> QED
        BY <1>1, <1>2, <2>1, <2>3, UsgsRetriggerKeeps
<1> QED
    BY <1>1, <1>3, <1>4, <1>5 DEF Next, Usgs, UsgsNext, PagedTypes, Singles

LEMMA QuietQuakes == Typed /\ UsgsInv => UsgsQuakeFed
<1> SUFFICES ASSUME Typed, UsgsInv, Quiet, spent.losses = 0, NEW d \in Rows, rows[d].type = "USGS_DETAIL", Good(d)
             PROVE  \/ \E c \in Children(d) : rows[c].status # "SUCCESS"
                    \/ d \in ended /\ \A c \in UsgsReads(d) : Reads(c)
    BY DEF UsgsQuakeFed
<1>1. Usgs
    <2>1. rows[d].type \in TypesOf(source)
        BY DEF Typed
    <2>2. CASE source \in {"DISASTERCHARTER", "GDACS", "PDC", "CEMS"}
        BY <2>1, <2>2 DEF TypesOf, PdcChildTypes, ChildTypes
    <2>3. CASE source \notin {"DISASTERCHARTER", "GDACS", "USGS", "PDC", "CEMS"}
        <3>1. source = "USGS_DETAIL"
            BY <2>1, <2>3 DEF TypesOf
        <3>2. source \in SourceNames
            BY SourcesAssumption DEF Typed
        <3> QED
            BY <3>1, <3>2 DEF SourceNames, PagedTypes, Singles
    <2> QED
        BY <2>2, <2>3 DEF Usgs
<1>2. UsgsHold
    BY <1>1 DEF UsgsInv
<1>3. Cared(d) /\ rows[d].content # 0
    BY <1>2 DEF UsgsHold, AllCared, Good
<1>4. ~Waiting(d) /\ ~Sent(d) /\ ~Prepared(d)
    BY <1>2, QuietEnds DEF UsgsHold, Prepared, Quiet, Messages
<1>5. Spoiled(d) => \E c \in Children(d) : rows[c].status # "SUCCESS"
    BY DEF Spoiled, Children
<1>6. QuakeFed(d) => d \in ended /\ \A c \in UsgsReads(d) : Reads(c)
    BY DEF QuakeFed, UsgsReads, WithOwn
<1> QED
    BY <1>3, <1>4, <1>5, <1>6 DEF Cared

(* As long as no worker is lost, no earthquake that was fetched is left without *)
(* its transform, or with one that has missed a good file, and no file says so. *)
(* A file is touched by one message at a time, and run only as a part of the    *)
(* chord of its earthquake; a chord breaks only with a part that leaves its row  *)
(* FAILED or ON_RETRY, and the retrigger runs a LOSSE only through a delivery    *)
(* of its earthquake that makes a new chord.                                   *)
THEOREM UsgsTransformsQuakes == SourcesSpec => []UsgsQuakeFed
<1>1. Init => Typed /\ AllAttended /\ UsgsInv
    BY InitEstablishes, UsgsInvInit
<1>2. Typed /\ AllAttended /\ UsgsInv /\ [Next]_<<source, vars>> => (Typed /\ AllAttended /\ UsgsInv)'
    BY NextKeeps, UsgsInvNext
<1>3. Typed /\ AllAttended /\ UsgsInv => UsgsQuakeFed
    BY QuietQuakes
<1> QED
    BY <1>1, <1>2, <1>3, PTL DEF SourcesSpec
================================================================================
