-------------------------- MODULE AttendanceProofs --------------------------
(***************************************************************************)
(* Proofs about Attendance and AttendanceHistory, for any number of        *)
(* devices, players, events, writes and faults.  Below the tab there is    *)
(* only RealtimeSync, so what is proved of that is used as it stands.      *)
(***************************************************************************)
EXTENDS AttendanceHistory, RealtimeSyncProofs

-----------------------------------------------------------------------------
(* The tab on top of the client.                                           *)

\* A step of the tab writes events and nothing else, so that it is a step of
\* the client underneath or leaves the client alone.
LEMMA StepIsSync ==
    ASSUME TypeOK, [Next]_vars
    PROVE  [SyncNext]_syncVars
<1>1. cell \in [Device -> Rows] /\ OwnerOf \in [Device -> Player]
    BY OwnerAssumption DEF TypeOK
<1>2. CASE UNCHANGED vars
    BY <1>2 DEF vars
<1>3. CASE Tick
    BY <1>3 DEF Tick
<1>4. ASSUME NEW d \in Device, Step(d) PROVE [SyncNext]_syncVars
    <2>1. CASE LoadEvents(d)
        BY <2>1 DEF LoadEvents, SyncNext
    <2>2. CASE FetchEvents(d)
        BY <2>2 DEF FetchEvents, SyncNext
    <2>3. ASSUME NEW e \in Event, NEW answer \in Answer, Swipe(d, e, answer)
          PROVE  [SyncNext]_syncVars
        <3>1. cell[d][e] \in EventVal
            BY <1>1, <2>3 DEF Swipe, Rows
        <3>2. [cell[d][e] EXCEPT !.status[OwnerOf[d]] = answer] \in EventVal
            BY <1>1, <3>1 DEF EventVal
        <3> QED BY <2>3, <3>2, ValAssumption DEF Swipe, UpdateEvent, SyncNext, Event
    <2>4. ASSUME NEW e \in Event, NEW start \in Time, AddEvent(d, e, start)
          PROVE  [SyncNext]_syncVars
        <3>1. [start |-> start, status |-> NoStatus] \in EventVal
            BY DEF EventVal, NoStatus
        <3> QED BY <2>4, <3>1, ValAssumption DEF AddEvent, SyncNext, Event
    <2>5. CASE \E e \in Event : RedrawCell(d, e)
        BY <2>5 DEF RedrawCell
    <2>6. CASE Underneath(d)
        BY <2>6 DEF Underneath, SyncNext
    <2>7. CASE Refuse(d)
        BY <2>7 DEF Refuse, SyncNext
    <2>8. CASE KillApp(d)
        BY <2>8 DEF KillApp, SyncNext
    <2> QED BY <1>4, <2>1, <2>2, <2>3, <2>4, <2>5, <2>6, <2>7, <2>8 DEF Step
<1> QED BY <1>2, <1>3, <1>4 DEF Next

LEMMA EventValNotAbsent == Absent \notin EventVal
    BY AbsentAssumption, ValAssumption

\* The rows made of a snapshot.
LEMMA RowsType ==
    ASSUME NEW snap \in Snapshot
    PROVE  RowsOf(snap) \in Rows
<1>1. UpcomingIn(snap) \in SUBSET Event
    BY DEF UpcomingIn
<1>2. \A e \in UpcomingIn(snap) : snap[e] \in EventVal
    BY ValAssumption DEF UpcomingIn, Snapshot, Entry, Event
<1>3. RowsOf(snap) \in [UpcomingIn(snap) -> EventVal]
    BY <1>2 DEF RowsOf
<1> QED BY <1>1, <1>3 DEF Rows

\* A row replaced by another event leaves rows.
LEMMA RowReplaced ==
    ASSUME NEW rows \in Rows, NEW e, NEW v \in EventVal
    PROVE  [rows EXCEPT ![e] = v] \in Rows
<1>1. PICK S \in SUBSET Event : rows \in [S -> EventVal]
    BY DEF Rows
<1>2. [rows EXCEPT ![e] = v] \in [S -> EventVal]
    BY <1>1
<1> QED BY <1>1, <1>2 DEF Rows

LEMMA NoRowsType == NoRows \in Rows
<1>1. NoRows \in [{} -> EventVal]
    BY DEF NoRows
<1> QED BY <1>1 DEF Rows

\* The answers a swipe can leave in a copy.
LEMMA AnswerType ==
    ASSUME NEW v \in EventVal, NEW p \in Player, NEW a \in Answer
    PROVE  [v EXCEPT !.status[p] = a] \in EventVal
    BY DEF EventVal

LEMMA NextPutType ==
    ASSUME TypeInv, NEW d \in Device, Unhandled(d)
    PROVE  /\ NextPut(d) \in Put
           /\ Handled(d) \in Nat
           /\ Waiting(d) \in Seq(Put)
           /\ Handled(d) + 1 \in 1..Len(Waiting(d))
           /\ NextPut(d) = Waiting(d)[Handled(d) + 1]
<1>1. Waiting(d) \in Seq(Put) /\ Len(Waiting(d)) \in Nat /\ Handled(d) \in Nat
    <2>1. SyncTypeOK /\ held[d] <= Len(puts[d])
        BY DEF TypeInv, AnswersHaveWrites
    <2> QED BY <2>1, WaitingType, AcksFinite DEF SyncTypeOK, Handled
<1>2. Handled(d) + 1 \in 1..Len(Waiting(d))
    BY <1>1 DEF Unhandled
<1> QED BY <1>1, <1>2, ElementOfSeq DEF NextPut

\* The types of the tab are kept by every step of it.
LEMMA TypeStep ==
    ASSUME TypeInv, TypeOK, [Next]_vars
    PROVE  TypeInv' /\ TypeOK'
<1>1. TypeInv' /\ SyncTypeOK'
    BY StepIsSync, TypeInvStep DEF TypeInv
<1>2. /\ now \in Time
      /\ list \in [Device -> Rows]
      /\ cell \in [Device -> Rows]
      /\ made \in [Event -> Time \cup {Absent}]
      /\ last \in [Event -> [Player -> Answer \cup {"none"}]]
      /\ clash \in SUBSET Event
      /\ OwnerOf \in [Device -> Player]
      /\ mainq \in [Device -> Seq(Snapshot)]
    BY OwnerAssumption DEF TypeOK, SyncTypeOK
<1> SUFFICES /\ now' \in Time
             /\ list' \in [Device -> Rows]
             /\ cell' \in [Device -> Rows]
             /\ made' \in [Event -> Time \cup {Absent}]
             /\ last' \in [Event -> [Player -> Answer \cup {"none"}]]
             /\ clash' \in SUBSET Event
    BY <1>1 DEF TypeOK
<1>3. CASE UNCHANGED vars
    BY <1>2, <1>3 DEF vars, tab, history
<1>4. CASE Tick
    <2>1. now' \in Time
        BY <1>2, <1>4, TimeAssumption DEF Tick, Time
    <2> QED BY <1>2, <1>4, <2>1 DEF Tick, tab, history
<1>5. CASE \E d \in Device : LoadEvents(d) \/ Underneath(d)
    BY <1>2, <1>5 DEF LoadEvents, Underneath, TabAlone, tab, history
<1>6. ASSUME NEW d \in Device, FetchEvents(d)
      PROVE  /\ list' \in [Device -> Rows] /\ cell' \in [Device -> Rows]
             /\ UNCHANGED <<now, made, last, clash>>
    <2>1. Head(mainq[d]) \in Snapshot
        BY <1>2, <1>6, EmptySeq, HeadTailProperties DEF FetchEvents, Deliver
    <2>2. RowsOf(Head(mainq[d])) \in Rows
        BY <2>1, RowsType
    <2> QED BY <1>2, <1>6, <2>2 DEF FetchEvents, history
<1>7. ASSUME NEW d \in Device, NEW e \in Event, NEW answer \in Answer, Swipe(d, e, answer)
      PROVE  /\ cell' \in [Device -> Rows]
             /\ last' \in [Event -> [Player -> Answer \cup {"none"}]]
             /\ clash' \in SUBSET Event
             /\ UNCHANGED <<now, list, made>>
    <2>1. cell[d] \in Rows /\ cell[d][e] \in EventVal
        BY <1>2, <1>7 DEF Swipe, Rows
    <2>2. [cell[d][e] EXCEPT !.status[OwnerOf[d]] = answer] \in EventVal
        BY <1>2, <2>1, AnswerType
    <2>3. [cell[d] EXCEPT ![e] = [cell[d][e] EXCEPT !.status[OwnerOf[d]] = answer]] \in Rows
        BY <2>1, <2>2, RowReplaced
    <2>4. cell' \in [Device -> Rows]
        BY <1>2, <1>7, <2>3 DEF Swipe, UpdateEvent
    <2>5. last' \in [Event -> [Player -> Answer \cup {"none"}]]
        BY <1>2, <1>7 DEF Swipe, UpdateEvent
    <2>6. clash' \in SUBSET Event /\ UNCHANGED <<now, list, made>>
        BY <1>2, <1>7 DEF Swipe, UpdateEvent
    <2> QED BY <2>4, <2>5, <2>6
<1>8. ASSUME NEW d \in Device, NEW e \in Event, NEW start \in Time, AddEvent(d, e, start)
      PROVE  /\ cell' \in [Device -> Rows]
             /\ made' \in [Event -> Time \cup {Absent}]
             /\ UNCHANGED <<now, list, last, clash>>
    BY <1>2, <1>8 DEF AddEvent, history
<1>9. ASSUME NEW d \in Device, NEW e \in Event, RedrawCell(d, e)
      PROVE  /\ cell' \in [Device -> Rows]
             /\ UNCHANGED <<now, list, made, last, clash>>
    <2>1. list[d][e] \in EventVal /\ cell[d] \in Rows
        BY <1>2, <1>9 DEF RedrawCell, Rows
    <2>2. [cell[d] EXCEPT ![e] = list[d][e]] \in Rows
        BY <2>1, RowReplaced
    <2> QED BY <1>2, <1>9, <2>2 DEF RedrawCell, history
<1>10. ASSUME NEW d \in Device, Refuse(d)
       PROVE  clash' \in SUBSET Event /\ UNCHANGED <<now, list, cell, made, last>>
    <2>1. NextPut(d) \in Put
        BY <1>10, NextPutType DEF Refuse, ServerReject
    <2> QED BY <1>2, <1>10, <2>1 DEF Refuse, Put, Event, tab
<1>11. ASSUME NEW d \in Device, KillApp(d)
       PROVE  /\ list' \in [Device -> Rows] /\ cell' \in [Device -> Rows]
              /\ clash' \in SUBSET Event
              /\ UNCHANGED <<now, made, last>>
    BY <1>2, <1>11, NoRowsType DEF KillApp
<1>12. ASSUME NEW d \in Device, Step(d)
       PROVE  \/ LoadEvents(d) \/ Underneath(d)
              \/ FetchEvents(d) \/ Refuse(d) \/ KillApp(d)
              \/ \E e \in Event, answer \in Answer : Swipe(d, e, answer)
              \/ \E e \in Event, start \in Time : AddEvent(d, e, start)
              \/ \E e \in Event : RedrawCell(d, e)
    BY <1>12 DEF Step
<1>13. CASE \E d \in Device : Step(d)
    BY <1>2, <1>5, <1>6, <1>7, <1>8, <1>9, <1>10, <1>11, <1>12, <1>13
<1> QED BY <1>3, <1>4, <1>13 DEF Next

-----------------------------------------------------------------------------
(* Where the copies of an event come from.  S[e] are the versions the      *)
(* server's side may hold of event e, L[d][e] those device d may hold; two *)
(* choices of S and L make two invariants out of one induction.            *)

SnapIn(snap, S) ==
    snap # Unknown => \A e \in Event : snap[e] # Absent => snap[e] \in S[e]
RowsIn(rows, S) == \A e \in DOMAIN rows : rows[e] \in S[e]
PutsIn(ps, S)   == \A p \in Range(ps) : p.val \in S[p.key]

MessageIn(m, S) ==
    /\ m.kind = "init" => SnapIn(m.snap, S)
    /\ m.kind = "data" => m.val \in S[m.key]

ServerCopies(S) ==
    /\ SnapIn(db, S)
    /\ \A d \in Device :
           /\ SnapIn(cache[d], S)
           /\ \A m \in Range(down[d]) : MessageIn(m, S)

ScreenCopies(L) ==
    \A d \in Device :
        /\ PutsIn(puts[d], L[d])
        /\ \A snap \in Range(mainq[d]) \cup {shown[d]} : SnapIn(snap, L[d])
        /\ RowsIn(list[d], L[d])
        /\ RowsIn(cell[d], L[d])

Wider(S, T) == \A e \in Event : S[e] \subseteq T[e]

\* What Append adds to a sequence and Tail leaves of it.
LEMMA RangeAppend ==
    ASSUME NEW S, NEW s \in Seq(S), NEW x \in S
    PROVE  Range(Append(s, x)) = Range(s) \cup {x}
<1>1. /\ Append(s, x) \in Seq(S)
      /\ DOMAIN Append(s, x) = 1..(Len(s) + 1)
      /\ DOMAIN s = 1..Len(s) /\ Len(s) \in Nat
      /\ \A i \in 1..Len(s) : Append(s, x)[i] = s[i]
      /\ Append(s, x)[Len(s) + 1] = x
    BY AppendProperties, LenProperties
<1>2. ASSUME NEW y \in Range(Append(s, x)) PROVE y \in Range(s) \cup {x}
    <2>1. PICK i \in 1..(Len(s) + 1) : y = Append(s, x)[i]
        BY <1>1, <1>2 DEF Range
    <2>2. CASE i = Len(s) + 1
        BY <1>1, <2>1, <2>2
    <2>3. CASE i # Len(s) + 1
        <3>1. i \in 1..Len(s)
            BY <1>1, <2>3
        <3> QED BY <1>1, <2>1, <3>1 DEF Range
    <2> QED BY <2>2, <2>3
<1>3. ASSUME NEW y \in Range(s) PROVE y \in Range(Append(s, x))
    <2>1. PICK i \in 1..Len(s) : y = s[i]
        BY <1>1, <1>3 DEF Range
    <2>2. i \in 1..(Len(s) + 1) /\ y = Append(s, x)[i]
        BY <1>1, <2>1
    <2> QED BY <1>1, <2>2 DEF Range
<1>4. x \in Range(Append(s, x))
    <2>1. Len(s) + 1 \in 1..(Len(s) + 1)
        BY <1>1
    <2> QED BY <1>1, <2>1 DEF Range
<1> QED BY <1>2, <1>3, <1>4

LEMMA RangeTail ==
    ASSUME NEW S, NEW s \in Seq(S), s # <<>>
    PROVE  /\ Range(Tail(s)) \subseteq Range(s)
           /\ Head(s) \in Range(s)
           /\ Head(s) \in S
           /\ Tail(s) \in Seq(S)
<1>1. /\ Tail(s) \in Seq(S) /\ Head(s) \in S
      /\ Len(s) \in Nat \ {0}
      /\ DOMAIN s = 1..Len(s)
      /\ DOMAIN Tail(s) = 1..(Len(s) - 1)
      /\ \A i \in 1..(Len(s) - 1) : Tail(s)[i] = s[i + 1]
      /\ Head(s) = s[1]
    BY HeadTailProperties, LenProperties, EmptySeq
<1>2. Head(s) \in Range(s)
    BY <1>1 DEF Range
<1>3. ASSUME NEW y \in Range(Tail(s)) PROVE y \in Range(s)
    <2>1. PICK i \in 1..(Len(s) - 1) : y = s[i + 1]
        BY <1>1, <1>3 DEF Range
    <2>2. i + 1 \in 1..Len(s)
        BY <1>1, <2>1
    <2> QED BY <1>1, <2>1, <2>2 DEF Range
<1> QED BY <1>1, <1>2, <1>3

LEMMA RangeEmpty == Range(<<>>) = {}
    BY DEF Range

LEMMA RangeConcat ==
    ASSUME NEW S, NEW s \in Seq(S), NEW t \in Seq(S)
    PROVE  Range(s \o t) \subseteq Range(s) \cup Range(t)
<1>1. PICK m, n \in Nat : m = Len(s) /\ n = Len(t)
    BY LenProperties
<1>2. /\ DOMAIN s = 1..m /\ DOMAIN t = 1..n
      /\ DOMAIN (s \o t) = 1..(m + n)
      /\ \A i \in 1..(m + n) : (s \o t)[i] = IF i <= m THEN s[i] ELSE t[i - m]
    BY <1>1, ConcatProperties, LenProperties
<1> SUFFICES ASSUME NEW i \in 1..(m + n) PROVE (s \o t)[i] \in Range(s) \cup Range(t)
    BY <1>2 DEF Range
<1>3. CASE i <= m
    <2>1. i \in DOMAIN s /\ (s \o t)[i] = s[i]
        BY <1>2, <1>3
    <2> QED BY <2>1 DEF Range
<1>4. CASE ~ (i <= m)
    <2>1. i - m \in DOMAIN t /\ (s \o t)[i] = t[i - m]
        BY <1>2, <1>4
    <2> QED BY <2>1 DEF Range
<1> QED BY <1>3, <1>4

\* The writes without an answer, and what is left when some are lifted.
LEMMA RangeRest ==
    ASSUME NEW ps \in Seq(Put), NEW h \in Nat, h <= Len(ps)
    PROVE  Range(Rest(ps, h)) \subseteq Range(ps)
<1>1. PICK n, r : n = Len(ps) /\ r = Rest(ps, h)
    OBVIOUS
<1>2. /\ n \in Nat /\ DOMAIN ps = 1..n
      /\ r \in Seq(Put) /\ Len(r) = n - h
      /\ \A i \in 1..(n - h) : r[i] = ps[h + i]
    BY <1>1, RestProperties, LenProperties
<1>3. DOMAIN r = 1..(n - h)
    BY <1>2, LenProperties
<1> SUFFICES ASSUME NEW i \in 1..(n - h) PROVE r[i] \in Range(ps)
    BY <1>1, <1>3 DEF Range
<1>4. h + i \in DOMAIN ps
    BY <1>2
<1> QED BY <1>2, <1>4 DEF Range

LEMMA NextPutPending ==
    ASSUME TypeInv, NEW d \in Device, Unhandled(d)
    PROVE  NextPut(d) \in Range(puts[d])
<1>1. /\ puts[d] \in Seq(Put) /\ held[d] \in Nat /\ held[d] <= Len(puts[d])
    BY DEF TypeInv, SyncTypeOK, AnswersHaveWrites
<1>2. Range(Waiting(d)) \subseteq Range(puts[d])
    BY <1>1, RangeRest, WaitingIsRest
<1>3. DOMAIN Waiting(d) = 1..Len(Waiting(d))
    BY NextPutType, LenProperties
<1>4. NextPut(d) \in Range(Waiting(d))
    BY <1>3, NextPutType DEF Range
<1> QED BY <1>2, <1>4

\* The overlaid view shows nothing but the cache and the pending writes.
LEMMA ViewIn ==
    ASSUME NEW c, NEW ps \in Seq(Put), NEW S, SnapIn(c, S), PutsIn(ps, S)
    PROVE  SnapIn(View(c, ps), S)
<1> SUFFICES ASSUME c # Unknown, View(c, ps) # Unknown, NEW e \in Event,
                    View(c, ps)[e] # Absent
             PROVE  View(c, ps)[e] \in S[e]
    BY DEF SnapIn, View
<1>1. View(c, ps)[e] = IF On(ps, e) = {} THEN c[e] ELSE ps[LastOn(ps, e)].val
    BY DEF View, Event
<1>2. CASE On(ps, e) = {}
    BY <1>1, <1>2 DEF SnapIn
<1>3. CASE On(ps, e) # {}
    <2>1. LastOn(ps, e) \in DOMAIN ps /\ ps[LastOn(ps, e)].key = e
        BY <1>3, LastOnIsGreatest DEF On
    <2> QED BY <1>1, <1>3, <2>1 DEF PutsIn, Range
<1> QED BY <1>2, <1>3

LEMMA ServerWider ==
    ASSUME TypeOK, NEW S, NEW T, Wider(S, T), ServerCopies(S)
    PROVE  ServerCopies(T)
<1>1. ASSUME NEW snap, SnapIn(snap, S) PROVE SnapIn(snap, T)
    BY <1>1 DEF SnapIn, Wider
<1>2. ASSUME NEW d \in Device, NEW m \in Range(down[d]), MessageIn(m, S) PROVE MessageIn(m, T)
    <2>1. m \in Message
        BY RangeOfSeq DEF TypeOK, SyncTypeOK
    <2>2. m.kind = "data" => m.key \in Event
        BY <2>1 DEF Message, InitMsg, DataMsg, AckMsg, Event
    <2> QED BY <1>1, <1>2, <2>2 DEF MessageIn, Wider
<1> QED BY <1>1, <1>2 DEF ServerCopies

LEMMA ScreenWider ==
    ASSUME TypeOK, NEW L, NEW M, \A d \in Device : Wider(L[d], M[d]), ScreenCopies(L)
    PROVE  ScreenCopies(M)
<1> SUFFICES ASSUME NEW d \in Device
             PROVE  /\ PutsIn(puts[d], M[d])
                    /\ \A snap \in Range(mainq[d]) \cup {shown[d]} : SnapIn(snap, M[d])
                    /\ RowsIn(list[d], M[d])
                    /\ RowsIn(cell[d], M[d])
    BY DEF ScreenCopies
<1>1. Wider(L[d], M[d])
    OBVIOUS
<1>2. \A e \in DOMAIN list[d] : e \in Event
    BY DEF TypeOK, Rows
<1>3. \A e \in DOMAIN cell[d] : e \in Event
    BY DEF TypeOK, Rows
<1>4. \A p \in Range(puts[d]) : p.key \in Event
    <2>1. \A p \in Range(puts[d]) : p \in Put
        BY RangeOfSeq DEF TypeOK, SyncTypeOK
    <2> QED BY <2>1 DEF Put, Event
<1> QED BY <1>1, <1>2, <1>3, <1>4 DEF ScreenCopies, PutsIn, SnapIn, RowsIn, Wider

\* The server's side gets a version only when a put is applied.
LEMMA ServerCopiesStep ==
    ASSUME TypeInv, NEW S, ServerCopies(S), [SyncNext]_syncVars,
           \A d \in Device : ServerApply(d) => NextPut(d).val \in S[NextPut(d).key]
    PROVE  ServerCopies(S)'
<1>1. /\ db \in Snapshot
      /\ cache \in [Device -> Snapshot \cup {Unknown}]
      /\ down \in [Device -> Seq(Message)]
    BY DEF TypeInv, SyncTypeOK
<1>2. ASSUME UNCHANGED <<db, cache, down>> PROVE ServerCopies(S)'
    BY <1>2 DEF ServerCopies
<1>3. ASSUME NEW d \in Device, CloseWire(d), db' = db,
             \A x \in Device : cache'[x] \in {cache[x], Unknown}
      PROVE  ServerCopies(S)'
    <2>1. \A x \in Device : SnapIn(cache'[x], S)
        BY <1>3 DEF ServerCopies, SnapIn
    <2>2. \A x \in Device : Range(down'[x]) \subseteq Range(down[x])
        BY <1>1, <1>3, RangeEmpty DEF CloseWire
    <2> QED BY <1>3, <2>1, <2>2 DEF ServerCopies
<1>4. ASSUME NEW d \in Device, ServerListen(d) PROVE ServerCopies(S)'
    <2> DEFINE m == [kind |-> "init", snap |-> db]
    <2>1. m \in Message /\ MessageIn(m, S)
        BY <1>1 DEF Message, InitMsg, MessageIn, ServerCopies
    <2>2. \A x \in Device : Range(down'[x]) \subseteq Range(down[x]) \cup {m}
        BY <1>1, <1>4, <2>1, RangeAppend DEF ServerListen
    <2>3. UNCHANGED <<db, cache>>
        BY <1>4 DEF ServerListen
    <2> HIDE DEF m
    <2> QED BY <2>1, <2>2, <2>3 DEF ServerCopies
<1>5. ASSUME NEW d \in Device, Unhandled(d), NEW ok \in BOOLEAN,
             down' = [x \in Device |-> Push(d, NextPut(d), ok, x)],
             ok => NextPut(d).val \in S[NextPut(d).key],
             NEW x \in Device, NEW m \in Range(down'[x])
      PROVE  MessageIn(m, S)
    <2> DEFINE p == NextPut(d)
    <2>1. p \in Put /\ SyncTypeOK /\ down[x] \in Seq(Message)
        BY <1>1, <1>5, NextPutType DEF TypeInv
    <2>2. /\ WithData(p, ok, x) \in Seq(Message)
          /\ DataOf(p) \in Message /\ AckOf(ok) \in Message
          /\ down'[x] = IF x = d THEN Append(WithData(p, ok, x), AckOf(ok))
                        ELSE WithData(p, ok, x)
        BY <1>5, <2>1, PushIsAppends
    <2>3. MessageIn(DataOf(p), S) \/ ~ok
        BY <1>5 DEF MessageIn, DataOf
    <2>4. MessageIn(AckOf(ok), S)
        BY DEF MessageIn, AckOf
    <2>5. m \in Range(WithData(p, ok, x)) \cup {AckOf(ok)}
        <3>1. m \in Range(IF x = d THEN Append(WithData(p, ok, x), AckOf(ok))
                          ELSE WithData(p, ok, x))
            BY <1>5, <2>2
        <3>2. Range(Append(WithData(p, ok, x), AckOf(ok)))
                 = Range(WithData(p, ok, x)) \cup {AckOf(ok)}
            BY <2>2, RangeAppend
        <3> QED BY <3>1, <3>2
    <2>6. Range(WithData(p, ok, x)) \subseteq Range(down[x]) \cup (IF ok THEN {DataOf(p)} ELSE {})
        BY <2>1, <2>2, RangeAppend DEF WithData
    <2>7. \A n \in Range(down[x]) : MessageIn(n, S)
        BY DEF ServerCopies
    <2>8. CASE m = AckOf(ok)
        BY <2>4, <2>8
    <2>9. CASE m \in Range(WithData(p, ok, x))
        <3>1. m \in Range(down[x]) \/ (ok /\ m = DataOf(p))
            BY <2>6, <2>9
        <3> QED BY <2>3, <2>7, <3>1
    <2> QED BY <2>5, <2>8, <2>9
<1>6. ASSUME NEW d \in Device, ServerApply(d) PROVE ServerCopies(S)'
    <2>1. NextPut(d) \in Put /\ NextPut(d).val \in S[NextPut(d).key]
        BY <1>6, NextPutType DEF ServerApply
    <2>2. SnapIn(db', S)
        <3> DEFINE k == NextPut(d).key
                   v == NextPut(d).val
        <3>1. k \in Key /\ v \in S[k] /\ db' = [db EXCEPT ![k] = v]
            BY <1>6, <2>1 DEF ServerApply, Put
        <3>2. \A e \in Event : db[e] # Absent => db[e] \in S[e]
            BY <1>1, UnknownAssumption DEF ServerCopies, SnapIn, Snapshot, Entry
        <3> HIDE DEF k, v
        <3>3. \A e \in Event : db'[e] = IF e = k THEN v ELSE db[e]
            BY <1>1, <3>1 DEF Snapshot, Event
        <3> QED BY <3>1, <3>2, <3>3 DEF SnapIn
    <2>3. \A x \in Device : \A m \in Range(down'[x]) : MessageIn(m, S)
        BY <1>5, <1>6, <2>1 DEF ServerApply
    <2> QED BY <1>6, <2>2, <2>3 DEF ServerApply, ServerCopies
<1>7. ASSUME NEW d \in Device, ServerReject(d) PROVE ServerCopies(S)'
    <2>1. \A x \in Device : \A m \in Range(down'[x]) : MessageIn(m, S)
        BY <1>5, <1>7 DEF ServerReject
    <2> QED BY <1>7, <2>1 DEF ServerReject, ServerCopies
<1>8. ASSUME NEW d \in Device, NEW kind, Receive(d, kind)
      PROVE  /\ db' = db
             /\ \A x \in Device : Range(down'[x]) \subseteq Range(down[x])
             /\ Head(down[d]).kind = kind
             /\ Head(down[d]) \in Message
             /\ MessageIn(Head(down[d]), S)
    <2>1. down[d] \in Seq(Message) /\ down[d] # <<>>
        BY <1>1, <1>8 DEF Receive
    <2> QED BY <1>1, <1>8, <2>1, RangeTail DEF Receive, ServerCopies
<1>9. ASSUME NEW d \in Device, RecvInit(d) PROVE ServerCopies(S)'
    <2>1. SnapIn(Head(down[d]).snap, S)
        BY <1>8, <1>9 DEF RecvInit, MessageIn
    <2>2. \A x \in Device : SnapIn(cache'[x], S)
        BY <1>1, <1>9, <2>1 DEF RecvInit, ServerCopies
    <2> QED BY <1>8, <1>9, <2>2 DEF RecvInit, ServerCopies
<1>10. ASSUME NEW d \in Device, RecvData(d) PROVE ServerCopies(S)'
    <2>1. /\ Head(down[d]).val \in S[Head(down[d]).key]
          /\ cache[d] # Unknown
          /\ cache[d] \in Snapshot
        BY <1>1, <1>8, <1>10, MessageTaken DEF RecvData, MessageIn
    <2>2. SnapIn(cache'[d], S)
        BY <1>1, <1>10, <2>1 DEF RecvData, ServerCopies, SnapIn, Snapshot, Event
    <2>3. \A x \in Device : SnapIn(cache'[x], S)
        BY <1>1, <1>10, <2>2 DEF RecvData, ServerCopies
    <2> QED BY <1>8, <1>10, <2>3 DEF RecvData, ServerCopies
<1>11. ASSUME NEW d \in Device, RecvAck(d) \/ HoldAck(d) PROVE ServerCopies(S)'
    <2>1. Receive(d, "ack") /\ cache' = cache
        BY <1>11 DEF RecvAck, HoldAck
    <2> QED BY <1>8, <2>1 DEF ServerCopies
<1>12. CASE UNCHANGED syncVars
    BY <1>2, <1>12 DEF syncVars, wire
<1>13. ASSUME NEW d \in Device, \/ Observe(d) \/ Connect(d) \/ AckPuts(d) \/ Deliver(d)
                                \/ \E k \in Key, v \in Val : SetValue(d, k, v)
       PROVE  ServerCopies(S)'
    BY <1>2, <1>13 DEF Observe, Connect, AckPuts, Deliver, SetValue, wire
<1>14. ASSUME NEW d \in Device, Disconnect(d) \/ Kill(d) PROVE ServerCopies(S)'
    <2>1. CloseWire(d) /\ db' = db /\ \A x \in Device : cache'[x] \in {cache[x], Unknown}
        BY <1>1, <1>14 DEF Disconnect, Kill
    <2> QED BY <1>3, <2>1
<1> QED BY <1>4, <1>6, <1>7, <1>9, <1>10, <1>11, <1>12, <1>13, <1>14 DEF SyncNext, Background

\* An answer that arrives answers a write that has none yet.
LEMMA AnswerHasWrite ==
    ASSUME TypeInv, NEW d \in Device, RecvAck(d) \/ HoldAck(d)
    PROVE  /\ Handled(d) \in Nat /\ Handled(d) >= 1 /\ Handled(d) <= Len(Waiting(d))
           /\ Handled(d)' = Handled(d) - 1
           /\ \A x \in Device \ {d} : Handled(x)' = Handled(x)
           /\ Waiting(d) \in Seq(Put) /\ Waiting(d) # <<>>
<1>1. Receive(d, "ack")
    BY DEF RecvAck, HoldAck
<1>2. \A x \in Device :
          /\ Handled(x)' = Handled(x) - (IF x = d THEN 1 ELSE 0)
          /\ Handled(x) \in Nat /\ Handled(x)' \in Nat
    BY <1>1, MessageTaken
<1>3. Handled(d) >= 1 /\ Handled(d)' = Handled(d) - 1
    BY <1>2
<1>4. /\ SyncTypeOK /\ held[d] <= Len(puts[d])
      /\ Handled(d) <= Len(Waiting(d))
    BY DEF TypeInv, AnswersHaveWrites
<1>5. Waiting(d) \in Seq(Put)
    BY <1>4, WaitingType
<1>6. Waiting(d) # <<>>
    BY AnswerTaken
<1> QED BY <1>2, <1>3, <1>4, <1>5, <1>6

\* A snapshot is raised only when it shows allowed versions.
LEMMA RaiseIn ==
    ASSUME TypeInv, NEW L, ScreenCopies(L), NEW d \in Device, NEW view,
           view \in Snapshot \cup {Unknown}, SnapIn(view, L[d]), Raise(d, view)
    PROVE  \A x \in Device : \A snap \in Range(mainq'[x]) : SnapIn(snap, L[x])
<1>1. mainq \in [Device -> Seq(Snapshot \cup {Unknown})]
    BY SeqMonotonic DEF TypeInv, SyncTypeOK
<1>2. \A x \in Device : \A snap \in Range(mainq[x]) : SnapIn(snap, L[x])
    BY DEF ScreenCopies
<1>3. CASE mainq' = mainq
    BY <1>2, <1>3
<1>4. CASE mainq' = [mainq EXCEPT ![d] = Append(@, view)]
    <2>1. Range(mainq'[d]) = Range(mainq[d]) \cup {view}
        BY <1>1, <1>4, RangeAppend
    <2>2. \A x \in Device \ {d} : mainq'[x] = mainq[x]
        BY <1>1, <1>4
    <2> QED BY <1>2, <2>1, <2>2
<1> QED BY <1>3, <1>4 DEF Raise

\* What the client does to a screen's side: it lays a put over, or takes a
\* message, and raises the view that leaves.
LEMMA ClientCopies ==
    ASSUME TypeInv, TypeInv', NEW S, NEW L, ServerCopies(S)', ScreenCopies(L),
           \A x \in Device : Wider(S, L[x]),
           NEW d \in Device, shown' = shown,
           Raise(d, View(cache'[d], puts'[d])),
           \A x \in Device : PutsIn(puts'[x], L[x]),
           \A x \in Device : RowsIn(list'[x], L[x]) /\ RowsIn(cell'[x], L[x])
    PROVE  ScreenCopies(L)'
<1>1. /\ cache'[d] \in Snapshot \cup {Unknown}
      /\ puts'[d] \in Seq(Put)
    BY DEF TypeInv, SyncTypeOK
<1>2. SnapIn(cache'[d], L[d])
    BY DEF ServerCopies, SnapIn, Wider
<1>3. SnapIn(View(cache'[d], puts'[d]), L[d])
    BY <1>1, <1>2, ViewIn
<1>4. View(cache'[d], puts'[d]) \in Snapshot \cup {Unknown}
    BY <1>1, ViewType
<1>5. \A x \in Device : \A snap \in Range(mainq'[x]) : SnapIn(snap, L[x])
    BY <1>3, <1>4, RaiseIn
<1> QED BY <1>5 DEF ScreenCopies

\* A device's side gets a version only from a swipe, from a new event, or
\* from the server's side.
LEMMA ScreenCopiesStep ==
    ASSUME TypeInv, TypeInv', TypeOK, [Next]_vars,
           NEW S, NEW L, ServerCopies(S)', ScreenCopies(L),
           \A d \in Device : Wider(S, L[d]),
           \A d \in Device, e \in Event, answer \in Answer :
               Swipe(d, e, answer) =>
                   [cell[d][e] EXCEPT !.status[OwnerOf[d]] = answer] \in L[d][e],
           \A d \in Device, e \in Event, start \in Time :
               AddEvent(d, e, start) => [start |-> start, status |-> NoStatus] \in L[d][e]
    PROVE  ScreenCopies(L)'
<1>1. /\ puts \in [Device -> Seq(Put)]
      /\ mainq \in [Device -> Seq(Snapshot)]
      /\ shown \in [Device -> Snapshot \cup {Unknown}]
      /\ list \in [Device -> Rows]
      /\ cell \in [Device -> Rows]
    BY DEF TypeOK, SyncTypeOK
<1>2. \A x \in Device : /\ PutsIn(puts[x], L[x])
                        /\ RowsIn(list[x], L[x]) /\ RowsIn(cell[x], L[x])
                        /\ \A snap \in Range(mainq[x]) : SnapIn(snap, L[x])
                        /\ SnapIn(shown[x], L[x])
    BY DEF ScreenCopies
<1>3. ASSUME UNCHANGED <<puts, mainq, shown, list, cell>> PROVE ScreenCopies(L)'
    BY <1>3 DEF ScreenCopies
<1>4. ASSUME NEW d \in Device, Background(d) \/ ServerApply(d) \/ ServerReject(d),
             UNCHANGED tab
      PROVE  ScreenCopies(L)'
    <2>1. UNCHANGED <<list, cell>>
        BY <1>4 DEF tab
    <2>2. CASE RecvInit(d) \/ RecvData(d) \/ RecvAck(d)
        <3>1. \A x \in Device : PutsIn(puts'[x], L[x])
            <4>1. CASE UNCHANGED puts
                BY <1>2, <4>1
            <4>2. CASE RecvAck(d)
                <5>1. puts[d] # <<>>
                    <6>1. held[d] = 0 /\ held[d] <= Len(puts[d]) /\ SyncTypeOK
                        BY <4>2 DEF RecvAck, TypeInv, AnswersHaveWrites
                    <6> QED BY <4>2, <6>1, AnswerHasWrite, WaitingType
                <5>2. Range(puts'[d]) \subseteq Range(puts[d])
                    BY <1>1, <4>2, <5>1, RangeTail DEF RecvAck
                <5>3. \A x \in Device \ {d} : puts'[x] = puts[x]
                    BY <1>1, <4>2 DEF RecvAck
                <5> QED BY <1>2, <5>2, <5>3 DEF PutsIn
            <4> QED BY <2>2, <4>1, <4>2 DEF RecvInit, RecvData
        <3>2. shown' = shown /\ Raise(d, View(cache'[d], puts'[d]))
            <4>1. CASE RecvInit(d)
                BY <4>1 DEF RecvInit, Receive
            <4>2. CASE RecvData(d)
                BY <4>2 DEF RecvData, Receive
            <4>3. CASE RecvAck(d)
                BY <4>3 DEF RecvAck, Receive
            <4> QED BY <2>2, <4>1, <4>2, <4>3
        <3> QED BY <1>2, <2>1, <3>1, <3>2, ClientCopies
    <2>3. CASE Connect(d) \/ Disconnect(d) \/ ServerListen(d) \/ ServerApply(d) \/ ServerReject(d)
        <3>1. UNCHANGED <<puts, mainq, shown>>
            BY <2>3 DEF Connect, Disconnect, ServerListen, ServerApply, ServerReject, screen
        <3> QED BY <1>3, <2>1, <3>1
    <2>4. CASE HoldAck(d)
        <3>1. UNCHANGED <<puts, mainq, shown>>
            BY <2>4 DEF HoldAck, Receive
        <3> QED BY <1>3, <2>1, <3>1
    <2>5. CASE AckPuts(d)
        <3>1. /\ mainq' = [mainq EXCEPT ![d] = @ \o Raised(d)]
              /\ UNCHANGED <<shown, cache>>
            BY <2>5 DEF AckPuts, Raised
        <3>2. puts'[d] = Waiting(d) /\ \A x \in Device \ {d} : puts'[x] = puts[x]
            BY <2>5, AnswersLifted
        <3>3. held[d] \in Nat /\ held[d] <= Len(puts[d]) /\ Len(puts[d]) \in Nat
            BY <1>1, LenProperties DEF TypeInv, SyncTypeOK, AnswersHaveWrites
        <3>4. ASSUME NEW n \in 0..held[d]
              PROVE  PutsIn(Rest(puts[d], n), L[d]) /\ Rest(puts[d], n) \in Seq(Put)
            <4>1. n \in Nat /\ n <= Len(puts[d])
                BY <3>3
            <4>2. Range(Rest(puts[d], n)) \subseteq Range(puts[d])
                BY <1>1, <4>1, RangeRest
            <4>3. Rest(puts[d], n) \in Seq(Put)
                BY <1>1, <4>1, RestProperties
            <4> QED BY <1>2, <4>2, <4>3 DEF PutsIn
        <3>5. \A x \in Device : PutsIn(puts'[x], L[x])
            <4>1. held[d] \in 0..held[d]
                BY <3>3
            <4>2. PutsIn(puts'[d], L[d])
                BY <3>2, <3>4, <4>1, WaitingIsRest
            <4> QED BY <1>2, <3>2, <4>2
        <3>6. SnapIn(cache[d], L[d])
            BY <3>1 DEF ServerCopies, SnapIn, Wider
        <3>7. PICK r \in Seq(Snapshot) :
                 /\ r = Raised(d)
                 /\ \A i \in 1..Len(r) :
                        \E n \in 1..held[d] : r[i] = View(cache[d], Rest(puts[d], n))
            <4>1. SyncTypeOK
                BY DEF TypeInv
            <4> QED BY <3>3, <4>1, RaisedProperties
        <3>8. ASSUME NEW snap \in Range(r) PROVE SnapIn(snap, L[d])
            <4>1. PICK i \in 1..Len(r) : snap = r[i]
                BY <3>7, <3>8, LenProperties DEF Range
            <4>2. PICK n \in 1..held[d] : snap = View(cache[d], Rest(puts[d], n))
                BY <3>7, <4>1
            <4>3. n \in 0..held[d]
                BY <3>3
            <4>4. PICK w \in Seq(Put) : w = Rest(puts[d], n) /\ PutsIn(w, L[d])
                BY <3>4, <4>3
            <4>5. SnapIn(View(cache[d], w), L[d])
                BY <3>6, <4>4, ViewIn
            <4> QED BY <4>2, <4>4, <4>5
        <3>9. \A x \in Device : \A snap \in Range(mainq'[x]) : SnapIn(snap, L[x])
            <4>1. mainq'[d] = mainq[d] \o r
                BY <1>1, <3>1, <3>7
            <4>2. Range(mainq'[d]) \subseteq Range(mainq[d]) \cup Range(r)
                BY <1>1, <3>7, <4>1, RangeConcat
            <4>3. \A x \in Device \ {d} : mainq'[x] = mainq[x]
                BY <1>1, <3>1
            <4> QED BY <1>2, <3>8, <4>2, <4>3
        <3> QED BY <1>2, <2>1, <3>1, <3>5, <3>9 DEF ScreenCopies
    <2> QED BY <1>4, <2>2, <2>3, <2>4, <2>5 DEF Background
<1>5. ASSUME NEW d \in Device, NEW e \in Event, NEW v, SetValue(d, e, v), v \in L[d][e],
             v \in Val, \A x \in Device : RowsIn(list'[x], L[x]) /\ RowsIn(cell'[x], L[x])
      PROVE  ScreenCopies(L)'
    <2> DEFINE p == [key |-> e, val |-> v]
    <2>1. p \in Put
        BY <1>5 DEF Put, Event
    <2>2. Range(puts'[d]) = Range(puts[d]) \cup {p}
        BY <1>1, <1>5, <2>1, RangeAppend DEF SetValue
    <2>3. \A x \in Device \ {d} : puts'[x] = puts[x]
        BY <1>1, <1>5 DEF SetValue
    <2>4. \A x \in Device : PutsIn(puts'[x], L[x])
        BY <1>2, <1>5, <2>2, <2>3 DEF PutsIn
    <2>5. shown' = shown /\ Raise(d, View(cache'[d], puts'[d]))
        BY <1>5 DEF SetValue
    <2> QED BY <1>5, <2>4, <2>5, ClientCopies
<1>6. ASSUME NEW d \in Device, NEW e \in Event, NEW answer \in Answer, Swipe(d, e, answer)
      PROVE  ScreenCopies(L)'
    <2> DEFINE v == [cell[d][e] EXCEPT !.status[OwnerOf[d]] = answer]
    <2>1. /\ v \in L[d][e] /\ list' = list /\ SetValue(d, e, v)
          /\ cell' = [cell EXCEPT ![d][e] = v]
        BY <1>6 DEF Swipe, UpdateEvent
    <2>2. v \in Val
        <3>1. cell[d][e] \in EventVal
            BY <1>1, <1>6 DEF Swipe, Rows
        <3> QED BY <3>1, AnswerType, OwnerAssumption, ValAssumption
    <2> HIDE DEF v
    <2>3. \A x \in Device : RowsIn(cell'[x], L[x])
        BY <1>1, <1>2, <2>1 DEF RowsIn
    <2> QED BY <1>2, <1>5, <2>1, <2>2, <2>3
<1>7. ASSUME NEW d \in Device, NEW e \in Event, NEW start \in Time, AddEvent(d, e, start)
      PROVE  ScreenCopies(L)'
    <2> DEFINE v == [start |-> start, status |-> NoStatus]
    <2>1. /\ v \in L[d][e] /\ list' = list /\ SetValue(d, e, v)
          /\ cell' = [cell EXCEPT ![d] = list[d]]
        BY <1>7 DEF AddEvent
    <2>2. v \in Val
        BY ValAssumption DEF EventVal, NoStatus
    <2> HIDE DEF v
    <2>3. \A x \in Device : RowsIn(cell'[x], L[x])
        BY <1>1, <1>2, <2>1
    <2> QED BY <1>2, <1>5, <2>1, <2>2, <2>3
<1>8. ASSUME NEW d \in Device, FetchEvents(d) PROVE ScreenCopies(L)'
    <2> DEFINE snap == Head(mainq[d])
    <2>1. /\ mainq[d] # <<>>
          /\ mainq' = [mainq EXCEPT ![d] = Tail(@)]
          /\ shown' = [shown EXCEPT ![d] = snap]
          /\ list' = [list EXCEPT ![d] = RowsOf(snap)]
          /\ cell' = [cell EXCEPT ![d] = RowsOf(snap)]
          /\ puts' = puts
        BY <1>8 DEF FetchEvents, Deliver
    <2>2. snap \in Range(mainq[d]) /\ Range(Tail(mainq[d])) \subseteq Range(mainq[d])
          /\ snap \in Snapshot
        BY <1>1, <2>1, RangeTail
    <2>3. SnapIn(snap, L[d])
        BY <1>2, <2>2
    <2> HIDE DEF snap
    <2>4. RowsIn(RowsOf(snap), L[d])
        BY <2>2, <2>3, UnknownAssumption DEF RowsIn, RowsOf, UpcomingIn, SnapIn, Snapshot, Entry
    <2>5. \A x \in Device : /\ RowsIn(list'[x], L[x]) /\ RowsIn(cell'[x], L[x])
                            /\ SnapIn(shown'[x], L[x])
        BY <1>1, <1>2, <2>1, <2>3, <2>4
    <2>6. \A x \in Device : Range(mainq'[x]) \subseteq Range(mainq[x])
        BY <1>1, <2>1, <2>2
    <2> QED BY <1>2, <2>1, <2>5, <2>6 DEF ScreenCopies
<1>9. ASSUME NEW d \in Device, NEW e \in Event, RedrawCell(d, e) PROVE ScreenCopies(L)'
    <2>1. /\ UNCHANGED <<puts, mainq, shown, list>>
          /\ e \in DOMAIN list[d]
          /\ cell' = [cell EXCEPT ![d][e] = list[d][e]]
        BY <1>9 DEF RedrawCell, syncVars, screen
    <2>2. \A x \in Device : RowsIn(cell'[x], L[x])
        BY <1>1, <1>2, <2>1 DEF RowsIn
    <2> QED BY <1>2, <2>1, <2>2 DEF ScreenCopies
<1>10. ASSUME NEW d \in Device, KillApp(d) PROVE ScreenCopies(L)'
    <2>1. /\ puts' = [puts EXCEPT ![d] = <<>>]
          /\ mainq' = [mainq EXCEPT ![d] = <<>>]
          /\ shown' = [shown EXCEPT ![d] = Unknown]
          /\ list' = [list EXCEPT ![d] = NoRows]
          /\ cell' = [cell EXCEPT ![d] = NoRows]
        BY <1>10 DEF KillApp, Kill
    <2>2. RowsIn(NoRows, L[d]) /\ SnapIn(Unknown, L[d]) /\ PutsIn(<<>>, L[d])
        BY RangeEmpty DEF RowsIn, NoRows, SnapIn, PutsIn
    <2>3. \A x \in Device : Range(mainq'[x]) \subseteq Range(mainq[x])
        BY <1>1, <2>1, RangeEmpty
    <2>4. \A x \in Device : /\ PutsIn(puts'[x], L[x]) /\ SnapIn(shown'[x], L[x])
                            /\ RowsIn(list'[x], L[x]) /\ RowsIn(cell'[x], L[x])
        BY <1>1, <1>2, <2>1, <2>2
    <2> QED BY <1>2, <2>3, <2>4 DEF ScreenCopies
<1>11. CASE UNCHANGED vars
    BY <1>3, <1>11 DEF vars, syncVars, screen, tab
<1>12. CASE Tick
    BY <1>3, <1>12 DEF Tick, syncVars, screen, tab
<1>13. ASSUME NEW d \in Device, LoadEvents(d) PROVE ScreenCopies(L)'
    BY <1>3, <1>13 DEF LoadEvents, Observe, screen, tab
<1>14. ASSUME NEW d \in Device, Underneath(d) \/ Refuse(d) PROVE ScreenCopies(L)'
    BY <1>4, <1>14 DEF Underneath, TabAlone, Refuse
<1> QED BY <1>6, <1>7, <1>8, <1>9, <1>10, <1>11, <1>12, <1>13, <1>14 DEF Next, Step

-----------------------------------------------------------------------------
(* An event keeps its date: every copy of it, wherever it is and however   *)
(* old, has the start the event was made with.                             *)

Dates == [e \in Event |-> {v \in EventVal : v.start = made[e]}]

Dated == ServerCopies(Dates) /\ ScreenCopies([d \in Device |-> Dates])

\* A date is given once.
LEMMA DatesStay ==
    ASSUME TypeOK, [Next]_vars
    PROVE  \A e \in Event : made[e] # Absent => made'[e] = made[e]
<1>1. made \in [Event -> Time \cup {Absent}]
    BY DEF TypeOK
<1>2. ASSUME NEW d \in Device, NEW e \in Event, NEW start \in Time, AddEvent(d, e, start)
      PROVE  \A x \in Event : made[x] # Absent => made'[x] = made[x]
    BY <1>1, <1>2 DEF AddEvent
<1>3. ASSUME NEW d \in Device, NEW e \in Event, NEW answer \in Answer, Swipe(d, e, answer)
      PROVE  made' = made
    BY <1>3 DEF Swipe, UpdateEvent
<1>4. ASSUME NEW d \in Device, \/ LoadEvents(d) \/ FetchEvents(d) \/ Underneath(d)
                               \/ \E e \in Event : RedrawCell(d, e)
                               \/ Refuse(d) \/ KillApp(d)
      PROVE  made' = made
    BY <1>4 DEF LoadEvents, FetchEvents, Underneath, TabAlone, RedrawCell, Refuse, KillApp
<1>5. CASE Tick \/ UNCHANGED vars
    BY <1>5 DEF Tick, vars
<1> QED BY <1>2, <1>3, <1>4, <1>5 DEF Next, Step

LEMMA DatedInit == Init => Dated
<1> SUFFICES ASSUME Init PROVE Dated
    OBVIOUS
<1>1. \A d \in Device : /\ down[d] = <<>> /\ cache[d] = Unknown /\ puts[d] = <<>>
                        /\ mainq[d] = <<>> /\ shown[d] = Unknown
                        /\ list[d] = NoRows /\ cell[d] = NoRows
    BY DEF Init, SyncInit
<1>2. \A S : SnapIn(Unknown, S) /\ RowsIn(NoRows, S) /\ PutsIn(<<>>, S)
    BY RangeEmpty DEF SnapIn, RowsIn, NoRows, PutsIn
<1>3. \A S : SnapIn(db, S)
    BY DEF Init, SyncInit, SnapIn, Event
<1>4. \A S : ServerCopies(S)
    BY <1>1, <1>2, <1>3, RangeEmpty DEF ServerCopies
<1>5. \A L : ScreenCopies(L)
    BY <1>1, <1>2, RangeEmpty DEF ScreenCopies
<1> QED BY <1>4, <1>5 DEF Dated

LEMMA DatedStep ==
    ASSUME TypeInv, TypeOK, Dated, [Next]_vars
    PROVE  Dated'
<1>1. TypeInv' /\ [SyncNext]_syncVars
    BY TypeStep, StepIsSync
<1>2. PICK T : T = Dates'
    OBVIOUS
<1>3. \A e \in Event : T[e] = {v \in EventVal : v.start = made'[e]}
    BY <1>2 DEF Dates
<1>4. Wider(Dates, T)
    BY <1>3, DatesStay, TimeAssumption DEF Wider, Dates, EventVal
<1>5. PICK L : L = [d \in Device |-> T]
    OBVIOUS
<1>6. ServerCopies(T) /\ ScreenCopies(L)
    <2>1. ServerCopies(T)
        BY <1>4, ServerWider DEF Dated
    <2>2. PICK K : K = [d \in Device |-> Dates]
        OBVIOUS
    <2>3. \A d \in Device : Wider(K[d], L[d])
        BY <1>4, <1>5, <2>2
    <2>4. ScreenCopies(K)
        BY <2>2 DEF Dated
    <2> QED BY <2>1, <2>3, <2>4, ScreenWider
<1>7. ServerCopies(T)'
    <2>1. ASSUME NEW d \in Device, ServerApply(d)
          PROVE  NextPut(d).val \in T[NextPut(d).key]
        <3>1. NextPut(d) \in Range(puts[d])
            BY <2>1, NextPutPending DEF ServerApply
        <3> QED BY <1>5, <1>6, <3>1 DEF ScreenCopies, PutsIn
    <2> QED BY <1>1, <1>6, <2>1, ServerCopiesStep
<1>8. ScreenCopies(L)'
    <2>1. \A d \in Device : Wider(T, L[d])
        BY <1>5 DEF Wider
    <2>2. ASSUME NEW d \in Device, NEW e \in Event, NEW answer \in Answer, Swipe(d, e, answer)
          PROVE  [cell[d][e] EXCEPT !.status[OwnerOf[d]] = answer] \in L[d][e]
        <3>1. cell[d][e] \in T[e]
            BY <1>5, <1>6, <2>2 DEF ScreenCopies, RowsIn, Swipe
        <3>2. cell[d][e] \in EventVal /\ cell[d][e].start = made'[e]
            BY <1>3, <3>1
        <3>3. [cell[d][e] EXCEPT !.status[OwnerOf[d]] = answer] \in EventVal
            BY <3>2, AnswerType, OwnerAssumption
        <3>4. [cell[d][e] EXCEPT !.status[OwnerOf[d]] = answer].start = cell[d][e].start
            BY <3>2 DEF EventVal
        <3> QED BY <1>3, <1>5, <3>2, <3>3, <3>4
    <2>3. ASSUME NEW d \in Device, NEW e \in Event, NEW start \in Time, AddEvent(d, e, start)
          PROVE  [start |-> start, status |-> NoStatus] \in L[d][e]
        <3>1. [start |-> start, status |-> NoStatus] \in EventVal
            BY DEF EventVal, NoStatus
        <3>2. made'[e] = start
            BY <2>3 DEF AddEvent, TypeOK
        <3> QED BY <1>3, <1>5, <3>1, <3>2
    <2> QED BY <1>1, <1>6, <1>7, <2>1, <2>2, <2>3, ScreenCopiesStep
<1>9. ServerCopies(Dates)'
    BY <1>2, <1>7 DEF ServerCopies, SnapIn, MessageIn
<1>10. ScreenCopies([d \in Device |-> Dates])'
    BY <1>2, <1>5, <1>8 DEF ScreenCopies, SnapIn, RowsIn, PutsIn
<1> QED BY <1>9, <1>10 DEF Dated

\* Only the server's own step changes what it holds.
LEMMA OnlyApplyWrites ==
    ASSUME [SyncNext]_syncVars
    PROVE  UNCHANGED db \/ \E d \in Device : ServerApply(d)
    BY DEF SyncNext, Background, syncVars, wire, Observe, SetValue, Kill, Connect,
        Disconnect, ServerListen, RecvInit, RecvData, RecvAck, HoldAck, AckPuts, Receive,
        ServerReject, Deliver

\* Everything the theorems below start from.
TabInv == TypeInv /\ TypeOK /\ Dated

LEMMA TabInvInit == Init => TabInv
<1> SUFFICES ASSUME Init PROVE TabInv
    OBVIOUS
<1>1. TypeInv /\ SyncTypeOK
    BY TypeInvInit DEF Init, TypeInv
<1>2. now \in Time /\ clash \in SUBSET Event
    BY TimeAssumption DEF Init, Time
<1>3. TypeOK
    BY <1>1, <1>2, NoRowsType DEF Init, TypeOK, NoStatus
<1> QED BY <1>1, <1>3, DatedInit DEF TabInv

LEMMA TabInvStep ==
    ASSUME TabInv, [Next]_vars
    PROVE  TabInv'
    BY TypeStep, DatedStep DEF TabInv

LEMMA TabInvCorrect == Spec => []TabInv
    BY TabInvInit, TabInvStep, PTL DEF Spec

\* The tab only ever holds events, and all it hands to the client are
\* events: the copies of the rows, the dates and the answers keep their
\* types whatever the players and the connections do.
THEOREM TypeCorrect == Spec => []TypeOK
<1>1. TabInv => TypeOK
    BY DEF TabInv
<1> QED BY <1>1, TabInvCorrect, PTL

\* No copy of an event, however stale, can take it off the server again or
\* move it to another date (updatePlayerStatusForCurrentUser writes whole
\* copies back).
THEOREM EventsStayCorrect == Spec => EventsStay
<1> DEFINE Stays == \A e \in Event : db[e] # Absent =>
                        db'[e] # Absent /\ db'[e].start = db[e].start
<1>1. ASSUME TabInv, TabInv', [Next]_vars PROVE Stays
    <2>1. ASSUME NEW e \in Event, db[e] # Absent
          PROVE  db'[e] # Absent
        <3>1. [SyncNext]_syncVars
            BY <1>1, StepIsSync DEF TabInv
        <3>2. CASE UNCHANGED db
            BY <2>1, <3>2
        <3>3. ASSUME NEW d \in Device, ServerApply(d) PROVE db'[e] # Absent
            <4>1. NextPut(d) \in Put
                BY <1>1, <3>3, NextPutType DEF TabInv, ServerApply
            <4> QED BY <1>1, <2>1, <3>3, <4>1, AbsentAssumption
                    DEF ServerApply, Put, TabInv, TypeInv, SyncTypeOK, Snapshot
        <3>4. UNCHANGED db \/ \E d \in Device : ServerApply(d)
            BY <3>1, OnlyApplyWrites
        <3> QED BY <3>2, <3>3, <3>4
    <2>2. \A e \in Event : db[e] # Absent => db[e].start = made[e] /\ made[e] # Absent
        <3>1. db \in Snapshot /\ SnapIn(db, Dates)
            BY <1>1 DEF TabInv, TypeInv, SyncTypeOK, Dated, ServerCopies
        <3> QED BY <3>1, UnknownAssumption, TimeAssumption
                DEF SnapIn, Dates, EventVal, Snapshot, Entry
    <2>3. \A e \in Event : db'[e] # Absent => db'[e].start = made'[e]
        <3>1. db' \in Snapshot /\ SnapIn(db', Dates')
            BY <1>1 DEF TabInv, TypeInv, SyncTypeOK, Dated, ServerCopies, SnapIn
        <3> QED BY <3>1, UnknownAssumption DEF SnapIn, Dates, Snapshot, Entry
    <2> QED BY <1>1, <2>1, <2>2, <2>3, DatesStay DEF TabInv
<1>2. TabInv /\ TabInv' /\ [Next]_vars => [Stays]_vars
    BY <1>1
<1> QED BY <1>2, TabInvCorrect, PTL DEF Spec, EventsStay

-----------------------------------------------------------------------------
(* What a quiet screen shows.  The rows are those of the snapshot the      *)
(* observer was last called with, filtered at the moment it was called;    *)
(* the cells catch up with them when the queue is empty.                   *)

StartingFrom(snap, t) == {e \in Event : snap[e] # Absent /\ snap[e].start >= t}
FilteredAt(t, snap, rows) == rows = [e \in StartingFrom(snap, t) |-> snap[e]]

RowsFollow ==
    \A d \in Device :
        /\ DOMAIN cell[d] = DOMAIN list[d]
        /\ shown[d] = Unknown => list[d] = NoRows
        /\ shown[d] # Unknown =>
               \E t \in 0..now : FilteredAt(t, shown[d], list[d])
        /\ mainq[d] = <<>> => cell[d] = list[d]

\* A write is on top of the overlay once it is made.
LEMMA NewestPutShows ==
    ASSUME NEW c \in Snapshot, NEW ps \in Seq(Put), NEW p \in Put
    PROVE  View(c, Append(ps, p))[p.key] = p.val
<1> DEFINE qs == Append(ps, p)
           n  == Len(ps) + 1
<1>1. /\ qs \in Seq(Put) /\ n \in Nat
      /\ DOMAIN qs = 1..n /\ n \in 1..n /\ qs[n] = p
    BY AppendProperties, LenProperties
<1> HIDE DEF qs, n
<1>2. n \in On(qs, p.key)
    BY <1>1 DEF On
<1>3. LastOn(qs, p.key) \in On(qs, p.key) /\ n <= LastOn(qs, p.key)
    BY <1>1, <1>2, LastOnIsGreatest
<1>4. LastOn(qs, p.key) = n
    BY <1>1, <1>3 DEF On
<1>5. c # Unknown /\ p.key \in Key
    BY UnknownAssumption DEF Snapshot, Entry, Put
<1>6. View(c, qs)[p.key] = p.val
    BY <1>1, <1>2, <1>4, <1>5 DEF View
<1> QED BY <1>6 DEF qs

\* The steps that leave the rows, and what they were made of, alone.
LEMMA RowsAlone ==
    ASSUME RowsFollow, UNCHANGED <<list, cell, shown, now>>,
           \A d \in Device : mainq'[d] = <<>> => mainq[d] = <<>>
    PROVE  RowsFollow'
    BY DEF RowsFollow, FilteredAt, StartingFrom

\* What the client raises is only ever appended.
LEMMA LiftedStays ==
    ASSUME TypeInv, NEW d \in Device, AckPuts(d)
    PROVE  \A x \in Device : mainq'[x] = <<>> => mainq[x] = <<>>
<1>1. /\ mainq \in [Device -> Seq(Snapshot)]
      /\ mainq' = [mainq EXCEPT ![d] = @ \o Raised(d)]
      /\ SyncTypeOK /\ held[d] <= Len(puts[d])
    BY DEF TypeInv, SyncTypeOK, AnswersHaveWrites, AckPuts, Raised
<1>2. PICK r \in Seq(Snapshot) : r = Raised(d)
    BY <1>1, RaisedProperties
<1>3. PICK q \in Seq(Snapshot) : q = mainq[d]
    BY <1>1
<1>4. Len(q \o r) = Len(q) + Len(r) /\ Len(q) \in Nat /\ Len(r) \in Nat
    BY ConcatProperties, LenProperties
<1>5. q \o r = <<>> => q = <<>>
    BY <1>4, EmptySeq
<1>6. mainq'[d] = q \o r /\ \A x \in Device \ {d} : mainq'[x] = mainq[x]
    BY <1>1, <1>2, <1>3
<1> QED BY <1>3, <1>5, <1>6

LEMMA RaisedStays ==
    ASSUME TypeInv, NEW d \in Device, NEW view \in Snapshot \cup {Unknown}, Raise(d, view)
    PROVE  \A x \in Device : mainq'[x] = <<>> => mainq[x] = <<>>
<1>1. mainq \in [Device -> Seq(Snapshot \cup {Unknown})]
    BY SeqMonotonic DEF TypeInv, SyncTypeOK
<1>2. Append(mainq[d], view) # <<>>
    BY <1>1, AppendProperties
<1> QED BY <1>1, <1>2 DEF Raise

LEMMA RowsFollowStep ==
    ASSUME TabInv, TabInv', NewestIsView, RowsFollow, [Next]_vars
    PROVE  RowsFollow'
<1>1. /\ puts \in [Device -> Seq(Put)] /\ puts' \in [Device -> Seq(Put)]
      /\ cache \in [Device -> Snapshot \cup {Unknown}]
      /\ cache' \in [Device -> Snapshot \cup {Unknown}]
      /\ mainq \in [Device -> Seq(Snapshot)]
      /\ shown \in [Device -> Snapshot \cup {Unknown}]
      /\ list \in [Device -> Rows]
      /\ cell \in [Device -> Rows]
      /\ now \in Time /\ now' \in Time
      /\ TypeInv
    BY DEF TabInv, TypeInv, TypeOK, SyncTypeOK
<1>2. \A x \in Device : View(cache'[x], puts'[x]) \in Snapshot \cup {Unknown}
    BY <1>1, ViewType
<1>3. CASE UNCHANGED vars
    BY <1>3, RowsAlone DEF vars, syncVars, screen, tab
<1>4. CASE Tick
    <2>1. UNCHANGED <<list, cell, shown, mainq>> /\ 0..now \subseteq 0..now'
        BY <1>1, <1>4 DEF Tick, tab, syncVars, screen, Time
    <2>2. ASSUME NEW x \in Device, shown'[x] # Unknown
          PROVE  \E t \in 0..now' : FilteredAt(t, shown'[x], list'[x])
        <3>1. PICK t \in 0..now : FilteredAt(t, shown[x], list[x])
            BY <2>1, <2>2 DEF RowsFollow
        <3> QED BY <2>1, <3>1
    <2> QED BY <2>1, <2>2 DEF RowsFollow, FilteredAt, StartingFrom
<1>5. ASSUME NEW d \in Device, Background(d) \/ ServerApply(d) \/ ServerReject(d) \/ Observe(d),
             UNCHANGED <<now, tab>>
      PROVE  RowsFollow'
    <2>1. shown' = shown
        BY <1>5 DEF Background, Connect, Disconnect, ServerListen, RecvInit, RecvData, RecvAck,
                    HoldAck, AckPuts, Receive, ServerApply, ServerReject, Observe, screen
    <2>2. \/ mainq' = mainq
          \/ Raise(d, View(cache'[d], puts'[d]))
          \/ AckPuts(d)
        <3>1. CASE RecvInit(d)
            BY <3>1 DEF RecvInit
        <3>2. CASE RecvData(d)
            BY <3>2 DEF RecvData
        <3>3. CASE RecvAck(d)
            BY <3>3 DEF RecvAck
        <3> QED BY <1>5, <3>1, <3>2, <3>3 DEF Background, Connect, Disconnect, ServerListen,
                    HoldAck, ServerApply, ServerReject, Observe, screen
    <2>3. \A x \in Device : mainq'[x] = <<>> => mainq[x] = <<>>
        BY <1>1, <1>2, <2>2, RaisedStays, LiftedStays
    <2> QED BY <1>5, <2>1, <2>3, RowsAlone DEF tab
<1>6. ASSUME NEW d \in Device, FetchEvents(d) PROVE RowsFollow'
    <2> DEFINE snap == Head(mainq[d])
    <2>1. /\ mainq[d] # <<>>
          /\ mainq' = [mainq EXCEPT ![d] = Tail(@)]
          /\ shown' = [shown EXCEPT ![d] = snap]
          /\ list' = [list EXCEPT ![d] = RowsOf(snap)]
          /\ cell' = [cell EXCEPT ![d] = RowsOf(snap)]
          /\ now' = now
        BY <1>6 DEF FetchEvents, Deliver
    <2>2. snap \in Snapshot /\ snap # Unknown
        BY <1>1, <2>1, RangeTail, UnknownAssumption DEF Snapshot, Entry
    <2> HIDE DEF snap
    <2>3. UpcomingIn(snap) = StartingFrom(snap, now) /\ now \in 0..now
        BY <1>1 DEF UpcomingIn, StartingFrom, Time
    <2>4. FilteredAt(now, snap, RowsOf(snap))
        BY <2>3 DEF RowsOf, FilteredAt
    <2>5. /\ shown'[d] = snap /\ list'[d] = RowsOf(snap) /\ cell'[d] = RowsOf(snap)
          /\ \A x \in Device \ {d} : /\ shown'[x] = shown[x] /\ list'[x] = list[x]
                                     /\ cell'[x] = cell[x] /\ mainq'[x] = mainq[x]
        BY <1>1, <2>1
    <2> SUFFICES ASSUME NEW x \in Device
                 PROVE  /\ DOMAIN cell'[x] = DOMAIN list'[x]
                        /\ shown'[x] = Unknown => list'[x] = NoRows
                        /\ shown'[x] # Unknown =>
                               \E t \in 0..now' : FilteredAt(t, shown'[x], list'[x])
                        /\ mainq'[x] = <<>> => cell'[x] = list'[x]
        BY DEF RowsFollow, FilteredAt, StartingFrom
    <2>6. CASE x = d
        BY <2>1, <2>2, <2>3, <2>4, <2>5, <2>6
    <2>7. CASE x # d
        <3>1. /\ shown'[x] = shown[x] /\ list'[x] = list[x]
              /\ cell'[x] = cell[x] /\ mainq'[x] = mainq[x]
            BY <2>5, <2>7
        <3>2. /\ DOMAIN cell[x] = DOMAIN list[x]
              /\ shown[x] = Unknown => list[x] = NoRows
              /\ shown[x] # Unknown =>
                     \E t \in 0..now : FilteredAt(t, shown[x], list[x])
              /\ mainq[x] = <<>> => cell[x] = list[x]
            BY DEF RowsFollow
        <3> QED BY <2>1, <3>1, <3>2
    <2> QED BY <2>6, <2>7
<1>7. ASSUME NEW d \in Device, NEW e \in Event, NEW v \in Val,
             SetValue(d, e, v), UNCHANGED <<now, list>>,
             \A x \in Device \ {d} : cell'[x] = cell[x],
             DOMAIN cell'[d] = DOMAIN list[d],
             cell[d] = list[d] /\ shown[d] # Unknown /\ shown[d][e] = v => cell'[d] = list[d],
             shown[d] = Unknown => cell'[d] = list[d]
      PROVE  RowsFollow'
    <2>1. shown' = shown /\ Raise(d, View(cache'[d], puts'[d])) /\ cache' = cache
        BY <1>7 DEF SetValue
    <2>2. \A x \in Device : mainq'[x] = <<>> => mainq[x] = <<>>
        BY <1>1, <1>2, <2>1, RaisedStays
    <2>3. ASSUME mainq'[d] = <<>> PROVE cell'[d] = list[d]
        <3>1. mainq[d] = <<>> /\ cell[d] = list[d]
            BY <2>2, <2>3 DEF RowsFollow
        <3>2. shown[d] = View(cache[d], puts[d])
            BY <3>1 DEF NewestIsView, Newest
        <3>3. View(cache'[d], puts'[d]) = View(cache[d], puts[d])
            <4>1. Append(mainq[d], View(cache'[d], puts'[d])) # <<>>
                <5>1. mainq[d] \in Seq(Snapshot \cup {Unknown})
                    BY <1>1, SeqMonotonic
                <5> QED BY <1>2, <5>1, AppendProperties
            <4>2. ASSUME mainq' = [mainq EXCEPT ![d] = Append(@, View(cache'[d], puts'[d]))]
                  PROVE  FALSE
                <5>1. mainq'[d] = Append(mainq[d], View(cache'[d], puts'[d]))
                    BY <1>1, <4>2
                <5> QED BY <2>3, <4>1, <5>1
            <4> QED BY <2>1, <4>2 DEF Raise
        <3>4. CASE shown[d] = Unknown
            BY <1>7, <3>4
        <3>5. CASE shown[d] # Unknown
            <4>1. cache[d] \in Snapshot
                BY <1>1, <3>2, <3>5 DEF View
            <4>2. [key |-> e, val |-> v] \in Put
                BY <1>7 DEF Put, Event
            <4>3. puts'[d] = Append(puts[d], [key |-> e, val |-> v])
                BY <1>1, <1>7 DEF SetValue
            <4>4. View(cache[d], puts'[d])[e] = v
                BY <1>1, <4>1, <4>2, <4>3, NewestPutShows
            <4>5. shown[d][e] = v
                BY <2>1, <3>2, <3>3, <4>4
            <4> QED BY <1>7, <3>1, <3>5, <4>5
        <3> QED BY <3>4, <3>5
    <2>4. \A x \in Device : DOMAIN cell'[x] = DOMAIN list[x]
        BY <1>7 DEF RowsFollow
    <2>5. \A x \in Device : mainq'[x] = <<>> => cell'[x] = list[x]
        BY <1>7, <2>2, <2>3 DEF RowsFollow
    <2> QED BY <1>7, <2>1, <2>4, <2>5 DEF RowsFollow, FilteredAt, StartingFrom
<1>8. ASSUME NEW d \in Device, NEW e \in Event, NEW answer \in Answer, Swipe(d, e, answer)
      PROVE  RowsFollow'
    <2> DEFINE v == [cell[d][e] EXCEPT !.status[OwnerOf[d]] = answer]
    <2>1. /\ e \in DOMAIN cell[d] /\ SetValue(d, e, v) /\ UNCHANGED <<now, list>>
          /\ cell' = [cell EXCEPT ![d][e] = v]
        BY <1>8 DEF Swipe, UpdateEvent
    <2>2. v \in Val
        <3>1. cell[d][e] \in EventVal
            BY <1>1, <2>1 DEF Rows
        <3> QED BY <3>1, AnswerType, OwnerAssumption, ValAssumption
    <2> HIDE DEF v
    <2>3. /\ \A x \in Device \ {d} : cell'[x] = cell[x]
          /\ cell'[d] = [cell[d] EXCEPT ![e] = v]
        BY <1>1, <2>1
    <2>4. DOMAIN cell'[d] = DOMAIN list[d] /\ e \in DOMAIN list[d]
        BY <2>1, <2>3 DEF RowsFollow
    <2>5. shown[d] # Unknown
        BY <2>4 DEF RowsFollow, NoRows
    <2>6. ASSUME cell[d] = list[d], shown[d][e] = v PROVE cell'[d] = list[d]
        <3>1. list[d][e] = shown[d][e]
            BY <2>4, <2>5 DEF RowsFollow, FilteredAt
        <3>2. PICK D \in SUBSET Event : list[d] \in [D -> EventVal]
            BY <1>1 DEF Rows
        <3>3. [list[d] EXCEPT ![e] = list[d][e]] = list[d]
            BY <3>2
        <3> QED BY <2>3, <2>6, <3>1, <3>3
    <2> QED BY <1>7, <2>1, <2>2, <2>3, <2>4, <2>5, <2>6
<1>9. ASSUME NEW d \in Device, NEW e \in Event, NEW start \in Time, AddEvent(d, e, start)
      PROVE  RowsFollow'
    <2> DEFINE v == [start |-> start, status |-> NoStatus]
    <2>1. /\ SetValue(d, e, v) /\ UNCHANGED <<now, list>>
          /\ cell' = [cell EXCEPT ![d] = list[d]]
        BY <1>9 DEF AddEvent
    <2>2. v \in Val
        BY ValAssumption DEF EventVal, NoStatus
    <2> HIDE DEF v
    <2>3. cell'[d] = list[d] /\ \A x \in Device \ {d} : cell'[x] = cell[x]
        BY <1>1, <2>1
    <2> QED BY <1>7, <2>1, <2>2, <2>3
<1>10. ASSUME NEW d \in Device, NEW e \in Event, RedrawCell(d, e) PROVE RowsFollow'
    <2>1. /\ UNCHANGED <<mainq, shown, list, now>>
          /\ e \in DOMAIN list[d]
          /\ cell' = [cell EXCEPT ![d][e] = list[d][e]]
        BY <1>10 DEF RedrawCell, syncVars, screen
    <2>2. /\ \A x \in Device \ {d} : cell'[x] = cell[x]
          /\ cell'[d] = [cell[d] EXCEPT ![e] = list[d][e]]
        BY <1>1, <2>1
    <2>3. cell[d] = list[d] => cell'[d] = list[d]
        <3>1. PICK D \in SUBSET Event : list[d] \in [D -> EventVal]
            BY <1>1 DEF Rows
        <3> QED BY <2>2, <3>1
    <2>4. \A x \in Device : DOMAIN cell'[x] = DOMAIN list[x]
        BY <2>2 DEF RowsFollow
    <2>5. \A x \in Device : mainq[x] = <<>> => cell'[x] = list[x]
        BY <2>2, <2>3 DEF RowsFollow
    <2> QED BY <2>1, <2>4, <2>5 DEF RowsFollow, FilteredAt, StartingFrom
<1>11. ASSUME NEW d \in Device, KillApp(d) PROVE RowsFollow'
    <2>1. /\ mainq' = [mainq EXCEPT ![d] = <<>>]
          /\ shown' = [shown EXCEPT ![d] = Unknown]
          /\ list' = [list EXCEPT ![d] = NoRows]
          /\ cell' = [cell EXCEPT ![d] = NoRows]
          /\ now' = now
        BY <1>11 DEF KillApp, Kill
    <2>2. /\ shown'[d] = Unknown /\ list'[d] = NoRows /\ cell'[d] = NoRows
          /\ \A x \in Device \ {d} : /\ shown'[x] = shown[x] /\ list'[x] = list[x]
                                     /\ cell'[x] = cell[x] /\ mainq'[x] = mainq[x]
        BY <1>1, <2>1
    <2> SUFFICES ASSUME NEW x \in Device
                 PROVE  /\ DOMAIN cell'[x] = DOMAIN list'[x]
                        /\ shown'[x] = Unknown => list'[x] = NoRows
                        /\ shown'[x] # Unknown =>
                               \E t \in 0..now' : FilteredAt(t, shown'[x], list'[x])
                        /\ mainq'[x] = <<>> => cell'[x] = list'[x]
        BY DEF RowsFollow, FilteredAt, StartingFrom
    <2>3. CASE x = d
        BY <2>2, <2>3
    <2>4. CASE x # d
        <3>1. /\ shown'[x] = shown[x] /\ list'[x] = list[x]
              /\ cell'[x] = cell[x] /\ mainq'[x] = mainq[x]
            BY <2>2, <2>4
        <3> QED BY <2>1, <3>1 DEF RowsFollow
    <2> QED BY <2>3, <2>4
<1>12. ASSUME NEW d \in Device, LoadEvents(d) \/ Underneath(d) \/ Refuse(d) PROVE RowsFollow'
    BY <1>5, <1>12 DEF LoadEvents, Underneath, TabAlone, Refuse, tab
<1> QED BY <1>3, <1>4, <1>6, <1>8, <1>9, <1>10, <1>11, <1>12 DEF Next, Step

\* The runs of the tab are runs of the client underneath.
LEMMA SpecIsSync == Spec => SyncSpec
<1>1. Init => SyncInit
    BY DEF Init
<1>2. TypeOK /\ [Next]_vars => [SyncNext]_syncVars
    BY StepIsSync
<1> QED BY <1>1, <1>2, TypeCorrect, PTL DEF Spec, SyncSpec

\* The cells of a screen with nothing under way hold exactly what the server
\* holds of their events, and no event still to come is missing: the copies
\* the swipes changed in place are never left standing (cellForRowAt,
\* reloadData in fetchEvents).
THEOREM SettledRowsCorrect == Spec => []SettledRows
<1>1. Init => RowsFollow
    BY DEF Init, SyncInit, RowsFollow
<1>2. Spec => []TabInv /\ []NewestIsView /\ []SettledShowsServer
    BY TabInvCorrect, SpecIsSync, NewestIsViewCorrect, SettledShowsServerCorrect, PTL
<1>3. TabInv /\ TabInv' /\ NewestIsView /\ RowsFollow /\ [Next]_vars => RowsFollow'
    BY RowsFollowStep
<1>4. ASSUME TabInv, RowsFollow, SettledShowsServer PROVE SettledRows
    <2> SUFFICES ASSUME NEW d \in Device, Settled(d)
                 PROVE  /\ \A e \in Event : (db[e] # Absent /\ db[e].start >= now) =>
                                                e \in DOMAIN list[d]
                        /\ \A e \in DOMAIN list[d] : list[d][e] = db[e] /\ cell[d][e] = db[e]
        BY DEF SettledRows
    <2>1. shown[d] = db /\ mainq[d] = <<>> /\ cell[d] = list[d]
        BY <1>4 DEF SettledShowsServer, Settled, RowsFollow
    <2>2. db \in Snapshot /\ db # Unknown /\ now \in Nat
        BY <1>4, UnknownAssumption, TimeAssumption
           DEF TabInv, TypeInv, SyncTypeOK, TypeOK, Snapshot, Entry, Time
    <2>3. PICK t \in 0..now : list[d] = [e \in StartingFrom(db, t) |-> db[e]]
        BY <1>4, <2>1, <2>2 DEF RowsFollow, FilteredAt
    <2>4. \A e \in Event : (db[e] # Absent /\ db[e].start >= now) => e \in StartingFrom(db, t)
        <3>1. ASSUME NEW e \in Event, db[e] # Absent, db[e].start >= now PROVE db[e].start >= t
            <4>1. db[e].start \in Nat
                BY <2>2, <3>1, ValAssumption, TimeAssumption
                   DEF Snapshot, Entry, Event, EventVal, Time
            <4> QED BY <2>2, <3>1, <4>1
        <3> QED BY <3>1 DEF StartingFrom
    <2> QED BY <2>1, <2>3, <2>4
<1> QED BY <1>1, <1>2, <1>3, <1>4, PTL DEF Spec

-----------------------------------------------------------------------------
(* No answer is lost without a reason.  Of an event outside clash at most  *)
(* one device has writes on their way; the youngest of them carries the    *)
(* last answers, the youngest the server has dealt with is what the server *)
(* holds, and none of them touches the entry of another player.            *)

OneWriter(e) ==
    \A d, x \in Device : PendingOn(d, e) /\ PendingOn(x, e) => d = x

ServerHasLast(e) ==
    (\A d \in Device : ~PendingOn(d, e)) => StatusAt(e) = last[e]

YoungestIsLast(e) ==
    \A d \in Device : \A i \in On(Waiting(d), e) :
        (\A j \in On(Waiting(d), e) : j <= i) => Waiting(d)[i].val.status = last[e]

ServerHasHandled(e) ==
    \A d \in Device : \A i \in On(Waiting(d), e) :
        (i <= Handled(d) /\ \A j \in On(Waiting(d), e) : j <= Handled(d) => j <= i)
            => db[e] = Waiting(d)[i].val

OthersUntouched(e) ==
    \A d \in Device : \A i \in On(Waiting(d), e) : \A p \in Player \ {OwnerOf[d]} :
        /\ StatusAt(e)[p] = last[e][p]
        /\ Waiting(d)[i].val.status[p] = last[e][p]

NewIsUntouched(e) ==
    made[e] = Absent =>
        /\ db[e] = Absent /\ last[e] = NoStatus
        /\ \A d \in Device : ~PendingOn(d, e)

Kept(e) ==
    /\ OneWriter(e)
    /\ ServerHasLast(e)
    /\ YoungestIsLast(e)
    /\ ServerHasHandled(e)
    /\ OthersUntouched(e)
    /\ NewIsUntouched(e)

KeptInv == \A e \in Event \ clash : Kept(e)

\* The writes without an answer, and the steps that leave them alone.
LEMMA WaitingSeq ==
    ASSUME TypeInv, NEW x \in Device
    PROVE  /\ Waiting(x) \in Seq(Put) /\ Len(Waiting(x)) \in Nat
           /\ Handled(x) \in Nat /\ Handled(x) <= Len(Waiting(x))
<1>1. /\ SyncTypeOK /\ held[x] <= Len(puts[x])
      /\ Handled(x) <= Len(Waiting(x))
    BY DEF TypeInv, AnswersHaveWrites
<1>2. Handled(x) \in Nat
    BY <1>1, AcksFinite DEF SyncTypeOK, Handled
<1> QED BY <1>1, <1>2, WaitingType

LEMMA NothingWaits == SubSeq(<<>>, 0 + 1, Len(<<>>)) = <<>>
<1>1. PICK ps \in Seq(Put) : ps = <<>> /\ Len(ps) = 0
    BY EmptySeq
<1>2. PICK h \in Nat : h = 0
    OBVIOUS
<1>3. Rest(ps, h) = ps
    <2>1. h <= Len(ps)
        BY <1>1, <1>2
    <2>2. h = 0 => Rest(ps, h) = ps
        BY <2>1, RestProperties
    <2> QED BY <1>2, <2>2
<1>4. SubSeq(ps, h + 1, Len(ps)) = ps
    BY <1>3 DEF Rest
<1> QED BY <1>1, <1>2, <1>4

LEMMA WaitingStays ==
    ASSUME UNCHANGED <<puts, held>>
    PROVE  \A x \in Device : Waiting(x)' = Waiting(x)
    BY DEF Waiting

\* Where the writes of an event are after one more write, and after the
\* oldest is answered.
LEMMA OnAppend ==
    ASSUME NEW ps \in Seq(Put), NEW p \in Put, NEW e
    PROVE  /\ On(Append(ps, p), e) = On(ps, e) \cup (IF p.key = e THEN {Len(ps) + 1} ELSE {})
           /\ \A i \in On(ps, e) : Append(ps, p)[i] = ps[i] /\ i \in 1..Len(ps)
           /\ Append(ps, p)[Len(ps) + 1] = p
           /\ Len(ps) \in Nat
<1>1. /\ DOMAIN Append(ps, p) = 1..(Len(ps) + 1)
      /\ DOMAIN ps = 1..Len(ps) /\ Len(ps) \in Nat
      /\ \A i \in 1..Len(ps) : Append(ps, p)[i] = ps[i]
      /\ Append(ps, p)[Len(ps) + 1] = p
    BY AppendProperties, LenProperties
<1>2. 1..(Len(ps) + 1) = 1..Len(ps) \cup {Len(ps) + 1}
    BY <1>1
<1>3. On(Append(ps, p), e) = On(ps, e) \cup (IF p.key = e THEN {Len(ps) + 1} ELSE {})
    BY <1>1, <1>2 DEF On
<1> QED BY <1>1, <1>3 DEF On

LEMMA OnTail ==
    ASSUME NEW ps \in Seq(Put), ps # <<>>, NEW e
    PROVE  /\ \A i \in On(Tail(ps), e) : /\ i \in Nat /\ i >= 1 /\ i + 1 \in On(ps, e)
                                         /\ Tail(ps)[i] = ps[i + 1]
           /\ \A i \in On(ps, e) : /\ i \in Nat /\ i >= 1
                                   /\ i = 1 \/ i - 1 \in On(Tail(ps), e)
<1>1. /\ DOMAIN ps = 1..Len(ps) /\ Len(ps) \in Nat \ {0}
      /\ DOMAIN Tail(ps) = 1..(Len(ps) - 1)
      /\ \A i \in 1..(Len(ps) - 1) : Tail(ps)[i] = ps[i + 1]
    BY HeadTailProperties, LenProperties, EmptySeq
<1>2. ASSUME NEW i \in On(Tail(ps), e)
      PROVE  i \in Nat /\ i >= 1 /\ i + 1 \in On(ps, e) /\ Tail(ps)[i] = ps[i + 1]
    <2>1. i \in 1..(Len(ps) - 1) /\ Tail(ps)[i].key = e
        BY <1>1 DEF On
    <2>2. i + 1 \in 1..Len(ps) /\ Tail(ps)[i] = ps[i + 1]
        BY <1>1, <2>1
    <2> QED BY <1>1, <2>1, <2>2 DEF On
<1>3. ASSUME NEW i \in On(ps, e), i # 1
      PROVE  i - 1 \in On(Tail(ps), e)
    <2>1. i \in 1..Len(ps) /\ ps[i].key = e
        BY <1>1 DEF On
    <2>2. i - 1 \in 1..(Len(ps) - 1) /\ (i - 1) + 1 = i
        BY <1>1, <1>3, <2>1
    <2>3. Tail(ps)[i - 1] = ps[i]
        BY <1>1, <2>2
    <2> QED BY <1>1, <2>1, <2>2, <2>3 DEF On
<1>4. \A i \in On(ps, e) : i \in Nat /\ i >= 1
    BY <1>1 DEF On
<1> QED BY <1>2, <1>3, <1>4

\* An event whose writes, server copy and answers a step leaves alone: of
\* the writes the server has dealt with either none is forgotten or all are.
LEMMA KeptAlone ==
    ASSUME NEW e \in Event, Kept(e),
           db'[e] = db[e], last'[e] = last[e], made'[e] = made[e],
           \A x \in Device :
               /\ On(Waiting(x)', e) = On(Waiting(x), e)
               /\ \A i \in On(Waiting(x), e) : Waiting(x)'[i] = Waiting(x)[i]
               /\ \/ \A i \in On(Waiting(x), e) : i <= Handled(x)' <=> i <= Handled(x)
                  \/ \A i \in On(Waiting(x), e) : ~(i <= Handled(x)')
    PROVE  Kept(e)'
<1>1. \A x \in Device : PendingOn(x, e)' <=> PendingOn(x, e)
    BY DEF PendingOn
<1>2. StatusAt(e)' = StatusAt(e)
    BY DEF StatusAt, NoStatus
<1>3. OneWriter(e)'
    BY <1>1 DEF Kept, OneWriter
<1>4. ServerHasLast(e)'
    BY <1>1, <1>2 DEF Kept, ServerHasLast
<1>5. YoungestIsLast(e)'
    BY DEF Kept, YoungestIsLast
<1>6. ServerHasHandled(e)'
    <2> SUFFICES ASSUME NEW x \in Device, NEW i \in On(Waiting(x)', e), i <= Handled(x)',
                        \A j \in On(Waiting(x)', e) : j <= Handled(x)' => j <= i
                 PROVE  db'[e] = Waiting(x)'[i].val
        BY DEF ServerHasHandled
    <2> QED BY DEF Kept, ServerHasHandled
<1>7. OthersUntouched(e)'
    BY <1>2 DEF Kept, OthersUntouched
<1>8. NewIsUntouched(e)'
    BY <1>1 DEF Kept, NewIsUntouched, NoStatus
<1> QED BY <1>3, <1>4, <1>5, <1>6, <1>7, <1>8 DEF Kept

\* A write made from an up-to-date copy, or the first one of a new event.
LEMMA KeptPut ==
    ASSUME TabInv, NEW e \in Event, Kept(e), NEW d \in Device, NEW v \in EventVal,
           SetValue(d, e, v), made'[e] # Absent,
           \A x \in Device \ {d} : ~PendingOn(x, e),
           v.status = last'[e],
           \A p \in Player \ {OwnerOf[d]} : last'[e][p] = last[e][p] /\ StatusAt(e)[p] = last[e][p]
    PROVE  Kept(e)'
<1> DEFINE w == [key |-> e, val |-> v]
           n == Len(Waiting(d)) + 1
<1>1. /\ Waiting(d) \in Seq(Put)
      /\ w \in Put
      /\ Handled(d) <= Len(Waiting(d)) /\ Handled(d) \in Nat
    BY WaitingSeq, ValAssumption DEF TabInv, Put, Event
<1>2. /\ Waiting(d)' = Append(Waiting(d), w)
      /\ \A x \in Device \ {d} : Waiting(x)' = Waiting(x)
      /\ db' = db /\ down' = down
    <2>1. e \in Key /\ v \in Val /\ TypeInv
        BY ValAssumption DEF Event, TabInv
    <2> QED BY <2>1, WriteWaits DEF SetValue, wire
<1>3. /\ On(Waiting(d)', e) = On(Waiting(d), e) \cup {n}
      /\ \A i \in On(Waiting(d), e) : Waiting(d)'[i] = Waiting(d)[i] /\ i \in 1..Len(Waiting(d))
      /\ Waiting(d)'[n] = w
      /\ Len(Waiting(d)) \in Nat
    BY <1>1, <1>2, OnAppend
<1>4. \A x \in Device \ {d} : Waiting(x)' = Waiting(x) /\ On(Waiting(x)', e) = {}
    BY <1>1, <1>2 DEF PendingOn
<1>5. \A x \in Device : Handled(x)' = Handled(x)
    BY <1>2 DEF Handled
<1>6. n \in Nat /\ ~(n <= Handled(d)) /\ \A i \in On(Waiting(d), e) : i <= n /\ i # n
    BY <1>1, <1>3
<1>7. StatusAt(e)' = StatusAt(e)
    BY <1>2 DEF StatusAt, NoStatus
<1>8. w.val = v
    OBVIOUS
<1> HIDE DEF w, n
<1>9. OneWriter(e)' /\ ServerHasLast(e)' /\ NewIsUntouched(e)'
    <2>1. PendingOn(d, e)' /\ \A x \in Device \ {d} : ~PendingOn(x, e)'
        BY <1>3, <1>4 DEF PendingOn
    <2> QED BY <2>1 DEF OneWriter, ServerHasLast, NewIsUntouched
<1>10. YoungestIsLast(e)'
    <2> SUFFICES ASSUME NEW x \in Device, NEW i \in On(Waiting(x)', e),
                        \A j \in On(Waiting(x)', e) : j <= i
                 PROVE  Waiting(x)'[i].val.status = last'[e]
        BY DEF YoungestIsLast
    <2>1. x = d
        BY <1>4
    <2>2. i = n
        <3>1. n <= i /\ n \in Nat
            BY <1>3, <1>6, <2>1
        <3> QED BY <1>3, <1>6, <2>1, <3>1
    <2> QED BY <1>3, <1>8, <2>1, <2>2
<1>11. ServerHasHandled(e)'
    <2> SUFFICES ASSUME NEW x \in Device, NEW i \in On(Waiting(x)', e), i <= Handled(x)',
                        \A j \in On(Waiting(x)', e) : j <= Handled(x)' => j <= i
                 PROVE  db'[e] = Waiting(x)'[i].val
        BY DEF ServerHasHandled
    <2>1. x = d
        BY <1>4
    <2>2. i \in On(Waiting(d), e) /\ i <= Handled(d)
        BY <1>3, <1>5, <1>6, <2>1
    <2>3. \A j \in On(Waiting(d), e) : j <= Handled(d) => j <= i
        BY <1>3, <1>5, <2>1
    <2>4. db[e] = Waiting(d)[i].val
        BY <2>2, <2>3 DEF Kept, ServerHasHandled
    <2> QED BY <1>2, <1>3, <2>1, <2>2, <2>4
<1>12. OthersUntouched(e)'
    <2> SUFFICES ASSUME NEW x \in Device, NEW i \in On(Waiting(x)', e),
                        NEW p \in Player \ {OwnerOf[x]}
                 PROVE  StatusAt(e)'[p] = last'[e][p] /\ Waiting(x)'[i].val.status[p] = last'[e][p]
        BY DEF OthersUntouched
    <2>1. x = d
        BY <1>4
    <2>2. StatusAt(e)'[p] = last'[e][p]
        BY <1>7, <2>1
    <2>3. CASE i = n
        BY <1>3, <1>8, <2>1, <2>2, <2>3
    <2>4. CASE i # n
        <3>1. i \in On(Waiting(d), e)
            BY <1>3, <2>1, <2>4
        <3>2. Waiting(d)[i].val.status[p] = last[e][p]
            BY <2>1, <3>1 DEF Kept, OthersUntouched
        <3> QED BY <1>3, <2>1, <2>2, <3>1, <3>2
    <2> QED BY <2>3, <2>4
<1> QED BY <1>9, <1>10, <1>11, <1>12 DEF Kept

\* The server takes the next write of the event.
LEMMA KeptApply ==
    ASSUME TabInv, NEW d \in Device, ServerApply(d), NEW e \in Event,
           e = NextPut(d).key, Kept(e),
           Handled(d)' = Handled(d) + 1, UNCHANGED <<last, made>>
    PROVE  Kept(e)'
<1> DEFINE p == NextPut(d)
           n == Handled(d) + 1
<1>1. /\ p \in Put /\ n \in 1..Len(Waiting(d)) /\ p = Waiting(d)[n] /\ Handled(d) \in Nat
      /\ DOMAIN Waiting(d) = 1..Len(Waiting(d)) /\ Len(Waiting(d)) \in Nat
      /\ db \in Snapshot
    BY NextPutType, LenProperties DEF ServerApply, TabInv, TypeInv, SyncTypeOK
<1>2. /\ \A x \in Device : Waiting(x)' = Waiting(x)
      /\ db' = [db EXCEPT ![e] = p.val]
    BY WaitingStays DEF ServerApply
<1>3. db'[e] = p.val /\ p.val # Absent
    BY <1>1, <1>2, AbsentAssumption DEF Snapshot, Event, Put
<1>4. StatusAt(e)' = p.val.status
    BY <1>3 DEF StatusAt
<1>5. n \in On(Waiting(d), e) /\ n \in Nat
    BY <1>1 DEF On
<1> HIDE DEF p, n
<1>6. \A x \in Device : PendingOn(x, e)' <=> PendingOn(x, e)
    BY <1>2 DEF PendingOn
<1>7. PendingOn(d, e)
    BY <1>5 DEF PendingOn
<1>8. \A x \in Device : x # d => On(Waiting(x), e) = {}
    BY <1>7 DEF Kept, OneWriter, PendingOn
<1>9. OneWriter(e)' /\ ServerHasLast(e)' /\ YoungestIsLast(e)'
    <2>1. OneWriter(e)'
        BY <1>6 DEF Kept, OneWriter
    <2>2. ServerHasLast(e)'
        BY <1>6, <1>7 DEF ServerHasLast
    <2>3. YoungestIsLast(e)'
        BY <1>2 DEF Kept, YoungestIsLast
    <2> QED BY <2>1, <2>2, <2>3
<1>10. NewIsUntouched(e)'
    BY <1>7 DEF Kept, NewIsUntouched
<1>11. ServerHasHandled(e)'
    <2> SUFFICES ASSUME NEW x \in Device, NEW i \in On(Waiting(x)', e), i <= Handled(x)',
                        \A j \in On(Waiting(x)', e) : j <= Handled(x)' => j <= i
                 PROVE  db'[e] = Waiting(x)'[i].val
        BY DEF ServerHasHandled
    <2>1. x = d
        BY <1>2, <1>8
    <2>2. i \in Nat
        BY <1>1, <1>2, <2>1 DEF On
    <2>3. Handled(d)' = n
        BY DEF n
    <2>4. n <= i /\ i <= n
        BY <1>2, <1>5, <2>1, <2>3
    <2>5. i = n
        BY <1>5, <2>2, <2>4
    <2> QED BY <1>1, <1>2, <1>3, <2>1, <2>5
<1>12. OthersUntouched(e)'
    <2> SUFFICES ASSUME NEW x \in Device, NEW i \in On(Waiting(x), e),
                        NEW q \in Player \ {OwnerOf[x]}
                 PROVE  StatusAt(e)'[q] = last[e][q] /\ Waiting(x)[i].val.status[q] = last[e][q]
        BY <1>2 DEF OthersUntouched
    <2>1. x = d
        BY <1>8
    <2>2. Waiting(d)[n].val.status[q] = last[e][q] /\ Waiting(x)[i].val.status[q] = last[e][q]
        BY <1>5, <2>1 DEF Kept, OthersUntouched
    <2> QED BY <1>1, <1>4, <2>2
<1> QED BY <1>9, <1>10, <1>11, <1>12 DEF Kept

\* The answer to the oldest write of a device without one, whether it is
\* held back or lifts the write at once.
LEMMA KeptAck ==
    ASSUME TabInv, NEW d \in Device, RecvAck(d) \/ HoldAck(d), NEW e \in Event, Kept(e),
           UNCHANGED <<last, made>>
    PROVE  Kept(e)'
<1> DEFINE ps == Waiting(d)
           qs == Tail(Waiting(d))
           n  == Handled(d)
<1>1. /\ n \in Nat /\ n >= 1
      /\ Handled(d)' = n - 1
      /\ \A x \in Device \ {d} : Handled(x)' = Handled(x)
      /\ ps \in Seq(Put) /\ ps # <<>>
    BY AnswerHasWrite DEF TabInv
<1>2. /\ \A i \in On(qs, e) : /\ i \in Nat /\ i >= 1 /\ i + 1 \in On(ps, e)
                              /\ qs[i] = ps[i + 1]
      /\ \A i \in On(ps, e) : /\ i \in Nat /\ i >= 1
                              /\ i = 1 \/ i - 1 \in On(qs, e)
    BY <1>1, OnTail
<1>3. db' = db
    BY DEF RecvAck, HoldAck, Receive
<1>4. Waiting(d)' = qs /\ \A x \in Device \ {d} : Waiting(x)' = Waiting(x)
    BY AnswerTaken DEF TabInv
<1> HIDE DEF ps, qs, n
<1>5. StatusAt(e)' = StatusAt(e)
    BY <1>3 DEF StatusAt, NoStatus
<1>6. \A x \in Device : PendingOn(x, e)' => PendingOn(x, e)
    BY <1>2, <1>4 DEF PendingOn, ps
<1>7. OneWriter(e)'
    BY <1>6 DEF Kept, OneWriter
<1>8. NewIsUntouched(e)'
    BY <1>3, <1>6 DEF Kept, NewIsUntouched, NoStatus
<1>9. ServerHasLast(e)'
    <2> SUFFICES ASSUME \A x \in Device : ~PendingOn(x, e)'
                 PROVE  StatusAt(e) = last[e]
        BY <1>5 DEF ServerHasLast
    <2>1. CASE ~PendingOn(d, e)
        <3>1. \A x \in Device : ~PendingOn(x, e)
            BY <1>4, <2>1 DEF PendingOn
        <3> QED BY <3>1 DEF Kept, ServerHasLast
    <2>2. CASE PendingOn(d, e)
        <3>1. On(qs, e) = {} /\ On(ps, e) # {}
            BY <1>4, <2>2 DEF PendingOn, ps
        <3>2. On(ps, e) = {1}
            BY <1>2, <3>1
        <3>3. ps[1].val.status = last[e]
            BY <3>2 DEF Kept, YoungestIsLast, ps
        <3>4. db[e] = ps[1].val
            BY <1>1, <3>2 DEF Kept, ServerHasHandled, ps, n
        <3>5. ps[1] \in Put
            <4>1. 1 \in 1..Len(ps)
                BY <1>1, EmptySeq
            <4> QED BY <1>1, <4>1, ElementOfSeq
        <3>6. db[e] # Absent
            BY <3>4, <3>5, AbsentAssumption DEF Put
        <3> QED BY <3>3, <3>4, <3>6 DEF StatusAt
    <2> QED BY <2>1, <2>2
<1>10. YoungestIsLast(e)'
    <2> SUFFICES ASSUME NEW x \in Device, NEW i \in On(Waiting(x)', e),
                        \A j \in On(Waiting(x)', e) : j <= i
                 PROVE  Waiting(x)'[i].val.status = last[e]
        BY DEF YoungestIsLast
    <2>1. CASE x # d
        BY <1>4, <2>1 DEF Kept, YoungestIsLast
    <2>2. CASE x = d
        <3>1. i \in On(qs, e) /\ \A j \in On(qs, e) : j <= i
            BY <1>4, <2>2
        <3>2. i \in Nat /\ i + 1 \in On(ps, e) /\ qs[i] = ps[i + 1]
            BY <1>2, <3>1
        <3>3. ASSUME NEW j \in On(ps, e) PROVE j <= i + 1
            <4>1. j \in Nat /\ (j = 1 \/ j - 1 <= i)
                BY <1>2, <3>1
            <4> QED BY <3>2, <4>1
        <3>4. ps[i + 1].val.status = last[e]
            BY <3>2, <3>3 DEF Kept, YoungestIsLast, ps
        <3> QED BY <1>4, <2>2, <3>2, <3>4
    <2> QED BY <2>1, <2>2
<1>11. ServerHasHandled(e)'
    <2> SUFFICES ASSUME NEW x \in Device, NEW i \in On(Waiting(x)', e), i <= Handled(x)',
                        \A j \in On(Waiting(x)', e) : j <= Handled(x)' => j <= i
                 PROVE  db[e] = Waiting(x)'[i].val
        BY <1>3 DEF ServerHasHandled
    <2>1. CASE x # d
        BY <1>1, <1>4, <2>1 DEF Kept, ServerHasHandled
    <2>2. CASE x = d
        <3>1. i \in On(qs, e) /\ i <= n - 1 /\ \A j \in On(qs, e) : j <= n - 1 => j <= i
            BY <1>1, <1>4, <2>2
        <3>2. i \in Nat /\ i + 1 \in On(ps, e) /\ qs[i] = ps[i + 1] /\ i + 1 <= n
            BY <1>1, <1>2, <3>1
        <3>3. ASSUME NEW j \in On(ps, e), j <= n PROVE j <= i + 1
            <4>1. j \in Nat /\ (j = 1 \/ (j - 1 \in On(qs, e) /\ j - 1 <= n - 1))
                BY <1>1, <1>2, <3>3
            <4>2. j = 1 \/ j - 1 <= i
                BY <3>1, <4>1
            <4> QED BY <3>2, <4>1, <4>2
        <3>4. db[e] = ps[i + 1].val
            BY <3>2, <3>3 DEF Kept, ServerHasHandled, ps, n
        <3> QED BY <1>4, <2>2, <3>2, <3>4
    <2> QED BY <2>1, <2>2
<1>12. OthersUntouched(e)'
    <2> SUFFICES ASSUME NEW x \in Device, NEW i \in On(Waiting(x)', e),
                        NEW q \in Player \ {OwnerOf[x]}
                 PROVE  StatusAt(e)[q] = last[e][q] /\ Waiting(x)'[i].val.status[q] = last[e][q]
        BY <1>5 DEF OthersUntouched
    <2>1. CASE x # d
        BY <1>4, <2>1 DEF Kept, OthersUntouched
    <2>2. CASE x = d
        <3>1. i + 1 \in On(ps, e) /\ Waiting(x)'[i] = ps[i + 1]
            BY <1>2, <1>4, <2>2
        <3> QED BY <2>2, <3>1 DEF Kept, OthersUntouched, ps
    <2> QED BY <2>1, <2>2
<1> QED BY <1>7, <1>8, <1>9, <1>10, <1>11, <1>12 DEF Kept

\* How far the server has come with the writes of a device.
LEMMA HandledApply ==
    ASSUME TypeInv, NEW d \in Device, ServerApply(d) \/ ServerReject(d)
    PROVE  \A x \in Device : Handled(x)' = Handled(x) + (IF x = d THEN 1 ELSE 0)
<1>1. NextPut(d) \in Put /\ SyncTypeOK
    BY NextPutType DEF ServerApply, ServerReject, TypeInv
<1>2. ASSUME NEW ok \in BOOLEAN, down' = [x \in Device |-> Push(d, NextPut(d), ok, x)],
             NEW x \in Device
      PROVE  Handled(x)' = Handled(x) + (IF x = d THEN 1 ELSE 0)
    <2>1. Cardinality(Acks(Push(d, NextPut(d), ok, x))) =
              Handled(x) + (IF x = d THEN 1 ELSE 0)
        BY <1>1, PushCount
    <2> QED BY <1>2, <2>1 DEF Handled
<1>3. CASE ServerApply(d)
    BY <1>2, <1>3 DEF ServerApply
<1>4. CASE ServerReject(d)
    BY <1>2, <1>4 DEF ServerReject
<1> QED BY <1>3, <1>4

LEMMA HandledClosed ==
    ASSUME TypeInv, NEW d \in Device, CloseWire(d)
    PROVE  /\ Handled(d)' = 0
           /\ \A x \in Device \ {d} : Handled(x)' = Handled(x)
    BY AcksEmpty DEF CloseWire, Handled, TypeInv, SyncTypeOK

LEMMA HandledListen ==
    ASSUME TypeInv, NEW d \in Device, ServerListen(d)
    PROVE  \A x \in Device : Handled(x)' = Handled(x)
<1> DEFINE m == [kind |-> "init", snap |-> db]
<1>1. m \in Message /\ m.kind # "ack" /\ down \in [Device -> Seq(Message)]
    BY DEF Message, InitMsg, TypeInv, SyncTypeOK
<1>2. down' = [down EXCEPT ![d] = Append(@, m)]
    BY DEF ServerListen
<1> HIDE DEF m
<1>3. Cardinality(Acks(Append(down[d], m))) = Cardinality(Acks(down[d]))
    BY <1>1, AcksAppend, AcksFinite
<1> QED BY <1>1, <1>2, <1>3 DEF Handled

LEMMA KeptStep ==
    ASSUME TabInv, TabInv', KeptInv, [Next]_vars
    PROVE  KeptInv'
<1> SUFFICES ASSUME NEW e \in Event \ clash' PROVE Kept(e)'
    BY DEF KeptInv
<1>1. /\ TypeInv /\ TypeOK
      /\ \A x \in Device : Waiting(x) \in Seq(Put)
      /\ cell \in [Device -> Rows]
      /\ made \in [Event -> Time \cup {Absent}]
      /\ last \in [Event -> [Player -> Answer \cup {"none"}]]
      /\ clash \in SUBSET Event
      /\ db \in Snapshot
      /\ OwnerOf \in [Device -> Player]
      /\ \A x \in Device : Handled(x) \in Nat
    BY OwnerAssumption, WaitingSeq DEF TabInv, TypeInv, TypeOK, SyncTypeOK
<1>2. \A x \in Device : \A i \in On(Waiting(x), e) : i \in Nat /\ i >= 1
    BY <1>1, LenProperties DEF On
\* The steps in which the tab and the server do nothing to an event.
<1>3. ASSUME Kept(e), UNCHANGED <<db, last, made>>,
             \A x \in Device : Waiting(x)' = Waiting(x),
             \A x \in Device : Handled(x)' = Handled(x) \/ Handled(x)' = 0
      PROVE  Kept(e)'
    <2>1. \A x \in Device :
               \/ \A i \in On(Waiting(x), e) : i <= Handled(x)' <=> i <= Handled(x)
               \/ \A i \in On(Waiting(x), e) : ~(i <= Handled(x)')
        BY <1>2, <1>3
    <2> QED BY <1>3, <2>1, KeptAlone
<1>4. CASE UNCHANGED vars
    <2>1. UNCHANGED <<db, puts, held, last, made, down, clash>>
        BY <1>4 DEF vars, syncVars, wire, history
    <2> QED BY <1>3, <2>1, WaitingStays DEF Handled, KeptInv
<1>5. CASE Tick
    <2>1. UNCHANGED <<db, puts, held, last, made, down, clash>>
        BY <1>5 DEF Tick, syncVars, wire, history
    <2> QED BY <1>3, <2>1, WaitingStays DEF Handled, KeptInv
<1>6. ASSUME NEW d \in Device, \/ LoadEvents(d) \/ FetchEvents(d)
                               \/ \E x \in Event : RedrawCell(d, x)
      PROVE  Kept(e)'
    <2>1. UNCHANGED <<db, puts, held, last, made, down, clash>>
        BY <1>6 DEF LoadEvents, FetchEvents, RedrawCell, Observe, Deliver, syncVars, wire, history
    <2> QED BY <1>3, <2>1, WaitingStays DEF Handled, KeptInv
\* A put on another event, or on this one.
<1>7. ASSUME NEW d \in Device, NEW f \in Event, f # e, NEW v \in EventVal, SetValue(d, f, v),
             Kept(e), last'[e] = last[e], made'[e] = made[e]
      PROVE  Kept(e)'
    <2> DEFINE w == [key |-> f, val |-> v]
    <2>1. w \in Put /\ w.key # e
        BY <1>7, ValAssumption DEF Put, Event
    <2>2. /\ Waiting(d)' = Append(Waiting(d), w)
          /\ \A x \in Device \ {d} : Waiting(x)' = Waiting(x)
          /\ db' = db /\ down' = down
        <3>1. f \in Key /\ v \in Val
            BY ValAssumption DEF Event
        <3> QED BY <1>1, <1>7, <3>1, WriteWaits DEF SetValue, wire
    <2> HIDE DEF w
    <2>3. \A x \in Device : /\ On(Waiting(x)', e) = On(Waiting(x), e)
                            /\ \A i \in On(Waiting(x), e) : Waiting(x)'[i] = Waiting(x)[i]
        <3>1. /\ On(Append(Waiting(d), w), e) = On(Waiting(d), e)
              /\ \A i \in On(Waiting(d), e) : Append(Waiting(d), w)[i] = Waiting(d)[i]
            <4>1. Waiting(d) \in Seq(Put)
                BY <1>1
            <4>2. /\ On(Append(Waiting(d), w), e) =
                         On(Waiting(d), e) \cup (IF w.key = e THEN {Len(Waiting(d)) + 1} ELSE {})
                  /\ \A i \in On(Waiting(d), e) : Append(Waiting(d), w)[i] = Waiting(d)[i]
                BY <2>1, <4>1, OnAppend
            <4> QED BY <2>1, <4>2
        <3> QED BY <2>2, <3>1
    <2>4. \A x \in Device : Handled(x)' = Handled(x)
        BY <2>2 DEF Handled
    <2> QED BY <1>7, <2>2, <2>3, <2>4, KeptAlone
<1>8. ASSUME NEW d \in Device, NEW f \in Event, NEW answer \in Answer, Swipe(d, f, answer)
      PROVE  Kept(e)'
    <2> DEFINE v == [cell[d][f] EXCEPT !.status[OwnerOf[d]] = answer]
               o == OwnerOf[d]
    <2>1. /\ f \in DOMAIN cell[d] /\ SetValue(d, f, v)
          /\ clash' = IF UpToDate(d, f, cell[d][f]) THEN clash ELSE clash \cup {f}
          /\ last' = [last EXCEPT ![f][o] = answer]
          /\ made' = made
        BY <1>8 DEF Swipe, UpdateEvent
    <2>2. cell[d][f] \in EventVal /\ v \in EventVal
        BY <1>1, <2>1, AnswerType DEF Rows
    <2>3. /\ v.status = [cell[d][f].status EXCEPT ![o] = answer]
          /\ cell[d][f].status \in [Player -> Answer \cup {"none"}]
        BY <2>2 DEF EventVal
    <2> HIDE DEF v
    <2>4. e \notin clash
        BY <2>1
    <2>5. Kept(e)
        BY <2>4 DEF KeptInv
    <2>6. CASE f # e
        BY <1>1, <1>7, <2>1, <2>2, <2>5, <2>6
    <2>7. CASE f = e
        <3>1. UpToDate(d, e, cell[d][e])
            BY <2>1, <2>7
        <3>2. \A x \in Device \ {d} : ~PendingOn(x, e)
            BY <3>1 DEF UpToDate
        <3>3. \A p \in Player \ {o} : StatusAt(e)[p] = last[e][p]
            <4>1. CASE PendingOn(d, e)
                BY <2>5, <4>1 DEF Kept, OthersUntouched, PendingOn
            <4>2. CASE ~PendingOn(d, e)
                BY <2>5, <3>2, <4>2 DEF Kept, ServerHasLast
            <4> QED BY <4>1, <4>2
        <3>4. \A p \in Player \ {o} : cell[d][e].status[p] = last[e][p]
            BY <3>1, <3>3 DEF UpToDate
        <3>5. last'[e] = [last[e] EXCEPT ![o] = answer]
            BY <1>1, <2>1, <2>7
        <3>6. v.status = last'[e]
            <4>1. /\ v.status \in [Player -> Answer \cup {"none"}]
                  /\ last'[e] \in [Player -> Answer \cup {"none"}]
                BY <1>1, <2>3, <2>7, <3>5
            <4>2. \A p \in Player : v.status[p] = last'[e][p]
                BY <1>1, <2>3, <2>7, <3>4, <3>5
            <4> QED BY <4>1, <4>2
        <3>7. \A p \in Player \ {o} : last'[e][p] = last[e][p]
            BY <1>1, <3>5
        <3>8. made[e] # Absent
            <4>1. RowsIn(cell[d], Dates)
                BY DEF TabInv, Dated, ScreenCopies
            <4>2. cell[d][e].start = made[e]
                BY <2>1, <2>7, <4>1 DEF RowsIn, Dates
            <4> QED BY <2>2, <2>7, <4>2, TimeAssumption DEF EventVal
        <3> QED BY <2>1, <2>2, <2>5, <2>7, <3>2, <3>3, <3>6, <3>7, <3>8, KeptPut
    <2> QED BY <2>6, <2>7
<1>9. ASSUME NEW d \in Device, NEW f \in Event, NEW start \in Time, AddEvent(d, f, start)
      PROVE  Kept(e)'
    <2> DEFINE v == [start |-> start, status |-> NoStatus]
    <2>1. /\ made[f] = Absent /\ SetValue(d, f, v)
          /\ made' = [made EXCEPT ![f] = start]
          /\ UNCHANGED <<last, clash>>
        BY <1>9 DEF AddEvent, history
    <2>2. v \in EventVal /\ v.status = NoStatus
        BY DEF EventVal, NoStatus
    <2> HIDE DEF v
    <2>3. Kept(e)
        BY <2>1 DEF KeptInv
    <2>4. CASE f # e
        BY <1>1, <1>7, <2>1, <2>2, <2>3, <2>4
    <2>5. CASE f = e
        <3>1. db[e] = Absent /\ last[e] = NoStatus /\ \A x \in Device : ~PendingOn(x, e)
            BY <2>1, <2>3, <2>5 DEF Kept, NewIsUntouched
        <3>2. made'[e] # Absent
            BY <1>1, <2>1, <2>5, TimeAssumption
        <3> QED BY <2>1, <2>2, <2>3, <2>5, <3>1, <3>2, KeptPut DEF StatusAt
    <2> QED BY <2>4, <2>5
\* The connection and the server.
<1>10. ASSUME NEW d \in Device, Background(d), UNCHANGED <<made, history>> PROVE Kept(e)'
    <2>1. Kept(e) /\ UNCHANGED <<last, made>>
        BY <1>10 DEF KeptInv, history
    <2>2. CASE RecvAck(d) \/ HoldAck(d)
        BY <2>1, <2>2, KeptAck
    <2>3. CASE RecvInit(d) \/ RecvData(d)
        <3>1. db' = db /\ \A x \in Device : Waiting(x)' = Waiting(x)
            BY <2>3, WaitingStays DEF RecvInit, RecvData, Receive
        <3>2. PICK kind \in {"init", "data"} : Receive(d, kind)
            BY <2>3 DEF RecvInit, RecvData
        <3>3. \A x \in Device : /\ Handled(x)' = Handled(x) - (IF x = d /\ kind = "ack" THEN 1 ELSE 0)
                                /\ Handled(x) \in Nat
            BY <1>1, <3>2, MessageTaken
        <3>4. \A x \in Device : Handled(x)' = Handled(x)
            BY <3>3
        <3> QED BY <1>3, <2>1, <3>1, <3>4
    <2>4. CASE Connect(d)
        BY <1>3, <2>1, <2>4, WaitingStays DEF Connect, Handled
    <2>5. CASE Disconnect(d)
        BY <1>1, <1>3, <2>1, <2>5, HandledClosed, WaitingStays DEF Disconnect
    <2>6. CASE ServerListen(d)
        BY <1>1, <1>3, <2>1, <2>6, HandledListen, WaitingStays DEF ServerListen
    <2>7. CASE AckPuts(d)
        <3>1. db' = db /\ \A x \in Device : Handled(x)' = Handled(x)
            BY <2>7 DEF AckPuts, Handled
        <3>2. \A x \in Device : Waiting(x)' = Waiting(x)
            BY <1>1, <2>7, AnswersLifted
        <3> QED BY <1>3, <2>1, <3>1, <3>2
    <2> QED BY <1>10, <2>2, <2>3, <2>4, <2>5, <2>6, <2>7 DEF Background
\* The server deals with a put on this event, or on another one.
<1>11. ASSUME NEW d \in Device, ServerApply(d) \/ ServerReject(d), UNCHANGED <<made, last>>,
              Kept(e), NextPut(d).key # e
       PROVE  Kept(e)'
    <2>1. /\ NextPut(d) \in Put
          /\ Handled(d) + 1 \in 1..Len(Waiting(d)) /\ NextPut(d) = Waiting(d)[Handled(d) + 1]
        BY <1>1, <1>11, NextPutType DEF ServerApply, ServerReject
    <2>2. db'[e] = db[e] /\ \A x \in Device : Waiting(x)' = Waiting(x)
        BY <1>1, <1>11, <2>1, WaitingStays DEF ServerApply, ServerReject, Snapshot, Event
    <2>3. Handled(d) + 1 \notin On(Waiting(d), e)
        BY <1>11, <2>1 DEF On
    <2>4. \A x \in Device : \A i \in On(Waiting(x), e) : i <= Handled(x)' <=> i <= Handled(x)
        <3> SUFFICES ASSUME NEW x \in Device, NEW i \in On(Waiting(x), e)
                     PROVE  i <= Handled(x)' <=> i <= Handled(x)
            OBVIOUS
        <3>1. Handled(x)' = Handled(x) + (IF x = d THEN 1 ELSE 0)
            BY <1>1, <1>11, HandledApply
        <3>2. i \in Nat /\ Handled(x) \in Nat /\ (x = d => i # Handled(x) + 1)
            BY <1>1, <1>2, <2>3
        <3> QED BY <3>1, <3>2
    <2> QED BY <1>11, <2>2, <2>4, KeptAlone
<1>12. ASSUME NEW d \in Device, Underneath(d) PROVE Kept(e)'
    <2>1. CASE Background(d)
        BY <1>10, <1>12, <2>1 DEF Underneath, TabAlone
    <2>2. CASE ServerApply(d)
        <3>1. Kept(e) /\ UNCHANGED <<last, made>>
            BY <1>12 DEF Underneath, TabAlone, KeptInv, history
        <3>2. Handled(d)' = Handled(d) + 1
            BY <1>1, <2>2, HandledApply
        <3>3. CASE NextPut(d).key = e
            BY <2>2, <3>1, <3>2, <3>3, KeptApply
        <3> QED BY <1>11, <2>2, <3>1, <3>3
    <2> QED BY <1>12, <2>1, <2>2 DEF Underneath
<1>13. ASSUME NEW d \in Device, Refuse(d) PROVE Kept(e)'
    <2>1. NextPut(d).key # e /\ e \notin clash /\ UNCHANGED <<made, last>> /\ ServerReject(d)
        BY <1>13 DEF Refuse
    <2> QED BY <1>11, <2>1 DEF KeptInv
<1>14. ASSUME NEW d \in Device, KillApp(d) PROVE Kept(e)'
    <2>1. /\ ~PendingOn(d, e) /\ e \notin clash
          /\ CloseWire(d) /\ db' = db
          /\ puts' = [puts EXCEPT ![d] = <<>>]
          /\ held' = [held EXCEPT ![d] = 0]
          /\ UNCHANGED <<made, last>>
        BY <1>14 DEF KillApp, Kill
    <2>2. On(<<>>, e) = {} /\ On(Waiting(d), e) = {}
        BY <2>1 DEF On, PendingOn
    <2>3. Waiting(d)' = <<>> /\ \A x \in Device \ {d} : Waiting(x)' = Waiting(x)
        <3>1. /\ puts \in [Device -> Seq(Put)] /\ held \in [Device -> Nat]
            BY <1>1 DEF TypeOK, SyncTypeOK
        <3>2. puts'[d] = <<>> /\ held'[d] = 0
            BY <2>1, <3>1
        <3>3. Waiting(d)' = <<>>
            BY <3>2, NothingWaits DEF Waiting
        <3>4. \A x \in Device \ {d} : puts'[x] = puts[x] /\ held'[x] = held[x]
            BY <2>1, <3>1
        <3> QED BY <3>3, <3>4 DEF Waiting
    <2>4. \A x \in Device : On(Waiting(x)', e) = On(Waiting(x), e)
        BY <2>2, <2>3
    <2>5. \A x \in Device : \A i \in On(Waiting(x), e) :
              Waiting(x)'[i] = Waiting(x)[i] /\ Handled(x)' = Handled(x)
        BY <1>1, <2>1, <2>2, <2>3, HandledClosed
    <2>6. Kept(e)
        BY <2>1 DEF KeptInv
    <2> QED BY <2>1, <2>4, <2>5, <2>6, KeptAlone
<1> QED BY <1>4, <1>5, <1>6, <1>8, <1>9, <1>12, <1>13, <1>14 DEF Next, Step

\* An answer a player gave from an up-to-date copy, whose write was neither
\* refused nor killed, is on the server once nobody's write to the event is
\* left, however often the writes were sent again and in whatever order
\* those of several devices arrived.
THEOREM AnswersKeptCorrect == Spec => []AnswersKept
<1>1. Init => KeptInv
    <2> SUFFICES ASSUME Init, NEW e \in Event PROVE Kept(e)
        BY DEF KeptInv
    <2>1. \A d \in Device : Waiting(d) = <<>> /\ On(Waiting(d), e) = {}
        <3>1. \A d \in Device : puts[d] = <<>> /\ held[d] = 0
            BY DEF Init, SyncInit
        <3>2. \A d \in Device : Waiting(d) = <<>>
            BY <3>1, NothingWaits DEF Waiting
        <3> QED BY <3>2 DEF On
    <2>2. \A d \in Device : ~PendingOn(d, e)
        BY <2>1 DEF PendingOn
    <2>3. db[e] = Absent /\ last[e] = NoStatus
        BY DEF Init, SyncInit, Event
    <2> QED BY <2>1, <2>2, <2>3 DEF Kept, OneWriter, ServerHasLast, YoungestIsLast,
                ServerHasHandled, OthersUntouched, NewIsUntouched, StatusAt
<1>2. KeptInv => AnswersKept
    BY DEF KeptInv, Kept, ServerHasLast, AnswersKept
<1> QED BY <1>1, <1>2, KeptStep, TabInvCorrect, PTL DEF Spec

-----------------------------------------------------------------------------
(* The tabs implement EventRegister.  Every copy on the server's side is a *)
(* version the event has had, every copy on a device is one of those, or   *)
(* an event as it was created, with at most the own player's entry changed *)
(* since.                                                                  *)

Bases(e) == past[e] \cup {[start |-> t, status |-> NoStatus] : t \in Time}
Answered(v, p) == {[v EXCEPT !.status[p] = a] : a \in Answer}
Derived(d, e) == Bases(e) \cup UNION {Answered(v, OwnerOf[d]) : v \in Bases(e)}

PastInv ==
    /\ past \in [Event -> SUBSET EventVal]
    /\ \A e \in Event : past[e] \subseteq Dates[e]
    /\ ServerCopies(past)
    /\ ScreenCopies([d \in Device |-> [e \in Event |-> Derived(d, e)]])

LEMMA BasesType ==
    ASSUME past \in [Event -> SUBSET EventVal], NEW e \in Event
    PROVE  Bases(e) \subseteq EventVal
    BY DEF Bases, EventVal, NoStatus

\* A second answer takes the place of the first.
LEMMA AnsweredAgain ==
    ASSUME past \in [Event -> SUBSET EventVal], NEW d \in Device, NEW e \in Event,
           NEW v \in Derived(d, e), NEW a \in Answer
    PROVE  [v EXCEPT !.status[OwnerOf[d]] = a] \in Derived(d, e)
<1>1. CASE v \in Bases(e)
    BY <1>1 DEF Derived, Answered
<1>2. CASE v \notin Bases(e)
    <2>1. PICK u \in Bases(e), b \in Answer : v = [u EXCEPT !.status[OwnerOf[d]] = b]
        BY <1>2 DEF Derived, Answered
    <2>2. u \in EventVal
        BY BasesType
    <2>3. [v EXCEPT !.status[OwnerOf[d]] = a] = [u EXCEPT !.status[OwnerOf[d]] = a]
        BY <2>1, <2>2 DEF EventVal
    <2> QED BY <2>1, <2>3 DEF Derived, Answered
<1> QED BY <1>1, <1>2

LEMMA HistIsStep ==
    ASSUME [HistNext]_<<vars, past>>
    PROVE  [Next]_vars
    BY DEF HistNext

LEMMA PastInvInit == HistInit => PastInv
<1> SUFFICES ASSUME HistInit PROVE PastInv
    OBVIOUS
<1>1. \A d \in Device : /\ down[d] = <<>> /\ cache[d] = Unknown /\ puts[d] = <<>>
                        /\ mainq[d] = <<>> /\ shown[d] = Unknown
                        /\ list[d] = NoRows /\ cell[d] = NoRows
    BY DEF HistInit, Init, SyncInit
<1>2. \A S : SnapIn(Unknown, S) /\ RowsIn(NoRows, S) /\ PutsIn(<<>>, S) /\ SnapIn(db, S)
    BY RangeEmpty DEF SnapIn, RowsIn, NoRows, PutsIn, HistInit, Init, SyncInit, Event
<1>3. \A S : ServerCopies(S)
    BY <1>1, <1>2, RangeEmpty DEF ServerCopies
<1>4. \A L : ScreenCopies(L)
    BY <1>1, <1>2, RangeEmpty DEF ScreenCopies
<1> QED BY <1>3, <1>4 DEF PastInv, HistInit

LEMMA PastInvStep ==
    ASSUME TabInv, TabInv', PastInv, [HistNext]_<<vars, past>>
    PROVE  PastInv'
<1>1. /\ [Next]_vars /\ [SyncNext]_syncVars
      /\ TypeInv /\ TypeInv' /\ TypeOK
      /\ past \in [Event -> SUBSET EventVal]
      /\ db' \in Snapshot
    BY HistIsStep, StepIsSync DEF TabInv, PastInv, TypeInv, SyncTypeOK
<1>2. ASSUME NEW e \in Event
      PROVE  past'[e] = past[e] \/ (db'[e] # Absent /\ past'[e] = past[e] \cup {db'[e]})
    BY <1>2 DEF HistNext
<1>3. \A e \in Event : db'[e] # Absent => db'[e] \in EventVal /\ db'[e] \in Dates'[e]
    <2>1. SnapIn(db', Dates')
        BY DEF TabInv, Dated, ServerCopies, SnapIn
    <2> QED BY <1>1, <2>1, UnknownAssumption, ValAssumption
            DEF SnapIn, Snapshot, Entry, Event
<1>4. \A e \in Event : db'[e] # Absent => db'[e] \in past'[e]
    <2>1. CASE HistNext
        BY <2>1 DEF HistNext
    <2>2. CASE UNCHANGED <<vars, past>>
        <3>1. db' = db /\ past' = past
            BY <2>2 DEF vars, syncVars
        <3>2. db' # Unknown
            BY <1>1, UnknownAssumption DEF Snapshot, Entry
        <3> QED BY <3>1, <3>2 DEF PastInv, ServerCopies, SnapIn
    <2> QED BY <2>1, <2>2
<1>5. past' \in [Event -> SUBSET EventVal]
    <2>1. past' = past \/ past' = [e \in Event |->
                    IF db'[e] = Absent THEN past[e] ELSE past[e] \cup {db'[e]}]
        BY DEF HistNext
    <2> QED BY <1>1, <1>3, <2>1
<1>6. \A e \in Event : past[e] \subseteq past'[e]
    BY <1>2
<1>7. ASSUME NEW e \in Event PROVE past'[e] \subseteq Dates'[e]
    <2>1. past[e] \subseteq Dates'[e]
        <3>1. past[e] \subseteq Dates[e]
            BY DEF PastInv
        <3>2. Dates[e] \subseteq Dates'[e]
            BY <1>1, DatesStay, TimeAssumption DEF Dates, EventVal
        <3> QED BY <3>1, <3>2
    <2> QED BY <1>2, <1>3, <2>1
<1>8. PICK T : T = past'
    OBVIOUS
<1>9. PICK L : L = [d \in Device |-> [e \in Event |-> Derived(d, e)']]
    OBVIOUS
<1>10. ServerCopies(T)
    <2>1. Wider(past, T)
        BY <1>6, <1>8 DEF Wider
    <2> QED BY <1>1, <2>1, ServerWider DEF PastInv
<1>11. ScreenCopies(L)
    <2>1. PICK K : K = [d \in Device |-> [e \in Event |-> Derived(d, e)]]
        OBVIOUS
    <2>2. \A d \in Device : Wider(K[d], L[d])
        <3>1. ASSUME NEW d \in Device, NEW e \in Event
              PROVE  Derived(d, e) \subseteq Derived(d, e)'
            BY <1>6 DEF Derived, Bases, Answered, NoStatus
        <3> QED BY <1>9, <2>1, <3>1 DEF Wider
    <2>3. ScreenCopies(K)
        BY <2>1 DEF PastInv
    <2> QED BY <1>1, <2>2, <2>3, ScreenWider
<1>12. ServerCopies(T)'
    <2>1. ASSUME NEW d \in Device, ServerApply(d)
          PROVE  NextPut(d).val \in T[NextPut(d).key]
        <3>1. NextPut(d) \in Put /\ db \in Snapshot
            BY <1>1, <2>1, NextPutType DEF ServerApply, TypeInv, SyncTypeOK
        <3>2. db'[NextPut(d).key] = NextPut(d).val /\ NextPut(d).key \in Event
            BY <2>1, <3>1 DEF ServerApply, Snapshot, Put, Event
        <3>3. db'[NextPut(d).key] # Absent
            BY <3>1, <3>2, AbsentAssumption DEF Put
        <3> QED BY <1>8, <1>4, <3>2, <3>3
    <2> QED BY <1>1, <1>10, <2>1, ServerCopiesStep
<1>13. ScreenCopies(L)'
    <2>1. \A d \in Device : Wider(T, L[d])
        BY <1>8, <1>9 DEF Wider, Derived, Bases
    <2>2. ASSUME NEW d \in Device, NEW e \in Event, NEW answer \in Answer, Swipe(d, e, answer)
          PROVE  [cell[d][e] EXCEPT !.status[OwnerOf[d]] = answer] \in L[d][e]
        <3>1. PICK K : K = [x \in Device |-> [f \in Event |-> Derived(x, f)]]
            OBVIOUS
        <3>2. cell[d][e] \in K[d][e]
            BY <2>2, <3>1 DEF PastInv, ScreenCopies, RowsIn, Swipe
        <3>3. [cell[d][e] EXCEPT !.status[OwnerOf[d]] = answer] \in Derived(d, e)
            BY <1>1, <3>1, <3>2, AnsweredAgain
        <3>4. Derived(d, e) \subseteq Derived(d, e)'
            BY <1>6 DEF Derived, Bases, Answered, NoStatus
        <3> QED BY <1>9, <3>3, <3>4
    <2>3. ASSUME NEW d \in Device, NEW e \in Event, NEW start \in Time, AddEvent(d, e, start)
          PROVE  [start |-> start, status |-> NoStatus] \in L[d][e]
        BY <1>9 DEF Derived, Bases, NoStatus
    <2> QED BY <1>1, <1>11, <1>12, <2>1, <2>2, <2>3, ScreenCopiesStep
<1>14. ServerCopies(past)'
    BY <1>8, <1>12 DEF ServerCopies, SnapIn, MessageIn
<1>15. ScreenCopies([d \in Device |-> [e \in Event |-> Derived(d, e)]])'
    BY <1>9, <1>13 DEF ScreenCopies, SnapIn, RowsIn, PutsIn
<1> QED BY <1>5, <1>7, <1>14, <1>15 DEF PastInv

\* A put the server applies is a write or an answer of the register.
LEMMA ApplyIsRegisterStep ==
    ASSUME TabInv, PastInv, HistNext, NEW d \in Device, ServerApply(d)
    PROVE  Register!Next
<1> DEFINE e == NextPut(d).key
           w == NextPut(d).val
<1>1. /\ NextPut(d) \in Put /\ NextPut(d) \in Range(puts[d])
      /\ db \in Snapshot /\ OwnerOf[d] \in Player
    <2>1. TypeInv /\ SyncTypeOK /\ Unhandled(d)
        BY DEF TabInv, TypeInv, ServerApply
    <2> QED BY <2>1, NextPutType, NextPutPending, OwnerAssumption DEF SyncTypeOK
<1>2. /\ e \in Event /\ w \in EventVal /\ w # Absent
      /\ db' = [db EXCEPT ![e] = w]
    BY <1>1, AbsentAssumption, ValAssumption DEF ServerApply, Put, Event
<1>3. w \in Derived(d, e) /\ w \in Dates[e]
    <2>1. PICK K : K = [x \in Device |-> [f \in Event |-> Derived(x, f)]]
        OBVIOUS
    <2>2. w \in K[d][e]
        BY <1>1, <2>1 DEF PastInv, ScreenCopies, PutsIn
    <2>3. PICK D : D = [x \in Device |-> Dates]
        OBVIOUS
    <2>4. w \in D[d][e]
        BY <1>1, <2>3 DEF TabInv, Dated, ScreenCopies, PutsIn
    <2> QED BY <1>2, <2>1, <2>2, <2>3, <2>4
<1>4. /\ past \in [Event -> SUBSET EventVal]
      /\ \A f \in Event : db[f] # Absent => db[f] \in past[f] /\ db[f] \in Dates[f]
    BY <1>1, UnknownAssumption
       DEF PastInv, TabInv, Dated, ServerCopies, SnapIn, Snapshot, Entry
<1> HIDE DEF e, w
<1>5. past' = [past EXCEPT ![e] = @ \cup {w}]
    <2>1. past' = [f \in Event |-> IF db'[f] = Absent THEN past[f] ELSE past[f] \cup {db'[f]}]
        BY DEF HistNext
    <2>2. \A f \in Event : db'[f] = IF f = e THEN w ELSE db[f]
        BY <1>1, <1>2 DEF Snapshot, Event
    <2>3. \A f \in Event : past'[f] = IF f = e THEN past[f] \cup {w} ELSE past[f]
        BY <1>2, <1>4, <2>1, <2>2
    <2>4. past' \in [Event -> SUBSET EventVal]
        BY <1>2, <1>4, <2>1, <2>2
    <2> QED BY <1>2, <1>4, <2>3, <2>4
<1>6. Register!Put(e, w)
    BY <1>2, <1>5 DEF Register!Put
<1>7. Bases(e) = past[e] \cup {[start |-> t, status |-> Register!NoStatus] : t \in Time}
    BY DEF Bases, NoStatus, Register!NoStatus
<1>8. ASSUME NEW v \in Bases(e), v.start = w.start PROVE v \in Register!Copies(e)
    <2>1. db[e] # Absent => v.start = db[e].start
        BY <1>2, <1>3, <1>4, <1>8 DEF Dates
    <2> QED BY <1>7, <1>8, <2>1 DEF Register!Copies
<1>9. CASE w \in Bases(e)
    <2>1. Register!Write(e)
        BY <1>6, <1>8, <1>9 DEF Register!Write
    <2> QED BY <1>2, <2>1 DEF Register!Next
<1>10. CASE w \notin Bases(e)
    <2>1. PICK v \in Bases(e), a \in Answer : w = [v EXCEPT !.status[OwnerOf[d]] = a]
        BY <1>3, <1>10 DEF Derived, Answered
    <2>2. v.start = w.start
        BY <1>2, <1>4, <2>1, BasesType DEF EventVal
    <2>3. Register!Respond(e, OwnerOf[d], a)
        BY <1>6, <1>8, <2>1, <2>2 DEF Register!Respond
    <2>4. a \in Register!Answer
        BY DEF Answer, Register!Answer
    <2> QED BY <1>1, <1>2, <2>3, <2>4 DEF Register!Next
<1> QED BY <1>9, <1>10

\* The Events tabs of all devices together, with their copies, overlays,
\* queues and repeated puts, implement the register: whatever reaches the
\* server is a version the event has had, or its first one, with the entry
\* of at most one player changed (updatePlayerStatusForCurrentUser).
THEOREM RefinesRegisterCorrect == HistSpec => RefinesRegister
<1>1. HistInit => Register!Init
    BY DEF HistInit, Init, SyncInit, Register!Init, Event
<1>2. ASSUME TabInv, TabInv', PastInv, [HistNext]_<<vars, past>>
      PROVE  [Register!Next]_(Register!vars)
    <2>1. [SyncNext]_syncVars
        BY <1>2, HistIsStep, StepIsSync DEF TabInv
    <2>2. CASE UNCHANGED <<vars, past>>
        BY <2>2 DEF vars, syncVars, Register!vars
    <2>3. CASE HistNext /\ UNCHANGED db
        <3>1. db # Unknown
            BY <1>2, UnknownAssumption DEF TabInv, TypeInv, SyncTypeOK, Snapshot, Entry
        <3>2. \A e \in Event : db[e] # Absent => db[e] \in past[e]
            BY <1>2, <3>1 DEF PastInv, ServerCopies, SnapIn
        <3>3. past' = [e \in Event |-> IF db[e] = Absent THEN past[e] ELSE past[e] \cup {db[e]}]
            BY <2>3 DEF HistNext
        <3>4. \A e \in Event : past'[e] = past[e]
            BY <3>2, <3>3
        <3>5. past' = past
            BY <1>2, <3>3, <3>4 DEF PastInv
        <3> QED BY <2>3, <3>5 DEF Register!vars
    <2>4. CASE HistNext /\ \E d \in Device : ServerApply(d)
        BY <1>2, <2>4, ApplyIsRegisterStep
    <2> QED BY <1>2, <2>1, <2>2, <2>3, <2>4, OnlyApplyWrites
<1>3. HistInit /\ [][HistNext]_<<vars, past>> => Spec
    <2>1. HistInit => Init
        BY DEF HistInit
    <2>2. [HistNext]_<<vars, past>> => [Next]_vars
        BY HistIsStep
    <2> QED BY <2>1, <2>2, PTL DEF Spec
<1>4. TabInv /\ TabInv' /\ PastInv /\ [HistNext]_<<vars, past>> => PastInv'
    BY PastInvStep
<1> QED BY <1>1, <1>2, <1>3, <1>4, PastInvInit, TabInvCorrect, PTL
        DEF HistSpec, RefinesRegister, Register!Spec
=============================================================================
