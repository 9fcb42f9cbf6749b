--------------------------- MODULE EnrolmentProofs ---------------------------
(***************************************************************************)
(* Proofs about Enrolment, for any number of devices, accounts, teams,     *)
(* writes and faults.                                                      *)
(***************************************************************************)
EXTENDS Enrolment, TLAPS, FiniteSetTheorems, WellFoundedInduction,
        SequenceTheorems

-----------------------------------------------------------------------------
(* The pending writes and the own record seen through them.                *)

\* A finite set of numbers that is not empty has a greatest element.
LEMMA GreatestElement ==
    ASSUME NEW S \in SUBSET Nat, IsFiniteSet(S), S # {}
    PROVE  \E m \in S : \A j \in S : j <= m
<1> DEFINE Above(i) == {j \in S : i <= j}
           Aboves   == {Above(i) : i \in S}
<1>1. IsWellFoundedOn(StrictSubsetOrdering(S), SUBSET S)
    BY FS_StrictSubsetOrderingWellFounded, FS_FiniteSubsetsOfFinite
<1>2. Aboves \subseteq SUBSET S /\ Aboves # {}
    OBVIOUS
<1>3. PICK U \in Aboves : \A W \in Aboves : ~ (<<W, U>> \in StrictSubsetOrdering(S))
    <2> HIDE DEF Aboves
    <2> QED BY <1>1, <1>2, WFMin
<1>4. PICK m \in S : U = Above(m)
    BY <1>3
<1>5. ASSUME NEW j \in S, ~ (j <= m) PROVE FALSE
    <2>1. m \in Nat /\ j \in Nat /\ m < j
        BY <1>5
    <2>2. Above(j) \subseteq Above(m)
        <3>1. \A i \in S : i \in Nat /\ (j <= i => m <= i)
            BY <2>1
        <3> QED BY <3>1
    <2>3. m \in Above(m) /\ m \notin Above(j)
        BY <2>1
    <2>4. <<Above(j), Above(m)>> \in StrictSubsetOrdering(S)
        BY <2>2, <2>3 DEF StrictSubsetOrdering
    <2> QED BY <1>3, <1>4, <2>4
<1> QED BY <1>5

\* View is the server's record, or the youngest pending write to it.
LEMMA ViewIs ==
    ASSUME NEW ps \in Seq(Put), NEW s
    PROVE  /\ OwnPuts(ps) = {} => View(ps, s) = s
           /\ OwnPuts(ps) # {} =>
                  \E i \in OwnPuts(ps) : /\ \A j \in OwnPuts(ps) : j <= i
                                         /\ View(ps, s) = ps[i].team
<1>1. DOMAIN ps = 1..Len(ps) /\ Len(ps) \in Nat
    BY LenProperties
<1>2. OwnPuts(ps) \in SUBSET Nat /\ OwnPuts(ps) \in SUBSET (1..Len(ps))
    BY <1>1 DEF OwnPuts
<1>3. IsFiniteSet(OwnPuts(ps))
    <2>1. IsFiniteSet(1..Len(ps))
        BY <1>1, FS_Interval
    <2> QED BY <1>2, <2>1, FS_Subset
<1>4. OwnPuts(ps) # {} => \E i \in OwnPuts(ps) : \A j \in OwnPuts(ps) : j <= i
    BY <1>2, <1>3, GreatestElement
<1> QED BY <1>4 DEF View

LEMMA PutElement ==
    ASSUME NEW ps \in Seq(Put), NEW i \in OwnPuts(ps)
    PROVE  /\ i \in 1..Len(ps) /\ ps[i] \in Put /\ ps[i].path = "Users"
           /\ ps[i].team \in Record
<1>1. i \in 1..Len(ps) /\ ps[i].path = "Users"
    BY LenProperties DEF OwnPuts
<1>2. ps[i] \in Put
    BY <1>1, ElementOfSeq
<1> QED BY <1>1, <1>2 DEF Put

LEMMA ViewType ==
    ASSUME NEW ps \in Seq(Put), NEW s \in Record \cup {NoRecord}
    PROVE  /\ View(ps, s) \in Record \cup {NoRecord}
           /\ OwnPuts(ps) # {} => View(ps, s) \in Record
<1>1. CASE OwnPuts(ps) = {}
    BY <1>1, ViewIs
<1>2. CASE OwnPuts(ps) # {}
    <2>1. PICK i \in OwnPuts(ps) : View(ps, s) = ps[i].team
        BY <1>2, ViewIs
    <2> QED BY <2>1, PutElement
<1> QED BY <1>1, <1>2

\* The view depends on the youngest own write alone.
LEMMA ViewOf ==
    ASSUME NEW ps \in Seq(Put), NEW s, NEW i \in OwnPuts(ps),
           \A j \in OwnPuts(ps) : j <= i
    PROVE  View(ps, s) = ps[i].team
<1>1. PICK k \in OwnPuts(ps) : /\ \A j \in OwnPuts(ps) : j <= k
                               /\ View(ps, s) = ps[k].team
    BY ViewIs
<1>2. i \in Nat /\ k \in Nat /\ i <= k /\ k <= i
    BY <1>1, PutElement
<1>3. i = k
    BY <1>2
<1> QED BY <1>1, <1>3

\* One more write, and one less.
LEMMA PutsAppend ==
    ASSUME NEW ps \in Seq(Put), NEW p \in Put
    PROVE  /\ ps \o <<p>> = Append(ps, p)
           /\ Append(ps, p) \in Seq(Put)
           /\ Len(ps) \in Nat /\ Len(Append(ps, p)) = Len(ps) + 1
           /\ DOMAIN Append(ps, p) = 1..(Len(ps) + 1)
           /\ DOMAIN ps = 1..Len(ps)
           /\ \A i \in 1..Len(ps) : Append(ps, p)[i] = ps[i]
           /\ Append(ps, p)[Len(ps) + 1] = p
           /\ OwnPuts(Append(ps, p)) =
                  OwnPuts(ps) \cup (IF p.path = "Users" THEN {Len(ps) + 1} ELSE {})
<1>1. /\ Append(ps, p) \in Seq(Put)
      /\ Len(ps) \in Nat /\ Len(Append(ps, p)) = Len(ps) + 1
      /\ DOMAIN Append(ps, p) = 1..(Len(ps) + 1)
      /\ DOMAIN ps = 1..Len(ps)
      /\ \A i \in 1..Len(ps) : Append(ps, p)[i] = ps[i]
      /\ Append(ps, p)[Len(ps) + 1] = p
    BY AppendProperties, LenProperties
<1>2. ps \o <<p>> = Append(ps, p)
    BY AppendIsConcat
<1>3. 1..(Len(ps) + 1) = 1..Len(ps) \cup {Len(ps) + 1}
    BY <1>1
<1>4. OwnPuts(Append(ps, p)) =
          OwnPuts(ps) \cup (IF p.path = "Users" THEN {Len(ps) + 1} ELSE {})
    BY <1>1, <1>3 DEF OwnPuts
<1> QED BY <1>1, <1>2, <1>4

LEMMA PutsTail ==
    ASSUME NEW ps \in Seq(Put), ps # <<>>
    PROVE  /\ Tail(ps) \in Seq(Put)
           /\ Len(ps) \in Nat \ {0} /\ Len(Tail(ps)) = Len(ps) - 1
           /\ DOMAIN ps = 1..Len(ps) /\ DOMAIN Tail(ps) = 1..(Len(ps) - 1)
           /\ Head(ps) = ps[1] /\ Head(ps) \in Put
           /\ \A i \in 1..(Len(ps) - 1) : Tail(ps)[i] = ps[i + 1]
           /\ \A i \in OwnPuts(Tail(ps)) : i + 1 \in OwnPuts(ps)
           /\ \A i \in OwnPuts(ps) : i = 1 \/ i - 1 \in OwnPuts(Tail(ps))
<1>1. /\ Tail(ps) \in Seq(Put)
      /\ Len(ps) \in Nat \ {0} /\ Len(Tail(ps)) = Len(ps) - 1
      /\ DOMAIN ps = 1..Len(ps) /\ DOMAIN Tail(ps) = 1..(Len(ps) - 1)
      /\ Head(ps) = ps[1] /\ Head(ps) \in Put
      /\ \A i \in 1..(Len(ps) - 1) : Tail(ps)[i] = ps[i + 1]
    BY HeadTailProperties, LenProperties, EmptySeq
<1>2. ASSUME NEW i \in OwnPuts(Tail(ps)) PROVE i + 1 \in OwnPuts(ps)
    <2>1. i \in 1..(Len(ps) - 1) /\ Tail(ps)[i].path = "Users"
        BY <1>1, <1>2 DEF OwnPuts
    <2>2. i + 1 \in 1..Len(ps)
        BY <1>1, <2>1
    <2> QED BY <1>1, <2>1, <2>2 DEF OwnPuts
<1>3. ASSUME NEW i \in OwnPuts(ps), i # 1 PROVE i - 1 \in OwnPuts(Tail(ps))
    <2>1. i \in 1..Len(ps) /\ ps[i].path = "Users"
        BY <1>1 DEF OwnPuts
    <2>2. i - 1 \in 1..(Len(ps) - 1) /\ (i - 1) + 1 = i
        BY <1>1, <1>3, <2>1
    <2>3. Tail(ps)[i - 1] = ps[i]
        BY <1>1, <2>2
    <2> QED BY <1>1, <2>1, <2>2, <2>3 DEF OwnPuts
<1> QED BY <1>1, <1>2, <1>3

-----------------------------------------------------------------------------
(* Type correctness.  An answer is only ever taken for a write that is     *)
(* still there.                                                            *)

HeardWrites == \A d \in Device : unheard[d] <= Len(puts[d])

TypeInv == TypeOK /\ HeardWrites

\* The two shapes in which the screens write.
LEMMA WriteOne ==
    ASSUME TypeOK, NEW d \in Device, NEW p \in Put, Write(d, <<p>>)
    PROVE  /\ puts' = [puts EXCEPT ![d] = Append(@, p)]
           /\ puts'[d] = Append(puts[d], p)
           /\ puts' \in [Device -> Seq(Put)]
           /\ sets' \in 0..MaxSets
<1>1. puts \in [Device -> Seq(Put)] /\ sets \in 0..MaxSets /\ MaxSets \in Nat
    BY EnrolBoundAssumption DEF TypeOK
<1>2. puts[d] \o <<p>> = Append(puts[d], p) /\ Append(puts[d], p) \in Seq(Put)
    BY <1>1, PutsAppend
<1>3. Len(<<p>>) = 1
    OBVIOUS
<1>4. sets' \in 0..MaxSets
    BY <1>1, <1>3 DEF Write
<1> QED BY <1>1, <1>2, <1>4 DEF Write

LEMMA WriteTwo ==
    ASSUME TypeOK, NEW d \in Device, NEW p \in Put, NEW q \in Put, Write(d, <<p, q>>)
    PROVE  /\ puts' = [puts EXCEPT ![d] = Append(Append(@, p), q)]
           /\ puts'[d] = Append(Append(puts[d], p), q)
           /\ puts' \in [Device -> Seq(Put)]
           /\ sets' \in 0..MaxSets
<1>1. puts \in [Device -> Seq(Put)] /\ sets \in 0..MaxSets /\ MaxSets \in Nat
    BY EnrolBoundAssumption DEF TypeOK
<1>2. puts[d] \o <<p, q>> = Append(Append(puts[d], p), q)
    <2>1. <<p, q>> = <<p>> \o <<q>>
        <3>1. <<p>> \in Seq(Put) /\ <<p, q>> \in Seq(Put)
            OBVIOUS
        <3>2. Append(<<p>>, q) = <<p, q>>
            <4>1. /\ Append(<<p>>, q) \in Seq(Put)
                  /\ Len(Append(<<p>>, q)) = 2
                  /\ Append(<<p>>, q)[1] = p /\ Append(<<p>>, q)[2] = q
                BY <3>1, PutsAppend
            <4>2. Len(<<p, q>>) = 2 /\ <<p, q>>[1] = p /\ <<p, q>>[2] = q
                OBVIOUS
            <4>3. \A i \in 1..2 : i = 1 \/ i = 2
                OBVIOUS
            <4> QED BY <3>1, <4>1, <4>2, <4>3, SeqEqual
        <3> QED BY <3>1, <3>2, PutsAppend
    <2>2. puts[d] \o (<<p>> \o <<q>>) = (puts[d] \o <<p>>) \o <<q>>
        BY <1>1, ConcatAssociative
    <2>3. Append(puts[d], p) \in Seq(Put)
        BY <1>1, PutsAppend
    <2> QED BY <1>1, <2>1, <2>2, <2>3, PutsAppend
<1>3. Append(Append(puts[d], p), q) \in Seq(Put)
    BY <1>1, PutsAppend
<1>4. Len(<<p, q>>) = 2
    OBVIOUS
<1>5. sets' \in 0..MaxSets
    BY <1>1, <1>4 DEF Write
<1> QED BY <1>1, <1>2, <1>3, <1>5 DEF Write

LEMMA NotifyType ==
    ASSUME TypeOK, NEW d \in Device, NEW ps \in Seq(Put), NEW s \in Record \cup {NoRecord},
           Notify(d, ps, s)
    PROVE  mainq' \in [Device -> Seq(Record \cup {NoRecord})]
<1>1. mainq \in [Device -> Seq(Record \cup {NoRecord})]
    BY DEF TypeOK
<1>2. Append(mainq[d], View(ps, s)) \in Seq(Record \cup {NoRecord})
    BY <1>1, ViewType, AppendProperties
<1> QED BY <1>1, <1>2 DEF Notify

LEMMA GoHomeType ==
    ASSUME TypeOK, NEW d \in Device, NEW ps \in Seq(Put), GoHome(d, ps)
    PROVE  /\ homes' \in [Device -> 0..MaxHomes]
           /\ screen' \in [Device -> Screen]
           /\ observing' \in [Device -> BOOLEAN]
           /\ user' \in [Device -> BOOLEAN]
           /\ mainq' \in [Device -> Seq(Record \cup {NoRecord})]
           /\ tab' \in [Device -> Team \cup {DefaultTeam, Idle}]
           /\ seen' = seen
<1>1. /\ mainq \in [Device -> Seq(Record \cup {NoRecord})]
      /\ seen[d] \in Record \cup {NoRecord}
      /\ homes \in [Device -> 0..MaxHomes] /\ MaxHomes \in Nat
    BY EnrolBoundAssumption DEF TypeOK
<1>2. Append(mainq[d], View(ps, seen[d])) \in Seq(Record \cup {NoRecord})
    BY <1>1, ViewType, AppendProperties
<1>3. mainq' \in [Device -> Seq(Record \cup {NoRecord})]
    BY <1>1, <1>2 DEF GoHome
<1>4. homes' \in [Device -> 0..MaxHomes]
    BY <1>1 DEF GoHome
<1> QED BY <1>3, <1>4 DEF GoHome, TypeOK, Screen

LEMMA RecordPut ==
    ASSUME NEW t \in Record
    PROVE  UserPut(t) \in Put /\ UserPut(t).path = "Users" /\ UserPut(t).team = t
    BY DEF UserPut, Put

LEMMA TeamPutType ==
    ASSUME NEW t \in Team
    PROVE  TeamPut(t) \in Put /\ TeamPut(t).path = "Teams" /\ TeamPut(t).team = t
    BY DEF TeamPut, Put

\* A write whose answer arrives, or whose refusal does, is there.
LEMMA Oldest ==
    ASSUME TypeInv, NEW d \in Device, unheard[d] > 0 \/ puts[d] # <<>>
    PROVE  puts[d] \in Seq(Put) /\ puts[d] # <<>>
<1>1. puts[d] \in Seq(Put) /\ unheard[d] \in Nat /\ unheard[d] <= Len(puts[d])
    BY DEF TypeInv, TypeOK, HeardWrites
<1>2. Len(<<>>) = 0
    OBVIOUS
<1> QED BY <1>1, <1>2

LEMMA TypeInvInit == Init => TypeInv
<1> SUFFICES ASSUME Init PROVE TypeInv
    OBVIOUS
<1>1. \A d \in Device : puts[d] = <<>> /\ unheard[d] = 0
    BY DEF Init
<1>2. HeardWrites
    <2>1. Len(<<>>) = 0
        OBVIOUS
    <2>2. ASSUME NEW d \in Device PROVE unheard[d] <= Len(puts[d])
        <3>1. unheard[d] = 0 /\ Len(puts[d]) = 0
            BY <1>1, <2>1
        <3> QED BY <3>1
    <2> QED BY <2>2 DEF HeardWrites
<1>3. TypeOK
    BY EmptySeq, EnrolBoundAssumption DEF Init, TypeOK, Screen, Record, Reader
<1> QED BY <1>2, <1>3 DEF TypeInv

\* What asking for a read and taking its answer do to the reads under way.
LEMMA AskIs ==
    ASSUME TypeOK, NEW d \in Device, NEW r \in Reader, NEW t \in Record, Ask(d, r, t)
    PROVE  /\ reads' \in [Device -> [Reader -> Read \cup {Idle}]]
           /\ reads'[d][r] = [team |-> t, answer |-> "asked"]
           /\ \A x \in Device, y \in Reader :
                  x # d \/ y # r => reads'[x][y] = reads[x][y]
<1>1. reads \in [Device -> [Reader -> Read \cup {Idle}]]
    BY DEF TypeOK
<1>2. [team |-> t, answer |-> "asked"] \in Read
    BY DEF Read
<1>3. reads' = [reads EXCEPT ![d][r] = [team |-> t, answer |-> "asked"]]
    BY DEF Ask
<1> QED BY <1>1, <1>2, <1>3

LEMMA AskOthers ==
    ASSUME TypeOK, NEW d \in Device, NEW r \in Reader, NEW t, Ask(d, r, t)
    PROVE  \A y \in Reader : y # r => reads'[d][y] = reads[d][y]
<1>1. reads \in [Device -> [Reader -> Read \cup {Idle}]]
    BY DEF TypeOK
<1>2. PICK v : reads' = [reads EXCEPT ![d][r] = v]
    BY DEF Ask
<1> QED BY <1>1, <1>2

LEMMA AnsweredIs ==
    ASSUME TypeOK, NEW d \in Device, NEW r \in Reader, NEW answer, Answered(d, r, answer)
    PROVE  /\ reads' \in [Device -> [Reader -> Read \cup {Idle}]]
           /\ reads[d][r] \in Read /\ reads[d][r].team \in Record
           /\ reads[d][r] # Idle /\ reads[d][r].answer = answer
           /\ reads'[d][r] = Idle
           /\ \A x \in Device, y \in Reader :
                  x # d \/ y # r => reads'[x][y] = reads[x][y]
<1>1. reads \in [Device -> [Reader -> Read \cup {Idle}]]
    BY DEF TypeOK
<1>2. reads' = [reads EXCEPT ![d][r] = Idle] /\ reads[d][r] # Idle
      /\ reads[d][r].answer = answer
    BY DEF Answered
<1>3. reads[d][r] \in Read
    BY <1>1, <1>2
<1>4. reads[d][r].team \in Record
    BY <1>3 DEF Read
<1> QED BY <1>1, <1>2, <1>3, <1>4

LEMMA AnsweredOthers ==
    ASSUME TypeOK, NEW d \in Device, NEW r \in Reader, NEW answer, Answered(d, r, answer)
    PROVE  \A y \in Reader : reads'[d][y] = Idle \/ reads'[d][y] = reads[d][y]
<1>1. reads \in [Device -> [Reader -> Read \cup {Idle}]]
    BY DEF TypeOK
<1>2. reads' = [reads EXCEPT ![d][r] = Idle]
    BY DEF Answered
<1> QED BY <1>1, <1>2

LEMMA ServerReadIs ==
    ASSUME TypeOK, NEW d \in Device, NEW r \in Reader, ServerRead(d, r)
    PROVE  /\ reads' \in [Device -> [Reader -> Read \cup {Idle}]]
           /\ reads[d][r] \in Read /\ reads'[d][r] \in Read
           /\ reads'[d][r].team = reads[d][r].team
           /\ reads'[d][r].answer =
                IF (IF r = "signIn" THEN View(puts[d], Mine(d)) # NoRecord
                    ELSE \/ reads[d][r].team \in teams
                         \/ \E i \in DOMAIN puts[d] :
                                puts[d][i] = TeamPut(reads[d][r].team))
                THEN "found" ELSE "missing"
           /\ \A x \in Device, y \in Reader :
                  x # d \/ y # r => reads'[x][y] = reads[x][y]
<1> DEFINE known == IF r = "signIn" THEN View(puts[d], Mine(d)) # NoRecord
                    ELSE \/ reads[d][r].team \in teams
                         \/ \E i \in DOMAIN puts[d] :
                                puts[d][i] = TeamPut(reads[d][r].team)
           answer == IF known THEN "found" ELSE "missing"
<1>1. reads \in [Device -> [Reader -> Read \cup {Idle}]]
    BY DEF TypeOK
<1>2. reads[d][r] # Idle /\ reads' = [reads EXCEPT ![d][r].answer = answer]
    BY DEF ServerRead
<1>3. reads[d][r] \in Read
    BY <1>1, <1>2
<1>4. answer \in {"found", "missing"}
    OBVIOUS
<1> HIDE DEF answer
<1>5. reads'[d][r] = [reads[d][r] EXCEPT !.answer = answer]
    BY <1>1, <1>2
<1>6. /\ reads'[d][r] \in Read
      /\ reads'[d][r].team = reads[d][r].team
      /\ reads'[d][r].answer = answer
    BY <1>3, <1>4, <1>5 DEF Read
<1>7. /\ reads' \in [Device -> [Reader -> Read \cup {Idle}]]
      /\ \A x \in Device, y \in Reader : x # d \/ y # r => reads'[x][y] = reads[x][y]
    <2>1. reads' = [reads EXCEPT ![d] = [reads[d] EXCEPT ![r] = reads'[d][r]]]
        BY <1>1, <1>2, <1>5
    <2> QED BY <1>1, <1>6, <2>1
<1> QED BY <1>3, <1>6, <1>7 DEF answer

\* Steps that touch one device's login screen and its reads, and no data.
Quiet(d) == UNCHANGED <<server, profile, client, counts>>

LEMMA QuietType ==
    ASSUME TypeInv, NEW d \in Device,
           \/ Launch(d) \/ OpenFirebaseUI(d) \/ CancelFirebaseUI(d) \/ DidSignIn(d)
           \/ (\E t \in Team : Submit(d, t) \/ SaveUser(d, t)) \/ SignOut(d)
           \/ \E r \in {"join", "save"} : TeamNotFound(d, r)
    PROVE  /\ Quiet(d)
           /\ auth' \in [Device -> BOOLEAN]
           /\ screen' \in [Device -> Screen]
           /\ reads' \in [Device -> [Reader -> Read \cup {Idle}]]
<1>1. TypeOK
    BY DEF TypeInv
<1>2. /\ auth \in [Device -> BOOLEAN]
      /\ screen \in [Device -> Screen]
      /\ reads \in [Device -> [Reader -> Read \cup {Idle}]]
    BY <1>1 DEF TypeOK
<1>3. /\ "signIn" \in Reader /\ "join" \in Reader /\ "save" \in Reader
      /\ NoTeam \in Record /\ Team \subseteq Record
    BY DEF Reader, Record
<1>4. CASE Launch(d) \/ OpenFirebaseUI(d) \/ CancelFirebaseUI(d) \/ SignOut(d)
    <2>1. Quiet(d) /\ reads' = reads
        BY <1>4 DEF Launch, OpenFirebaseUI, CancelFirebaseUI, SignOut, Quiet
    <2>2. auth' \in [Device -> BOOLEAN] /\ screen' \in [Device -> Screen]
        BY <1>2, <1>4 DEF Launch, OpenFirebaseUI, CancelFirebaseUI, SignOut, Screen
    <2> QED BY <1>2, <2>1, <2>2
<1>5. CASE DidSignIn(d)
    <2>1. Quiet(d) /\ Ask(d, "signIn", NoTeam)
        BY <1>5 DEF DidSignIn, Quiet
    <2>2. auth' \in [Device -> BOOLEAN] /\ screen' \in [Device -> Screen]
        BY <1>2, <1>5 DEF DidSignIn, Screen
    <2> QED BY <1>1, <1>3, <2>1, <2>2, AskIs
<1>6. CASE \E t \in Team : Submit(d, t) \/ SaveUser(d, t)
    <2>1. PICK t \in Team : Submit(d, t) \/ SaveUser(d, t)
        BY <1>6
    <2>2. Quiet(d) /\ UNCHANGED <<auth, screen>> /\ (Ask(d, "join", t) \/ Ask(d, "save", t))
        BY <2>1 DEF Submit, SaveUser, Quiet
    <2> QED BY <1>1, <1>2, <1>3, <2>2, AskIs
<1>7. CASE \E r \in {"join", "save"} : TeamNotFound(d, r)
    <2>1. PICK r \in {"join", "save"} : TeamNotFound(d, r)
        BY <1>7
    <2>2. Quiet(d) /\ UNCHANGED <<auth, screen>> /\ Answered(d, r, "missing")
        BY <2>1 DEF TeamNotFound, Quiet
    <2> QED BY <1>1, <1>2, <1>3, <2>2, AnsweredIs
<1> QED BY <1>4, <1>5, <1>6, <1>7

LEMMA QuietStep ==
    ASSUME TypeInv, NEW d \in Device, Quiet(d),
           auth' \in [Device -> BOOLEAN],
           screen' \in [Device -> Screen],
           reads' \in [Device -> [Reader -> Read \cup {Idle}]]
    PROVE  TypeInv'
    BY DEF TypeInv, TypeOK, HeardWrites, Quiet, server, profile, client, counts, history

LEMMA HeardByAppend ==
    ASSUME TypeInv, UNCHANGED unheard, NEW d \in Device, NEW p \in Put, NEW q \in Put,
           \/ puts' = [puts EXCEPT ![d] = Append(@, p)]
           \/ puts' = [puts EXCEPT ![d] = Append(Append(@, p), q)]
    PROVE  HeardWrites'
<1>1. puts \in [Device -> Seq(Put)] /\ unheard \in [Device -> Nat]
    BY DEF TypeInv, TypeOK
<1>2. ASSUME NEW x \in Device PROVE unheard[x] <= Len(puts'[x])
    <2>1. unheard[x] <= Len(puts[x]) /\ unheard[x] \in Nat /\ Len(puts[x]) \in Nat
        BY <1>1, LenProperties DEF TypeInv, HeardWrites
    <2>2. CASE x # d
        BY <1>1, <2>1, <2>2
    <2>3. CASE x = d
        <3>1. Append(puts[d], p) \in Seq(Put) /\ Len(Append(puts[d], p)) = Len(puts[d]) + 1
            BY <1>1, PutsAppend
        <3>2. Len(Append(Append(puts[d], p), q)) = Len(puts[d]) + 2
            BY <2>1, <2>3, <3>1, PutsAppend
        <3>3. puts'[d] = Append(puts[d], p) \/ puts'[d] = Append(Append(puts[d], p), q)
            BY <1>1
        <3> QED BY <2>1, <2>3, <3>1, <3>2, <3>3
    <2> QED BY <2>2, <2>3
<1> QED BY <1>2 DEF HeardWrites

\* Going home, by itself or with the answer of the sign-in.
LEMMA HomeTypeStep ==
    ASSUME TypeInv, NEW d \in Device, AutoHome(d) \/ SignInKnown(d)
    PROVE  TypeInv'
<1>1. TypeOK /\ puts[d] \in Seq(Put)
    BY DEF TypeInv, TypeOK
<1>2. "signIn" \in Reader
    BY DEF Reader
<1>3. reads' \in [Device -> [Reader -> Read \cup {Idle}]]
    <2>1. CASE AutoHome(d)
        BY <2>1, <1>1 DEF AutoHome, TypeOK
    <2>2. CASE SignInKnown(d)
        BY <2>2, <1>1, <1>2, AnsweredIs DEF SignInKnown
    <2> QED BY <2>1, <2>2
<1>4. /\ UNCHANGED <<server, auth, teamId, puts, unheard, minted, sets, faults, history>>
      /\ GoHome(d, puts[d]) \/ UNCHANGED <<screen, observing, user, mainq, seen, tab, homes>>
    BY DEF AutoHome, SignInKnown
<1>5. /\ homes' \in [Device -> 0..MaxHomes]
      /\ screen' \in [Device -> Screen]
      /\ observing' \in [Device -> BOOLEAN]
      /\ user' \in [Device -> BOOLEAN]
      /\ mainq' \in [Device -> Seq(Record \cup {NoRecord})]
      /\ tab' \in [Device -> Team \cup {DefaultTeam, Idle}]
      /\ seen' = seen
    BY <1>1, <1>4, GoHomeType DEF TypeOK
<1> QED BY <1>3, <1>4, <1>5 DEF TypeInv, TypeOK, HeardWrites, server, history

LEMMA RegisterTypeStep ==
    ASSUME TypeInv, NEW d \in Device, Register(d)
    PROVE  TypeInv'
<1>1. TypeOK /\ UserPut(NoTeam) \in Put /\ "signIn" \in Reader
    BY RecordPut DEF TypeInv, Record, Reader
<1>2. /\ puts' = [puts EXCEPT ![d] = Append(@, UserPut(NoTeam))]
      /\ puts' \in [Device -> Seq(Put)]
      /\ sets' \in 0..MaxSets
    BY <1>1, WriteOne DEF Register
<1>3. HeardWrites'
    BY <1>1, <1>2, HeardByAppend DEF Register
<1>4. mainq' \in [Device -> Seq(Record \cup {NoRecord})]
    <2>1. puts'[d] \in Seq(Put) /\ seen[d] \in Record \cup {NoRecord}
        BY <1>1, <1>2 DEF TypeOK
    <2>2. Notify(d, puts'[d], seen[d])
        BY DEF Register
    <2> QED BY <1>1, <2>1, <2>2, NotifyType
<1>5. reads' \in [Device -> [Reader -> Read \cup {Idle}]]
    BY <1>1, AnsweredIs DEF Register
<1>6. screen' \in [Device -> Screen]
    BY <1>1 DEF Register, TypeOK, Screen
<1> QED BY <1>1, <1>2, <1>3, <1>4, <1>5, <1>6
        DEF Register, TypeInv, TypeOK, server, profile, history

LEMMA JoinTypeStep ==
    ASSUME TypeInv, NEW d \in Device, Join(d)
    PROVE  TypeInv'
<1> DEFINE t == reads[d]["join"].team
<1>1. TypeOK /\ "join" \in Reader
    BY DEF TypeInv, Reader
<1>2. reads' \in [Device -> [Reader -> Read \cup {Idle}]] /\ t \in Record
    BY <1>1, AnsweredIs DEF Join
<1>3. UserPut(t) \in Put
    BY <1>2, RecordPut
<1>4. /\ puts' = [puts EXCEPT ![d] = Append(@, UserPut(t))]
      /\ puts' \in [Device -> Seq(Put)] /\ puts'[d] \in Seq(Put)
      /\ sets' \in 0..MaxSets
    BY <1>1, <1>3, WriteOne DEF Join
<1>5. HeardWrites'
    BY <1>3, <1>4, HeardByAppend DEF Join
<1>6. choice' \in [Account -> Record]
    BY <1>1, <1>2, AccountAssumption DEF Join, Choose, TypeOK
<1>7. /\ UNCHANGED <<server, auth, teamId, unheard, minted, faults, dropped>>
      /\ \/ GoHome(d, puts'[d])
         \/ Notify(d, puts'[d], seen[d]) /\ UNCHANGED <<screen, observing, user, seen, tab, homes>>
    BY DEF Join
<1>8. seen[d] \in Record \cup {NoRecord}
    BY <1>1 DEF TypeOK
<1>9. PICK ps \in Seq(Put) : ps = puts'[d]
    BY <1>4
<1>10. /\ homes' \in [Device -> 0..MaxHomes]
       /\ screen' \in [Device -> Screen]
       /\ observing' \in [Device -> BOOLEAN]
       /\ user' \in [Device -> BOOLEAN]
       /\ mainq' \in [Device -> Seq(Record \cup {NoRecord})]
       /\ tab' \in [Device -> Team \cup {DefaultTeam, Idle}]
       /\ seen' = seen
    <2>1. CASE GoHome(d, ps)
        BY <1>1, <2>1, GoHomeType
    <2>2. CASE Notify(d, ps, seen[d]) /\ UNCHANGED <<screen, observing, user, seen, tab, homes>>
        BY <1>1, <1>8, <2>2, NotifyType DEF TypeOK
    <2> QED BY <1>7, <1>9, <2>1, <2>2
<1> QED BY <1>1, <1>2, <1>4, <1>5, <1>6, <1>7, <1>10 DEF TypeInv, TypeOK, server

LEMMA NewTeamTypeStep ==
    ASSUME TypeInv, NEW d \in Device, NEW t \in Team, SubmitNewTeam(d, t)
    PROVE  TypeInv'
<1>1. TypeOK /\ t \in Record /\ UserPut(t) \in Put /\ TeamPut(t) \in Put
    BY RecordPut, TeamPutType DEF TypeInv, Record
<1>2. /\ puts' = [puts EXCEPT ![d] = Append(Append(@, UserPut(t)), TeamPut(t))]
      /\ puts' \in [Device -> Seq(Put)] /\ puts'[d] \in Seq(Put)
      /\ sets' \in 0..MaxSets
    BY <1>1, WriteTwo DEF SubmitNewTeam
<1>3. HeardWrites'
    BY <1>1, <1>2, HeardByAppend DEF SubmitNewTeam
<1>4. choice' \in [Account -> Record]
    BY <1>1, AccountAssumption DEF SubmitNewTeam, Choose, TypeOK
<1>5. /\ UNCHANGED <<server, auth, reads, unheard, faults, dropped>>
      /\ minted' \in SUBSET Team
      /\ teamId' \in [Device -> Team \cup {DefaultTeam}]
    BY <1>1 DEF SubmitNewTeam, TypeOK
<1>6. PICK ps \in Seq(Put) : ps = puts'[d]
    BY <1>2
<1>7. /\ homes' \in [Device -> 0..MaxHomes]
      /\ screen' \in [Device -> Screen]
      /\ observing' \in [Device -> BOOLEAN]
      /\ user' \in [Device -> BOOLEAN]
      /\ mainq' \in [Device -> Seq(Record \cup {NoRecord})]
      /\ tab' \in [Device -> Team \cup {DefaultTeam, Idle}]
      /\ seen' = seen
    <2>1. GoHome(d, ps)
        BY <1>6 DEF SubmitNewTeam
    <2> QED BY <1>1, <2>1, GoHomeType
<1> QED BY <1>1, <1>2, <1>3, <1>4, <1>5, <1>7 DEF TypeInv, TypeOK, server

LEMMA SaveTypeStep ==
    ASSUME TypeInv, NEW d \in Device, SaveUserFound(d)
    PROVE  TypeInv'
<1> DEFINE t == reads[d]["save"].team
<1>1. TypeOK /\ "save" \in Reader
    BY DEF TypeInv, Reader
<1>2. reads' \in [Device -> [Reader -> Read \cup {Idle}]] /\ t \in Record
    BY <1>1, AnsweredIs DEF SaveUserFound
<1>3. UserPut(t) \in Put
    BY <1>2, RecordPut
<1>4. UNCHANGED <<server, auth, screen, profile, unheard, minted, homes, faults, dropped>>
    BY DEF SaveUserFound
<1>5. CASE user[d]
    <2>1. Write(d, <<UserPut(t)>>) /\ Choose(d, t) /\ Notify(d, puts'[d], seen[d])
        BY <1>5 DEF SaveUserFound
    <2>2. /\ puts' = [puts EXCEPT ![d] = Append(@, UserPut(t))]
          /\ puts' \in [Device -> Seq(Put)] /\ puts'[d] \in Seq(Put)
          /\ sets' \in 0..MaxSets
        BY <1>1, <1>3, <2>1, WriteOne
    <2>3. HeardWrites'
        BY <1>3, <1>4, <2>2, HeardByAppend
    <2>4. choice' \in [Account -> Record]
        BY <1>1, <1>2, <2>1, AccountAssumption DEF Choose, TypeOK
    <2>5. mainq' \in [Device -> Seq(Record \cup {NoRecord})]
        <3>1. seen[d] \in Record \cup {NoRecord}
            BY <1>1 DEF TypeOK
        <3> QED BY <1>1, <2>1, <2>2, <3>1, NotifyType
    <2> QED BY <1>1, <1>2, <1>4, <2>2, <2>3, <2>4, <2>5
            DEF TypeInv, TypeOK, server, profile
<1>6. CASE ~user[d]
    <2>1. UNCHANGED <<sets, choice, puts, mainq>>
        BY <1>6 DEF SaveUserFound
    <2> QED BY <1>1, <1>2, <1>4, <2>1 DEF TypeInv, TypeOK, HeardWrites, server, profile
<1> QED BY <1>5, <1>6

LEMMA TabsTypeStep ==
    ASSUME TypeInv, NEW d \in Device, FetchUser(d) \/ LoadTab(d)
    PROVE  TypeInv'
<1>1. TypeOK /\ mainq[d] \in Seq(Record \cup {NoRecord})
    BY DEF TypeInv, TypeOK
<1>2. CASE LoadTab(d)
    <2>1. tab' \in [Device -> Team \cup {DefaultTeam, Idle}]
        BY <1>1, <1>2 DEF LoadTab, TypeOK
    <2> QED BY <1>2, <2>1
            DEF LoadTab, TypeInv, TypeOK, HeardWrites, server, client, counts, history
<1>3. CASE FetchUser(d)
    <2>1. Tail(mainq[d]) \in Seq(Record \cup {NoRecord}) /\ Head(mainq[d]) \in Record \cup {NoRecord}
        BY <1>1, <1>3, HeadTailProperties DEF FetchUser
    <2>2. mainq' \in [Device -> Seq(Record \cup {NoRecord})]
        BY <1>1, <1>3, <2>1 DEF FetchUser, TypeOK
    <2>3. user' \in [Device -> BOOLEAN] /\ teamId' \in [Device -> Team \cup {DefaultTeam}]
        <3>1. Head(mainq[d]) # NoTeam
            BY <1>3 DEF FetchUser
        <3>2. Head(mainq[d]) = NoRecord \/ Head(mainq[d]) \in Team
            BY <2>1, <3>1 DEF Record
        <3> QED BY <1>1, <1>3, <3>2 DEF FetchUser, TypeOK
    <2> QED BY <1>1, <1>3, <2>2, <2>3
            DEF FetchUser, TypeInv, TypeOK, HeardWrites, server, counts, history
<1> QED BY <1>2, <1>3

\* The server's steps.
LEMMA ServerTypeStep ==
    ASSUME TypeInv, NEW d \in Device,
           (\E r \in Reader : ServerRead(d, r)) \/ ServerPush(d) \/ ServerApply(d)
    PROVE  TypeInv'
<1>1. TypeOK /\ puts[d] \in Seq(Put) /\ Mine(d) \in Record \cup {NoRecord}
    BY AccountAssumption DEF TypeInv, TypeOK, Mine
<1>2. CASE \E r \in Reader : ServerRead(d, r)
    <2>1. PICK r \in Reader : ServerRead(d, r)
        BY <1>2
    <2>2. reads' \in [Device -> [Reader -> Read \cup {Idle}]]
        BY <1>1, <2>1, ServerReadIs
    <2> QED BY <2>1, <2>2 DEF ServerRead, TypeInv, TypeOK, HeardWrites,
                              server, profile, client, counts, history
<1>3. CASE ServerPush(d)
    <2>1. mainq' \in [Device -> Seq(Record \cup {NoRecord})]
        BY <1>1, <1>3, NotifyType DEF ServerPush
    <2>2. seen' \in [Device -> Record \cup {NoRecord}]
        BY <1>1, <1>3 DEF ServerPush, TypeOK
    <2> QED BY <1>3, <2>1, <2>2
            DEF ServerPush, TypeInv, TypeOK, HeardWrites, server, counts, history
<1>4. CASE ServerApply(d)
    <2>1. unheard[d] \in Nat /\ Len(puts[d]) \in Nat /\ unheard[d] + 1 \in 1..Len(puts[d])
        BY <1>1, <1>4, LenProperties DEF ServerApply, TypeOK
    <2>2. puts[d][unheard[d] + 1] \in Put
        BY <1>1, <2>1, ElementOfSeq
    <2>3. PICK p \in Put : p = puts[d][unheard[d] + 1]
        BY <2>2
    <2>4. (p.path = "Users" /\ p.team \in Record) \/ (p.path = "Teams" /\ p.team \in Team)
        BY DEF Put
    <2>5. users' \in [Account -> Record \cup {NoRecord}] /\ teams' \in SUBSET Team
        <3>1. users \in [Account -> Record \cup {NoRecord}] /\ teams \in SUBSET Team
            BY <1>1 DEF TypeOK
        <3>2. CASE p.path = "Users"
            <4>1. users' = [users EXCEPT ![AccountOf[d]] = p.team] /\ UNCHANGED teams
                BY <1>4, <2>3, <3>2 DEF ServerApply
            <4> QED BY <2>4, <3>1, <3>2, <4>1
        <3>3. CASE p.path = "Teams"
            <4>1. teams' = teams \cup {p.team} /\ UNCHANGED users
                BY <1>4, <2>3, <3>3 DEF ServerApply
            <4> QED BY <2>4, <3>1, <3>3, <4>1
        <3> QED BY <2>4, <3>2, <3>3
    <2>6. unheard' \in [Device -> Nat] /\ unheard'[d] = unheard[d] + 1
          /\ \A x \in Device : x # d => unheard'[x] = unheard[x]
        BY <1>1, <1>4, <2>1 DEF ServerApply, TypeOK
    <2>7. HeardWrites'
        <3> SUFFICES ASSUME NEW x \in Device PROVE unheard'[x] <= Len(puts'[x])
            BY DEF HeardWrites
        <3>1. unheard[x] <= Len(puts[x]) /\ puts' = puts
            BY <1>4 DEF ServerApply, HeardWrites, TypeInv
        <3> QED BY <2>1, <2>6, <3>1
    <2> QED BY <1>4, <2>5, <2>6, <2>7
            DEF ServerApply, TypeInv, TypeOK, profile, counts, history
<1> QED BY <1>2, <1>3, <1>4

\* Answers, lost connections and refusals.
LEMMA AnswerTypeStep ==
    ASSUME TypeInv, NEW d \in Device, RecvAck(d) \/ Disconnect(d) \/ ServerReject(d)
    PROVE  TypeInv'
<1>1. /\ TypeOK /\ puts[d] \in Seq(Put) /\ puts \in [Device -> Seq(Put)]
      /\ Mine(d) \in Record \cup {NoRecord}
      /\ unheard \in [Device -> Nat] /\ seen \in [Device -> Record \cup {NoRecord}]
      /\ MaxFaults \in Nat
    BY AccountAssumption, EnrolBoundAssumption DEF TypeInv, TypeOK, Mine
<1>2. \A x \in Device : unheard[x] <= Len(puts[x])
    BY DEF TypeInv, HeardWrites
<1>3. CASE Disconnect(d)
    <2>1. unheard' \in [Device -> Nat] /\ puts' = puts /\ faults' \in 0..MaxFaults
        BY <1>1, <1>3 DEF Disconnect, TypeOK
    <2>2. HeardWrites'
        <3> SUFFICES ASSUME NEW x \in Device PROVE unheard'[x] <= Len(puts'[x])
            BY DEF HeardWrites
        <3>1. Len(puts[x]) \in Nat
            BY <1>1, LenProperties
        <3>2. unheard'[x] = 0 \/ unheard'[x] = unheard[x]
            BY <1>1, <1>3 DEF Disconnect
        <3> QED BY <1>2, <2>1, <3>1, <3>2
    <2> QED BY <1>3, <2>1, <2>2
            DEF Disconnect, TypeInv, TypeOK, server, profile, history
<1>4. CASE RecvAck(d) \/ ServerReject(d)
    <2>1. puts[d] # <<>>
        BY <1>4, Oldest DEF RecvAck, ServerReject
    <2>2. Tail(puts[d]) \in Seq(Put) /\ Len(puts[d]) \in Nat \ {0}
          /\ Len(Tail(puts[d])) = Len(puts[d]) - 1
        BY <1>1, <2>1, PutsTail
    <2>3. puts' = [puts EXCEPT ![d] = Tail(@)]
        BY <1>4 DEF RecvAck, ServerReject
    <2>4. puts' \in [Device -> Seq(Put)] /\ puts'[d] = Tail(puts[d])
          /\ \A x \in Device : x # d => puts'[x] = puts[x]
        BY <1>1, <2>2, <2>3
    <2>5. /\ unheard' \in [Device -> Nat] /\ unheard'[d] <= Len(puts[d]) - 1
          /\ \A x \in Device : x # d => unheard'[x] = unheard[x]
        <3>1. unheard[d] \in Nat /\ unheard[d] <= Len(puts[d])
            BY <1>1, <1>2
        <3>2. CASE RecvAck(d)
            BY <1>1, <2>2, <3>1, <3>2 DEF RecvAck
        <3>3. CASE ServerReject(d)
            BY <1>1, <2>2, <3>1, <3>3 DEF ServerReject
        <3> QED BY <1>4, <3>2, <3>3
    <2>6. HeardWrites'
        <3> SUFFICES ASSUME NEW x \in Device PROVE unheard'[x] <= Len(puts'[x])
            BY DEF HeardWrites
        <3>1. CASE x = d
            BY <2>2, <2>4, <2>5, <3>1
        <3>2. CASE x # d
            BY <1>2, <2>4, <2>5, <3>2
        <3> QED BY <3>1, <3>2
    <2>7. seen' \in [Device -> Record \cup {NoRecord}]
        BY <1>1, <1>4 DEF RecvAck, ServerReject, profile
    <2>8. mainq' \in [Device -> Seq(Record \cup {NoRecord})]
        <3>1. Notify(d, puts'[d], seen'[d])
            BY <1>4 DEF RecvAck, ServerReject, profile
        <3>2. puts'[d] \in Seq(Put) /\ seen'[d] \in Record \cup {NoRecord}
            BY <2>2, <2>4, <2>7
        <3> QED BY <1>1, <3>1, <3>2, NotifyType
    <2>9. faults' \in 0..MaxFaults
        BY <1>1, <1>4 DEF RecvAck, ServerReject, TypeOK, counts
    <2>10. dropped' \in SUBSET (Account \cup Team)
        BY <1>1, <1>4, AccountAssumption
        DEF RecvAck, ServerReject, TypeOK, counts, history, LostWith
    <2> QED BY <1>1, <1>4, <2>4, <2>5, <2>6, <2>7, <2>8, <2>9, <2>10
            DEF RecvAck, ServerReject, TypeInv, TypeOK, server, profile, counts, history
<1> QED BY <1>3, <1>4

LEMMA EndTypeStep ==
    ASSUME TypeInv, NEW d \in Device, Kill(d) \/ Crash(d)
    PROVE  TypeInv'
<1>1. TypeOK /\ MaxFaults \in Nat /\ puts \in [Device -> Seq(Put)]
      /\ unheard \in [Device -> Nat]
    BY EnrolBoundAssumption DEF TypeInv, TypeOK
<1>2. EndProcess(d, "off") \/ EndProcess(d, "crashed")
    BY DEF Kill, Crash
<1>3. faults' \in 0..MaxFaults
    BY <1>1 DEF Kill, Crash, TypeOK
<1>4. /\ puts' = [puts EXCEPT ![d] = <<>>] /\ unheard' = [unheard EXCEPT ![d] = 0]
      /\ mainq' = [mainq EXCEPT ![d] = <<>>]
    BY <1>2 DEF EndProcess
<1>5. /\ puts' \in [Device -> Seq(Put)] /\ unheard' \in [Device -> Nat]
      /\ mainq' \in [Device -> Seq(Record \cup {NoRecord})]
    BY <1>1, <1>4, EmptySeq DEF TypeOK
<1>6. HeardWrites'
    <2> SUFFICES ASSUME NEW x \in Device PROVE unheard'[x] <= Len(puts'[x])
        BY DEF HeardWrites
    <2>1. CASE x = d
        <3>1. Len(<<>>) = 0 /\ unheard'[d] = 0 /\ puts'[d] = <<>>
            BY <1>1, <1>4, EmptySeq
        <3> QED BY <2>1, <3>1
    <2>2. CASE x # d
        <3>1. unheard[x] <= Len(puts[x])
            BY DEF TypeInv, HeardWrites
        <3> QED BY <1>1, <1>4, <2>2, <3>1
    <2> QED BY <2>1, <2>2
<1>7. /\ UNCHANGED <<server, auth, minted, sets, homes, choice>>
      /\ screen' \in [Device -> Screen]
      /\ reads' \in [Device -> [Reader -> Read \cup {Idle}]]
      /\ observing' \in [Device -> BOOLEAN]
    <2>1. PICK to \in Screen : EndProcess(d, to)
        BY <1>2 DEF Screen
    <2>2. UNCHANGED <<server, auth, minted, sets, homes, choice>>
        BY <2>1 DEF EndProcess
    <2>3. screen' \in [Device -> Screen] /\ observing' \in [Device -> BOOLEAN]
        BY <1>1, <2>1 DEF EndProcess, TypeOK
    <2>4. reads' \in [Device -> [Reader -> Read \cup {Idle}]]
        BY <1>1, <2>1 DEF EndProcess, TypeOK
    <2> QED BY <2>2, <2>3, <2>4
<1>8. /\ seen' \in [Device -> Record \cup {NoRecord}]
      /\ user' \in [Device -> BOOLEAN]
      /\ teamId' \in [Device -> Team \cup {DefaultTeam}]
      /\ tab' \in [Device -> Team \cup {DefaultTeam, Idle}]
    BY <1>1, <1>2 DEF EndProcess, TypeOK
<1>9. dropped' \in SUBSET (Account \cup Team)
    BY <1>1, <1>2, AccountAssumption DEF EndProcess, TypeOK, LostWith
<1> QED BY <1>1, <1>3, <1>5, <1>6, <1>7, <1>8, <1>9 DEF TypeInv, TypeOK, server

LEMMA TypeInvStep == TypeInv /\ [Next]_vars => TypeInv'
<1> SUFFICES ASSUME TypeInv, [Next]_vars PROVE TypeInv'
    OBVIOUS
<1>1. CASE UNCHANGED vars
    <2>1. /\ UNCHANGED <<users, teams, auth, screen, reads, observing, seen, user, teamId, tab>>
          /\ UNCHANGED <<puts, unheard, mainq, minted, sets, homes, faults, choice, dropped>>
        BY <1>1 DEF vars, server, profile, client, counts, history
    <2> QED BY <2>1 DEF TypeInv, TypeOK, HeardWrites
<1>2. CASE Next
    <2>1. PICK d \in Device : Player(d) \/ AutoHome(d) \/ System(d) \/ Fault(d)
        BY <1>2 DEF Next
    <2>2. CASE Fault(d)
        BY <2>2, AnswerTypeStep, EndTypeStep DEF Fault
    <2>3. CASE AutoHome(d)
        BY <2>3, HomeTypeStep
    <2>4. CASE System(d)
        <3>1. CASE \E r \in {"join", "save"} : TeamNotFound(d, r)
            BY <3>1, QuietType, QuietStep
        <3>2. CASE (\E r \in Reader : ServerRead(d, r)) \/ ServerPush(d) \/ ServerApply(d)
            BY <3>2, ServerTypeStep
        <3>3. CASE SignInKnown(d) \/ Register(d) \/ Join(d) \/ SaveUserFound(d)
            BY <3>3, HomeTypeStep, RegisterTypeStep, JoinTypeStep, SaveTypeStep
        <3>4. CASE RecvAck(d) \/ FetchUser(d) \/ Crash(d)
            BY <3>4, AnswerTypeStep, TabsTypeStep, EndTypeStep
        <3> QED BY <2>4, <3>1, <3>2, <3>3, <3>4 DEF System
    <2>5. CASE Player(d)
        <3>1. CASE \/ Launch(d) \/ OpenFirebaseUI(d) \/ CancelFirebaseUI(d)
                   \/ DidSignIn(d) \/ SignOut(d)
            BY <3>1, QuietType, QuietStep
        <3>2. CASE LoadTab(d)
            BY <3>2, TabsTypeStep
        <3>3. CASE \E t \in Team : Submit(d, t) \/ SubmitNewTeam(d, t) \/ SaveUser(d, t)
            <4>1. PICK t \in Team : Submit(d, t) \/ SubmitNewTeam(d, t) \/ SaveUser(d, t)
                BY <3>3
            <4>2. CASE SubmitNewTeam(d, t)
                BY <4>2, NewTeamTypeStep
            <4>3. CASE Submit(d, t) \/ SaveUser(d, t)
                BY <4>3, QuietType, QuietStep
            <4> QED BY <4>1, <4>2, <4>3
        <3> QED BY <2>5, <3>1, <3>2, <3>3 DEF Player
    <2> QED BY <2>1, <2>2, <2>3, <2>4, <2>5
<1> QED BY <1>1, <1>2

\* Whatever the devices do, every variable stays of its type.
THEOREM TypeCorrect == Spec => []TypeOK
<1>1. TypeInv => TypeOK
    BY DEF TypeInv
<1> QED BY TypeInvInit, TypeInvStep, <1>1, PTL DEF Spec

-----------------------------------------------------------------------------
(* A device touches what is its own, and the record of its account.        *)

SameAt(x) ==
    /\ auth'[x] = auth[x] /\ screen'[x] = screen[x] /\ reads'[x] = reads[x]
    /\ observing'[x] = observing[x] /\ seen'[x] = seen[x] /\ user'[x] = user[x]
    /\ teamId'[x] = teamId[x] /\ tab'[x] = tab[x]
    /\ puts'[x] = puts[x] /\ unheard'[x] = unheard[x] /\ mainq'[x] = mainq[x]

DeviceStep(d) == Player(d) \/ AutoHome(d) \/ System(d) \/ Fault(d)

LEMMA GoHomeSame ==
    ASSUME TypeOK, NEW d \in Device, NEW ps, GoHome(d, ps), NEW x \in Device, x # d
    PROVE  /\ screen'[x] = screen[x] /\ observing'[x] = observing[x]
           /\ user'[x] = user[x] /\ mainq'[x] = mainq[x]
           /\ tab'[x] = tab[x] /\ seen'[x] = seen[x]
    BY DEF GoHome, TypeOK

LEMMA WriteSame ==
    ASSUME TypeOK, NEW d \in Device, NEW ps, Write(d, ps), NEW x \in Device, x # d
    PROVE  puts'[x] = puts[x]
    BY DEF Write, TypeOK

LEMMA NotifySame ==
    ASSUME TypeOK, NEW d \in Device, NEW ps, NEW s, Notify(d, ps, s), NEW x \in Device, x # d
    PROVE  mainq'[x] = mainq[x]
    BY DEF Notify, TypeOK

LEMMA ReadsSame ==
    ASSUME TypeOK, NEW d \in Device, NEW x \in Device, x # d, NEW r,
           (\E a : Answered(d, r, a)) \/ (\E t : Ask(d, r, t)) \/ ServerRead(d, r)
    PROVE  reads'[x] = reads[x]
<1>1. reads \in [Device -> [Reader -> Read \cup {Idle}]]
    BY DEF TypeOK
<1>2. CASE \E a : Answered(d, r, a)
    BY <1>1, <1>2 DEF Answered
<1>3. CASE \E t : Ask(d, r, t)
    BY <1>1, <1>3 DEF Ask
<1>4. CASE ServerRead(d, r)
    BY <1>1, <1>4 DEF ServerRead
<1> QED BY <1>2, <1>3, <1>4

LEMMA OnlyDevice ==
    ASSUME TypeInv, NEW d \in Device, DeviceStep(d), NEW x \in Device, x # d
    PROVE  SameAt(x)
<1>1. TypeOK
    BY DEF TypeInv
<1>2. CASE Launch(d) \/ OpenFirebaseUI(d) \/ CancelFirebaseUI(d) \/ SignOut(d)
    BY <1>1, <1>2 DEF Launch, OpenFirebaseUI, CancelFirebaseUI, SignOut,
                      SameAt, TypeOK, profile, client
<1>3. CASE DidSignIn(d)
    <2>1. reads'[x] = reads[x]
        BY <1>1, <1>3, ReadsSame DEF DidSignIn
    <2> QED BY <1>1, <1>3, <2>1 DEF DidSignIn, SameAt, TypeOK, profile, client
<1>4. CASE \E t \in Team : Submit(d, t) \/ SaveUser(d, t)
    <2>1. reads'[x] = reads[x]
        BY <1>1, <1>4, ReadsSame DEF Submit, SaveUser
    <2> QED BY <1>4, <2>1 DEF Submit, SaveUser, SameAt, profile, client
<1>5. CASE \E t \in Team : SubmitNewTeam(d, t)
    <2>1. PICK t \in Team : SubmitNewTeam(d, t)
        BY <1>5
    <2>2. /\ GoHome(d, puts'[d]) /\ Write(d, <<UserPut(t), TeamPut(t)>>)
          /\ UNCHANGED <<auth, reads, unheard>>
          /\ teamId' = [teamId EXCEPT ![d] = t]
        BY <2>1 DEF SubmitNewTeam
    <2>3. PICK ps : ps = puts'[d]
        OBVIOUS
    <2>4. GoHome(d, ps)
        BY <2>2, <2>3
    <2>5. teamId'[x] = teamId[x] /\ puts'[x] = puts[x]
        BY <1>1, <2>2, WriteSame DEF TypeOK
    <2> QED BY <1>1, <2>2, <2>4, <2>5, GoHomeSame DEF SameAt
<1>6. CASE LoadTab(d)
    BY <1>1, <1>6 DEF LoadTab, SameAt, TypeOK, client
<1>7. CASE AutoHome(d)
    BY <1>1, <1>7, GoHomeSame DEF AutoHome, SameAt
<1>8. CASE SignInKnown(d)
    <2>1. reads'[x] = reads[x]
        BY <1>1, <1>8, ReadsSame DEF SignInKnown
    <2> QED BY <1>1, <1>8, <2>1, GoHomeSame DEF SignInKnown, SameAt
<1>9. CASE Register(d)
    <2>1. reads'[x] = reads[x]
        BY <1>1, <1>9, ReadsSame DEF Register
    <2>2. puts'[x] = puts[x] /\ mainq'[x] = mainq[x]
        BY <1>1, <1>9, WriteSame, NotifySame DEF Register
    <2> QED BY <1>1, <1>9, <2>1, <2>2 DEF Register, SameAt, TypeOK, profile
<1>10. CASE Join(d)
    <2>1. reads'[x] = reads[x]
        BY <1>1, <1>10, ReadsSame DEF Join
    <2>2. puts'[x] = puts[x] /\ UNCHANGED <<auth, teamId, unheard>>
        BY <1>1, <1>10, WriteSame DEF Join
    <2>3. PICK ps : ps = puts'[d]
        OBVIOUS
    <2>4. \/ GoHome(d, ps)
          \/ Notify(d, ps, seen[d]) /\ UNCHANGED <<screen, observing, user, seen, tab>>
        BY <1>10, <2>3 DEF Join
    <2>5. CASE GoHome(d, ps)
        BY <1>1, <2>1, <2>2, <2>5, GoHomeSame DEF SameAt
    <2>6. CASE Notify(d, ps, seen[d]) /\ UNCHANGED <<screen, observing, user, seen, tab>>
        BY <1>1, <2>1, <2>2, <2>6, NotifySame DEF SameAt
    <2> QED BY <2>4, <2>5, <2>6
<1>11. CASE SaveUserFound(d)
    <2>1. reads'[x] = reads[x]
        BY <1>1, <1>11, ReadsSame DEF SaveUserFound
    <2>2. puts'[x] = puts[x] /\ mainq'[x] = mainq[x]
        BY <1>1, <1>11, WriteSame, NotifySame DEF SaveUserFound
    <2> QED BY <1>11, <2>1, <2>2 DEF SaveUserFound, SameAt, profile
<1>12. CASE \E r \in {"join", "save"} : TeamNotFound(d, r)
    <2>1. reads'[x] = reads[x]
        BY <1>1, <1>12, ReadsSame DEF TeamNotFound
    <2> QED BY <1>12, <2>1 DEF TeamNotFound, SameAt, profile, client
<1>13. CASE \E r \in Reader : ServerRead(d, r)
    <2>1. reads'[x] = reads[x]
        BY <1>1, <1>13, ReadsSame
    <2> QED BY <1>13, <2>1 DEF ServerRead, SameAt, profile, client
<1>14. CASE ServerPush(d) \/ ServerApply(d)
    <2>1. mainq'[x] = mainq[x]
        BY <1>1, <1>14, NotifySame DEF ServerPush, ServerApply
    <2> QED BY <1>1, <1>14, <2>1 DEF ServerPush, ServerApply, SameAt, TypeOK, profile
<1>15. CASE RecvAck(d) \/ Disconnect(d) \/ ServerReject(d)
    <2>1. mainq'[x] = mainq[x]
        BY <1>1, <1>15, NotifySame DEF RecvAck, Disconnect, ServerReject
    <2> QED BY <1>1, <1>15, <2>1
            DEF RecvAck, Disconnect, ServerReject, SameAt, TypeOK, profile
<1>16. CASE FetchUser(d)
    BY <1>1, <1>16 DEF FetchUser, SameAt, TypeOK
<1>17. CASE Kill(d) \/ Crash(d)
    <2>1. PICK to : EndProcess(d, to)
        BY <1>17 DEF Kill, Crash
    <2> QED BY <1>1, <2>1 DEF EndProcess, SameAt, TypeOK
<1> QED BY <1>2, <1>3, <1>4, <1>5, <1>6, <1>7, <1>8, <1>9, <1>10, <1>11, <1>12, <1>13,
           <1>14, <1>15, <1>16, <1>17
        DEF DeviceStep, Player, System, Fault

-----------------------------------------------------------------------------
(* teamIdGlobal.  What fetchUser's observer was told last, or is still to  *)
(* be told, is always the own record as the client sees it now.            *)

Known(d) == View(puts[d], seen[d])

GlobalOf(d) ==
    IF observing[d]
    THEN IF mainq[d] = <<>> THEN Known(d) \in Team => teamId[d] = Known(d)
                            ELSE mainq[d][Len(mainq[d])] = Known(d)
    ELSE seen[d] = NoRecord /\ mainq[d] = <<>>

GlobalInv == \A d \in Device : GlobalOf(d)

LEMMA GlobalSame ==
    ASSUME NEW d \in Device, GlobalOf(d),
           observing'[d] = observing[d], mainq'[d] = mainq[d], seen'[d] = seen[d],
           puts'[d] = puts[d], teamId'[d] = teamId[d]
    PROVE  GlobalOf(d)'
    BY DEF GlobalOf, Known

\* The last element of a queue that has got one more.
LEMMA LastAppended ==
    ASSUME NEW q \in Seq(Record \cup {NoRecord}), NEW v \in Record \cup {NoRecord}
    PROVE  Append(q, v) # <<>> /\ Append(q, v)[Len(Append(q, v))] = v
    BY AppendProperties

LEMMA NotifyGlobal ==
    ASSUME TypeInv, NEW d \in Device, NEW ps \in Seq(Put), NEW s \in Record \cup {NoRecord},
           Notify(d, ps, s), GlobalOf(d), observing[d] \/ s = seen[d],
           observing'[d] = observing[d], teamId'[d] = teamId[d],
           puts'[d] = ps, seen'[d] = s
    PROVE  GlobalOf(d)'
<1>1. /\ mainq \in [Device -> Seq(Record \cup {NoRecord})]
      /\ puts[d] \in Seq(Put) /\ seen[d] \in Record \cup {NoRecord}
    BY DEF TypeInv, TypeOK
<1>2. Known(d)' = View(ps, s) /\ View(ps, s) \in Record \cup {NoRecord}
    BY ViewType DEF Known
<1>3. CASE observing[d] /\ View(ps, s) # Known(d)
    <2>1. mainq' = [mainq EXCEPT ![d] = Append(@, View(ps, s))]
        BY <1>3 DEF Notify, Known
    <2>2. mainq'[d] = Append(mainq[d], View(ps, s)) /\ mainq[d] \in Seq(Record \cup {NoRecord})
        BY <1>1, <2>1
    <2>3. mainq'[d] # <<>> /\ mainq'[d][Len(mainq'[d])] = Known(d)'
        BY <1>2, <2>2, LastAppended
    <2> QED BY <1>3, <2>3 DEF GlobalOf
<1>4. CASE ~ (observing[d] /\ View(ps, s) # Known(d))
    <2>1. mainq' = mainq
        BY <1>4 DEF Notify, Known
    <2>2. CASE observing[d]
        BY <1>2, <1>4, <2>1, <2>2 DEF GlobalOf
    <2>3. CASE ~observing[d]
        BY <1>2, <2>1, <2>3 DEF GlobalOf
    <2> QED BY <2>2, <2>3
<1> QED BY <1>3, <1>4

LEMMA HomeGlobal ==
    ASSUME TypeInv, NEW d \in Device, NEW ps \in Seq(Put), GoHome(d, ps), GlobalOf(d),
           puts'[d] = ps
    PROVE  GlobalOf(d)'
<1>1. /\ mainq \in [Device -> Seq(Record \cup {NoRecord})]
      /\ seen[d] \in Record \cup {NoRecord}
      /\ observing \in [Device -> BOOLEAN]
    BY DEF TypeInv, TypeOK
<1>2. observing'[d] /\ seen' = seen
    BY <1>1 DEF GoHome
<1>3. Known(d)' = View(ps, seen[d]) /\ View(ps, seen[d]) \in Record \cup {NoRecord}
    BY <1>1, <1>2, ViewType DEF Known
<1>4. CASE observing[d] \/ OwnPuts(ps) # {}
    <2>1. mainq'[d] = Append(mainq[d], View(ps, seen[d])) /\ mainq[d] \in Seq(Record \cup {NoRecord})
        BY <1>1, <1>4 DEF GoHome
    <2>2. PICK v \in Record \cup {NoRecord} : v = View(ps, seen[d])
        BY <1>3
    <2>3. PICK q \in Seq(Record \cup {NoRecord}) : q = mainq[d]
        BY <2>1
    <2>4. Append(q, v) # <<>> /\ Append(q, v)[Len(Append(q, v))] = v
        BY LastAppended
    <2>5. mainq'[d] # <<>> /\ mainq'[d][Len(mainq'[d])] = Known(d)'
        BY <1>3, <2>1, <2>2, <2>3, <2>4
    <2> QED BY <1>2, <2>5 DEF GlobalOf
<1>5. CASE ~observing[d] /\ OwnPuts(ps) = {}
    <2>1. mainq' = mainq /\ mainq[d] = <<>> /\ seen[d] = NoRecord
        BY <1>5 DEF GoHome, GlobalOf
    <2>2. Known(d)' = NoRecord /\ NoRecord \notin Team
        BY <1>3, <1>5, <2>1, ViewIs, DistinctAssumption
    <2> QED BY <1>2, <2>1, <2>2 DEF GlobalOf
<1> QED BY <1>4, <1>5

LEMMA FetchGlobal ==
    ASSUME TypeInv, NEW d \in Device, FetchUser(d), GlobalOf(d)
    PROVE  GlobalOf(d)'
<1>1. /\ mainq \in [Device -> Seq(Record \cup {NoRecord})]
      /\ teamId \in [Device -> Team \cup {DefaultTeam}]
    BY DEF TypeInv, TypeOK
<1>2. /\ mainq[d] # <<>> /\ mainq[d] \in Seq(Record \cup {NoRecord})
      /\ mainq'[d] = Tail(mainq[d])
      /\ UNCHANGED <<observing, seen, puts>>
    BY <1>1 DEF FetchUser
<1>3. Known(d)' = Known(d) /\ observing'[d] = observing[d] /\ observing[d]
    BY <1>2 DEF Known, GlobalOf
<1>4. mainq[d][Len(mainq[d])] = Known(d)
    BY <1>2, <1>3 DEF GlobalOf
<1>5. /\ Len(mainq[d]) \in Nat \ {0} /\ Head(mainq[d]) = mainq[d][1]
      /\ Tail(mainq[d]) \in Seq(Record \cup {NoRecord})
      /\ Len(Tail(mainq[d])) = Len(mainq[d]) - 1
      /\ \A i \in 1..Len(Tail(mainq[d])) : Tail(mainq[d])[i] = mainq[d][i + 1]
    BY <1>2, HeadTailProperties, EmptySeq
<1>6. CASE Tail(mainq[d]) = <<>>
    <2>1. Len(Tail(mainq[d])) = 0
        <3>1. Len(<<>>) = 0
            OBVIOUS
        <3> QED BY <1>6, <3>1
    <2>2. Head(mainq[d]) = Known(d)
        BY <1>4, <1>5, <2>1
    <2>3. Known(d) \in Team => teamId'[d] = Known(d)
        BY <1>1, <2>2, DistinctAssumption DEF FetchUser
    <2> QED BY <1>2, <1>3, <1>6, <2>3 DEF GlobalOf
<1>7. CASE Tail(mainq[d]) # <<>>
    <2>1. Len(Tail(mainq[d])) \in Nat \ {0}
        BY <1>5, <1>7, EmptySeq
    <2>2. Tail(mainq[d])[Len(Tail(mainq[d]))] = mainq[d][Len(mainq[d])]
        <3>1. PICK n \in Nat \ {0} : n = Len(Tail(mainq[d]))
            BY <2>1
        <3>2. PICK l \in Nat \ {0} : l = Len(mainq[d])
            BY <1>5
        <3>3. n = l - 1 /\ \A i \in 1..n : Tail(mainq[d])[i] = mainq[d][i + 1]
            BY <1>5, <3>1, <3>2
        <3>4. n \in 1..n /\ n + 1 = l
            BY <3>3
        <3>5. Tail(mainq[d])[n] = mainq[d][n + 1]
            BY <3>3, <3>4
        <3> QED BY <3>1, <3>2, <3>4, <3>5
    <2> QED BY <1>2, <1>3, <1>4, <1>7, <2>2 DEF GlobalOf
<1> QED BY <1>6, <1>7

LEMMA GlobalAtDevice ==
    ASSUME TypeInv, TypeInv', NEW d \in Device, DeviceStep(d), GlobalOf(d)
    PROVE  GlobalOf(d)'
<1>1. /\ TypeOK /\ puts[d] \in Seq(Put) /\ seen[d] \in Record \cup {NoRecord}
      /\ puts \in [Device -> Seq(Put)] /\ seen \in [Device -> Record \cup {NoRecord}]
      /\ Mine(d) \in Record \cup {NoRecord}
      /\ puts'[d] \in Seq(Put) /\ seen'[d] \in Record \cup {NoRecord}
    BY AccountAssumption DEF TypeInv, TypeOK, Mine
<1>2. PICK ps \in Seq(Put) : ps = puts'[d]
    BY <1>1
<1>3. PICK s \in Record \cup {NoRecord} : s = seen'[d]
    BY <1>1
<1>4. CASE \/ Launch(d) \/ OpenFirebaseUI(d) \/ CancelFirebaseUI(d) \/ DidSignIn(d)
           \/ (\E t \in Team : Submit(d, t) \/ SaveUser(d, t)) \/ SignOut(d)
           \/ \E r \in {"join", "save"} : TeamNotFound(d, r)
    <2>1. Quiet(d)
        BY <1>4, QuietType
    <2> QED BY <2>1, GlobalSame DEF Quiet, profile, client
<1>5. CASE (\E r \in Reader : ServerRead(d, r)) \/ LoadTab(d) \/ ServerApply(d) \/ Disconnect(d)
    BY <1>5, GlobalSame DEF ServerRead, LoadTab, ServerApply, Disconnect, profile, client
<1>6. CASE AutoHome(d) \/ SignInKnown(d)
    <2>1. /\ puts'[d] = puts[d] /\ teamId'[d] = teamId[d]
          /\ \/ GoHome(d, puts[d])
             \/ UNCHANGED <<observing, mainq, seen>>
        BY <1>6 DEF AutoHome, SignInKnown
    <2> QED BY <1>1, <2>1, HomeGlobal, GlobalSame
<1>7. CASE \E t \in Team : SubmitNewTeam(d, t)
    <2>1. GoHome(d, ps)
        BY <1>2, <1>7 DEF SubmitNewTeam
    <2> QED BY <1>2, <2>1, HomeGlobal
<1>8. CASE Join(d)
    <2>1. \/ GoHome(d, ps)
          \/ /\ Notify(d, ps, seen[d]) /\ UNCHANGED <<observing, seen, teamId>>
        BY <1>2, <1>8 DEF Join
    <2> QED BY <1>1, <1>2, <2>1, HomeGlobal, NotifyGlobal
<1>9. CASE Register(d) \/ (SaveUserFound(d) /\ user[d])
    <2>1. Notify(d, ps, seen[d]) /\ UNCHANGED <<observing, seen, teamId>>
        BY <1>2, <1>9 DEF Register, SaveUserFound, profile
    <2> QED BY <1>1, <1>2, <2>1, NotifyGlobal
<1>10. CASE SaveUserFound(d) /\ ~user[d]
    BY <1>10, GlobalSame DEF SaveUserFound, profile
<1>11. CASE FetchUser(d)
    BY <1>11, FetchGlobal
<1>12. CASE ServerPush(d) \/ RecvAck(d) \/ ServerReject(d)
    <2>1. UNCHANGED <<observing, teamId>> /\ (observing[d] \/ s = seen[d])
        BY <1>3, <1>12 DEF ServerPush, RecvAck, ServerReject, profile
    <2>2. Notify(d, ps, s)
        <3>1. CASE ServerPush(d)
            <4>1. seen'[d] = Mine(d) /\ puts'[d] = puts[d] /\ Notify(d, puts[d], Mine(d))
                BY <1>1, <3>1 DEF ServerPush
            <4> QED BY <1>2, <1>3, <4>1
        <3>2. CASE RecvAck(d)
            BY <1>2, <1>3, <3>2 DEF RecvAck
        <3>3. CASE ServerReject(d)
            BY <1>2, <1>3, <3>3 DEF ServerReject, profile
        <3> QED BY <1>12, <3>1, <3>2, <3>3
    <2> QED BY <1>2, <1>3, <2>1, <2>2, NotifyGlobal
<1>13. CASE Kill(d) \/ Crash(d)
    <2>1. PICK to : EndProcess(d, to)
        BY <1>13 DEF Kill, Crash
    <2>2. ~observing'[d] /\ seen'[d] = NoRecord /\ mainq'[d] = <<>>
        BY <1>1, <2>1 DEF EndProcess, TypeOK
    <2> QED BY <2>2 DEF GlobalOf
<1> QED BY <1>4, <1>5, <1>6, <1>7, <1>8, <1>9, <1>10, <1>11, <1>12, <1>13
        DEF DeviceStep, Player, System, Fault

LEMMA GlobalStep == TypeInv /\ TypeInv' /\ GlobalInv /\ [Next]_vars => GlobalInv'
<1> SUFFICES ASSUME TypeInv, TypeInv', GlobalInv, [Next]_vars, NEW x \in Device
             PROVE  GlobalOf(x)'
    BY DEF GlobalInv
<1>1. GlobalOf(x)
    BY DEF GlobalInv
<1>2. CASE UNCHANGED vars
    BY <1>1, <1>2, GlobalSame DEF vars, profile, client
<1>3. CASE Next
    <2>1. PICK d \in Device : DeviceStep(d)
        BY <1>3 DEF Next, DeviceStep
    <2>2. CASE d = x
        BY <1>1, <2>1, <2>2, GlobalAtDevice
    <2>3. CASE d # x
        <3>1. SameAt(x)
            BY <2>1, <2>3, OnlyDevice
        <3> QED BY <1>1, <3>1, GlobalSame DEF SameAt
    <2> QED BY <2>2, <2>3
<1> QED BY <1>2, <1>3

\* teamIdGlobal follows the own record.  With no write left, nothing queued
\* and the server's record seen, it is the team of that record, although
\* submitNewTeam sets it early and saveUser does not set it at all.
THEOREM GlobalFollowsRecordCorrect == Spec => []GlobalFollowsRecord
<1>1. Init => GlobalInv
    BY DEF Init, GlobalInv, GlobalOf
<1>2. TypeInv /\ GlobalInv => GlobalFollowsRecord
    <2> SUFFICES ASSUME TypeInv, GlobalInv, NEW d \in Device, Settled(d), Mine(d) \in Team
                 PROVE  teamId[d] = Mine(d)
        BY DEF GlobalFollowsRecord
    <2>1. puts[d] = <<>> /\ puts[d] \in Seq(Put)
        BY DEF Settled, TypeInv, TypeOK
    <2>2. OwnPuts(puts[d]) = {}
        BY <2>1 DEF OwnPuts
    <2>3. Known(d) = Mine(d)
        BY <2>1, <2>2, ViewIs DEF Known, Settled
    <2> QED BY <2>3 DEF Settled, GlobalInv, GlobalOf
<1> QED BY TypeInvInit, TypeInvStep, GlobalStep, <1>1, <1>2, PTL DEF Spec

-----------------------------------------------------------------------------
(* Teams.  Whatever names a team - a record, a variable of a device, an    *)
(* element of its queue, a pending write, the answer to a read - names one *)
(* that is on the server, about to be, or lost with a write.               *)

Okay(t) == t \in teams \cup dropped \/ PendingFor(t)

PutNames(ps, t)   == \E i \in OwnPuts(ps) : ps[i].team = t
QueueNames(q, t)  == \E i \in DOMAIN q : q[i] = t
ReadNames(rs, t)  == \E r \in Reader : rs[r] # Idle /\ rs[r].answer = "found" /\ rs[r].team = t
DeviceNames(d, t) == \/ teamId[d] = t \/ tab[d] = t \/ seen[d] = t
                     \/ QueueNames(mainq[d], t) \/ PutNames(puts[d], t)
                     \/ ReadNames(reads[d], t)
RecordNames(t)    == \E a \in Account : users[a] = t
Named(t)          == RecordNames(t) \/ \E d \in Device : DeviceNames(d, t)

\* A put of a team that the server has applied is there.
HeardTeams == \A d \in Device : \A i \in 1..unheard[d] :
                  puts[d][i].path = "Teams" => puts[d][i].team \in teams
\* The read of the sign-in asks for no team.
SignInReads == \A d \in Device :
                  reads[d]["signIn"] # Idle => reads[d]["signIn"].team = NoTeam

NamedInv == HeardTeams /\ SignInReads /\ \A t \in Team : Named(t) => Okay(t)

LEMMA PutNamesAppend ==
    ASSUME NEW ps \in Seq(Put), NEW p \in Put, NEW t, PutNames(Append(ps, p), t)
    PROVE  PutNames(ps, t) \/ (p.path = "Users" /\ p.team = t)
<1>1. PICK i \in OwnPuts(Append(ps, p)) : Append(ps, p)[i].team = t
    BY DEF PutNames
<1>2. i \in OwnPuts(ps) \/ (i = Len(ps) + 1 /\ p.path = "Users")
    BY PutsAppend
<1>3. CASE i \in OwnPuts(ps)
    <2>1. i \in 1..Len(ps)
        BY <1>3, PutElement
    <2>2. ps[i].team = t
        BY <1>1, <2>1, PutsAppend
    <2> QED BY <1>3, <2>2 DEF PutNames
<1>4. CASE i = Len(ps) + 1 /\ p.path = "Users"
    <2>1. p.team = t
        BY <1>1, <1>4, PutsAppend
    <2> QED BY <1>4, <2>1
<1> QED BY <1>2, <1>3, <1>4

LEMMA PutNamesTail ==
    ASSUME NEW ps \in Seq(Put), ps # <<>>, NEW t, PutNames(Tail(ps), t)
    PROVE  PutNames(ps, t)
<1>1. PICK i \in OwnPuts(Tail(ps)) : Tail(ps)[i].team = t
    BY DEF PutNames
<1>2. i \in 1..(Len(ps) - 1) /\ i + 1 \in OwnPuts(ps)
    <2>1. i \in 1..Len(Tail(ps))
        BY PutsTail, PutElement
    <2> QED BY <2>1, PutsTail
<1>3. ps[i + 1].team = t
    BY <1>1, <1>2, PutsTail
<1> QED BY <1>2, <1>3 DEF PutNames

LEMMA QueueNamesAppend ==
    ASSUME NEW q \in Seq(Record \cup {NoRecord}), NEW v \in Record \cup {NoRecord},
           NEW t, QueueNames(Append(q, v), t)
    PROVE  QueueNames(q, t) \/ v = t
<1>1. PICK i \in DOMAIN Append(q, v) : Append(q, v)[i] = t
    BY DEF QueueNames
<1>2. DOMAIN Append(q, v) = 1..(Len(q) + 1) /\ DOMAIN q = 1..Len(q) /\ Len(q) \in Nat
    BY AppendProperties, LenProperties
<1>3. i \in 1..Len(q) \/ i = Len(q) + 1
    BY <1>2
<1> QED BY <1>1, <1>2, <1>3, AppendProperties DEF QueueNames

LEMMA QueueNamesTail ==
    ASSUME NEW q \in Seq(Record \cup {NoRecord}), q # <<>>, NEW t
    PROVE  /\ QueueNames(Tail(q), t) => QueueNames(q, t)
           /\ Head(q) = t => QueueNames(q, t)
<1>1. /\ DOMAIN q = 1..Len(q) /\ DOMAIN Tail(q) = 1..(Len(q) - 1)
      /\ Len(q) \in Nat \ {0} /\ Head(q) = q[1]
      /\ \A i \in 1..(Len(q) - 1) : Tail(q)[i] = q[i + 1]
    BY HeadTailProperties, LenProperties, EmptySeq
<1>2. ASSUME QueueNames(Tail(q), t) PROVE QueueNames(q, t)
    <2>1. PICK i \in 1..(Len(q) - 1) : Tail(q)[i] = t
        BY <1>1, <1>2 DEF QueueNames
    <2>2. i + 1 \in 1..Len(q) /\ q[i + 1] = t
        BY <1>1, <2>1
    <2> QED BY <1>1, <2>2 DEF QueueNames
<1>3. 1 \in DOMAIN q
    BY <1>1
<1> QED BY <1>1, <1>2, <1>3 DEF QueueNames

LEMMA ViewNames ==
    ASSUME NEW ps \in Seq(Put), NEW s, NEW t, View(ps, s) = t
    PROVE  s = t \/ PutNames(ps, t)
    BY ViewIs DEF PutNames

LEMMA NotifyNames ==
    ASSUME TypeOK, NEW d \in Device, NEW ps \in Seq(Put), NEW s \in Record \cup {NoRecord},
           Notify(d, ps, s), NEW t, QueueNames(mainq'[d], t)
    PROVE  QueueNames(mainq[d], t) \/ s = t \/ PutNames(ps, t)
<1>1. mainq \in [Device -> Seq(Record \cup {NoRecord})] /\ View(ps, s) \in Record \cup {NoRecord}
    BY ViewType DEF TypeOK
<1>2. mainq'[d] = mainq[d] \/ mainq'[d] = Append(mainq[d], View(ps, s))
    BY <1>1 DEF Notify
<1> QED BY <1>1, <1>2, QueueNamesAppend, ViewNames

LEMMA HomeNames ==
    ASSUME TypeOK, NEW d \in Device, NEW ps \in Seq(Put), GoHome(d, ps),
           NEW t, QueueNames(mainq'[d], t)
    PROVE  QueueNames(mainq[d], t) \/ seen[d] = t \/ PutNames(ps, t)
<1>1. /\ mainq \in [Device -> Seq(Record \cup {NoRecord})]
      /\ seen[d] \in Record \cup {NoRecord}
      /\ View(ps, seen[d]) \in Record \cup {NoRecord}
    BY ViewType DEF TypeOK
<1>2. mainq'[d] = mainq[d] \/ mainq'[d] = Append(mainq[d], View(ps, seen[d]))
    BY <1>1 DEF GoHome
<1> QED BY <1>1, <1>2, QueueNamesAppend, ViewNames

\* What can happen to a device's pending writes.
LEMMA PutsStep ==
    ASSUME TypeInv, NEW d \in Device, DeviceStep(d)
    PROVE  \/ ServerApply(d) \/ RecvAck(d) \/ Disconnect(d) \/ ServerReject(d)
           \/ Kill(d) \/ Crash(d)
           \/ puts'[d] = puts[d] /\ UNCHANGED <<unheard, teams, users, dropped>>
           \/ /\ \/ \E p \in Put : puts'[d] = Append(puts[d], p)
                 \/ \E p \in Put, q \in Put : puts'[d] = Append(Append(puts[d], p), q)
              /\ UNCHANGED <<unheard, teams, users, dropped>>
<1>1. TypeOK
    BY DEF TypeInv
<1>2. CASE \/ Launch(d) \/ OpenFirebaseUI(d) \/ CancelFirebaseUI(d) \/ DidSignIn(d)
           \/ (\E t \in Team : Submit(d, t) \/ SaveUser(d, t)) \/ SignOut(d)
           \/ \E r \in {"join", "save"} : TeamNotFound(d, r)
    <2>1. Quiet(d)
        BY <1>2, QuietType
    <2> QED BY <2>1 DEF Quiet, client, counts, history, server
<1>3. CASE (\E r \in Reader : ServerRead(d, r)) \/ LoadTab(d) \/ FetchUser(d) \/ ServerPush(d)
    BY <1>3 DEF ServerRead, LoadTab, FetchUser, ServerPush, client, counts, history, server
<1>4. CASE AutoHome(d) \/ SignInKnown(d)
    BY <1>4 DEF AutoHome, SignInKnown, history, server
<1>5. CASE \E t \in Team : SubmitNewTeam(d, t)
    <2>1. PICK t \in Team : SubmitNewTeam(d, t)
        BY <1>5
    <2>2. UserPut(t) \in Put /\ TeamPut(t) \in Put
        BY RecordPut, TeamPutType DEF Record
    <2>3. puts'[d] = Append(Append(puts[d], UserPut(t)), TeamPut(t))
        BY <1>1, <2>1, <2>2, WriteTwo DEF SubmitNewTeam
    <2> QED BY <2>1, <2>2, <2>3 DEF SubmitNewTeam, server
<1>6. CASE Register(d)
    <2>1. UserPut(NoTeam) \in Put
        BY RecordPut DEF Record
    <2>2. puts'[d] = Append(puts[d], UserPut(NoTeam))
        BY <1>1, <1>6, <2>1, WriteOne DEF Register
    <2> QED BY <1>6, <2>1, <2>2 DEF Register, server, history
<1>7. CASE Join(d)
    <2>1. UserPut(reads[d]["join"].team) \in Put
        BY <1>1, <1>7, AnsweredIs, RecordPut DEF Join, Reader
    <2>2. puts'[d] = Append(puts[d], UserPut(reads[d]["join"].team))
        BY <1>1, <1>7, <2>1, WriteOne DEF Join
    <2> QED BY <1>7, <2>1, <2>2 DEF Join, server
<1>8. CASE SaveUserFound(d) /\ user[d]
    <2>1. UserPut(reads[d]["save"].team) \in Put
        BY <1>1, <1>8, AnsweredIs, RecordPut DEF SaveUserFound, Reader
    <2>2. puts'[d] = Append(puts[d], UserPut(reads[d]["save"].team))
        BY <1>1, <1>8, <2>1, WriteOne DEF SaveUserFound
    <2> QED BY <1>8, <2>1, <2>2 DEF SaveUserFound, server
<1>9. CASE SaveUserFound(d) /\ ~user[d]
    BY <1>9 DEF SaveUserFound, server
<1> QED BY <1>2, <1>3, <1>4, <1>5, <1>6, <1>7, <1>8, <1>9
        DEF DeviceStep, Player, System, Fault

\* The server's set of teams and what is lost only ever grow.
LEMMA TeamsGrow ==
    ASSUME TypeInv, NEW d \in Device, DeviceStep(d)
    PROVE  teams \subseteq teams' /\ dropped \subseteq dropped'
<1>1. CASE ServerApply(d)
    BY <1>1 DEF ServerApply, counts, history
<1>2. CASE RecvAck(d) \/ Disconnect(d) \/ ServerReject(d)
    BY <1>2 DEF RecvAck, Disconnect, ServerReject, server, counts, history
<1>3. CASE Kill(d) \/ Crash(d)
    BY <1>3 DEF Kill, Crash, EndProcess, server
<1> QED BY <1>1, <1>2, <1>3, PutsStep

\* The write of a team that leaves the device has been applied or is lost.
LEMMA OkayStays ==
    ASSUME TypeInv, TypeInv', HeardTeams, NEW d \in Device, DeviceStep(d),
           NEW t \in Team, Okay(t)
    PROVE  Okay(t)'
<1>1. CASE t \in teams \cup dropped
    BY <1>1, TeamsGrow DEF Okay
<1>2. CASE PendingFor(t)
    <2>1. PICK e \in Device : \E i \in DOMAIN puts[e] : puts[e][i] = TeamPut(t)
        BY <1>2 DEF PendingFor
    <2>2. PICK i \in DOMAIN puts[e] : puts[e][i] = TeamPut(t)
        BY <2>1
    <2>3. CASE e # d
        <3>1. puts'[e] = puts[e]
            BY <2>3, OnlyDevice DEF SameAt
        <3> QED BY <2>2, <3>1 DEF Okay, PendingFor
    <2>4. CASE e = d
        <3>1. puts[d] \in Seq(Put) /\ puts \in [Device -> Seq(Put)] /\ unheard[d] \in Nat
            BY DEF TypeInv, TypeOK
        <3>2. DOMAIN puts[d] = 1..Len(puts[d]) /\ Len(puts[d]) \in Nat /\ i \in 1..Len(puts[d])
              /\ puts[d][i] = TeamPut(t)
            BY <2>2, <2>4, <3>1, LenProperties
        <3>3. CASE puts'[d] = puts[d]
            BY <3>2, <3>3 DEF Okay, PendingFor
        <3>4. CASE \E p \in Put : puts'[d] = Append(puts[d], p)
            <4>1. i \in DOMAIN puts'[d] /\ puts'[d][i] = TeamPut(t)
                BY <3>1, <3>2, <3>4, PutsAppend
            <4> QED BY <4>1 DEF Okay, PendingFor
        <3>5. CASE \E p \in Put, q \in Put : puts'[d] = Append(Append(puts[d], p), q)
            <4>1. PICK p \in Put, q \in Put : puts'[d] = Append(Append(puts[d], p), q)
                BY <3>5
            <4>2. /\ Append(puts[d], p) \in Seq(Put)
                  /\ i \in 1..Len(Append(puts[d], p)) /\ Append(puts[d], p)[i] = TeamPut(t)
                BY <3>1, <3>2, PutsAppend
            <4>3. i \in DOMAIN puts'[d] /\ puts'[d][i] = TeamPut(t)
                BY <4>1, <4>2, PutsAppend
            <4> QED BY <4>3 DEF Okay, PendingFor
        <3>6. CASE RecvAck(d) \/ ServerReject(d)
            <4>1. puts[d] # <<>>
                BY <3>6, Oldest DEF RecvAck, ServerReject
            <4>2. puts'[d] = Tail(puts[d])
                BY <3>1, <3>6 DEF RecvAck, ServerReject
            <4>3. CASE i # 1
                <5>1. i - 1 \in 1..(Len(puts[d]) - 1) /\ (i - 1) + 1 = i
                    BY <3>2, <4>3
                <5>2. i - 1 \in DOMAIN puts'[d] /\ puts'[d][i - 1] = TeamPut(t)
                    BY <3>1, <3>2, <4>1, <4>2, <5>1, PutsTail
                <5> QED BY <5>2 DEF Okay, PendingFor
            <4>4. CASE i = 1 /\ RecvAck(d)
                <5>1. 1 \in 1..unheard[d]
                    BY <3>1, <4>4 DEF RecvAck
                <5>2. puts[d][1].path = "Teams" /\ puts[d][1].team = t
                    BY <3>2, <4>4, TeamPutType
                <5>3. t \in teams
                    BY <5>1, <5>2 DEF HeardTeams
                <5> QED BY <5>3, TeamsGrow DEF Okay
            <4>5. CASE i = 1 /\ ServerReject(d)
                <5>1. <<Head(puts[d])>>[1] = TeamPut(t) /\ DOMAIN <<Head(puts[d])>> = {1}
                    BY <3>1, <3>2, <4>1, <4>5, PutsTail
                <5>2. t \in LostWith(d, <<Head(puts[d])>>)
                    BY <5>1 DEF LostWith
                <5>3. t \in dropped'
                    BY <4>5, <5>2 DEF ServerReject
                <5> QED BY <5>3 DEF Okay
            <4> QED BY <3>6, <4>3, <4>4, <4>5
        <3>7. CASE Kill(d) \/ Crash(d)
            <4>1. t \in LostWith(d, puts[d])
                BY <3>2 DEF LostWith
            <4>2. t \in dropped'
                BY <3>7, <4>1 DEF Kill, Crash, EndProcess
            <4> QED BY <4>2 DEF Okay
        <3> QED BY <3>3, <3>4, <3>5, <3>6, <3>7, PutsStep DEF ServerApply, Disconnect
    <2> QED BY <2>3, <2>4
<1> QED BY <1>1, <1>2 DEF Okay

LEMMA HeardTeamsStep ==
    ASSUME TypeInv, TypeInv', HeardTeams, NEW d \in Device, DeviceStep(d)
    PROVE  HeardTeams'
<1> SUFFICES ASSUME NEW x \in Device, NEW i \in 1..unheard'[x], puts'[x][i].path = "Teams"
             PROVE  puts'[x][i].team \in teams'
    BY DEF HeardTeams
<1>1. teams \subseteq teams'
    BY TeamsGrow
<1>2. /\ puts \in [Device -> Seq(Put)] /\ puts[x] \in Seq(Put)
      /\ unheard \in [Device -> Nat] /\ unheard[x] \in Nat /\ unheard'[x] \in Nat
      /\ unheard[x] <= Len(puts[x]) /\ Len(puts[x]) \in Nat
    BY LenProperties DEF TypeInv, TypeOK, HeardWrites
<1>3. \A j \in 1..unheard[x] : puts[x][j].path = "Teams" => puts[x][j].team \in teams
    BY DEF HeardTeams
<1>4. CASE x # d
    <2>1. puts'[x] = puts[x] /\ unheard'[x] = unheard[x]
        BY <1>4, OnlyDevice DEF SameAt
    <2> QED BY <1>1, <1>3, <2>1
<1>5. CASE x = d
    <2>1. CASE puts'[d] = puts[d] /\ unheard' = unheard
        BY <1>1, <1>3, <1>5, <2>1
    <2>2. CASE (\E p \in Put : puts'[d] = Append(puts[d], p)) /\ unheard' = unheard
        <3>1. i \in 1..Len(puts[x])
            BY <1>2, <2>2
        <3>2. puts'[x][i] = puts[x][i]
            BY <1>2, <1>5, <2>2, <3>1, PutsAppend
        <3> QED BY <1>1, <1>3, <2>2, <3>2
    <2>3. CASE /\ \E p \in Put, q \in Put : puts'[d] = Append(Append(puts[d], p), q)
               /\ unheard' = unheard
        <3>1. PICK p \in Put, q \in Put : puts'[d] = Append(Append(puts[d], p), q)
            BY <2>3
        <3>2. i \in 1..Len(puts[x])
            BY <1>2, <2>3
        <3>3. /\ Append(puts[x], p) \in Seq(Put) /\ Append(puts[x], p)[i] = puts[x][i]
              /\ i \in 1..Len(Append(puts[x], p))
            BY <1>2, <3>2, PutsAppend
        <3>4. puts'[x][i] = puts[x][i]
            BY <1>5, <3>1, <3>3, PutsAppend
        <3> QED BY <1>1, <1>3, <2>3, <3>4
    <2>4. CASE ServerApply(d)
        <3>1. puts' = puts /\ unheard'[d] = unheard[d] + 1
            BY <1>2, <2>4 DEF ServerApply
        <3>2. CASE i \in 1..unheard[d]
            BY <1>1, <1>3, <1>5, <3>1, <3>2
        <3>3. CASE i = unheard[d] + 1
            <4>1. teams' = teams \cup {puts[d][i].team}
                BY <1>5, <2>4, <3>1, <3>3 DEF ServerApply
            <4> QED BY <1>5, <3>1, <4>1
        <3> QED BY <1>2, <1>5, <3>1, <3>2, <3>3
    <2>5. CASE RecvAck(d)
        <3>1. puts[d] # <<>>
            BY <2>5, Oldest DEF RecvAck
        <3>2. puts'[d] = Tail(puts[d]) /\ unheard'[d] = unheard[d] - 1
            BY <1>2, <2>5 DEF RecvAck
        <3>3. i \in 1..(Len(puts[d]) - 1) /\ i + 1 \in 1..unheard[d]
            BY <1>2, <1>5, <3>2
        <3>4. puts'[x][i] = puts[x][i + 1]
            BY <1>2, <1>5, <3>1, <3>2, <3>3, PutsTail
        <3> QED BY <1>1, <1>3, <1>5, <3>3, <3>4
    <2>6. CASE Disconnect(d) \/ ServerReject(d) \/ Kill(d) \/ Crash(d)
        <3>1. unheard'[d] = 0
            BY <1>2, <2>6 DEF Disconnect, ServerReject, Kill, Crash, EndProcess
        <3> QED BY <1>5, <3>1
    <2> QED BY <2>1, <2>2, <2>3, <2>4, <2>5, <2>6, PutsStep
<1> QED BY <1>4, <1>5

\* The reads of a device after its step: the others are as they were.
LEMMA SignInReadsStep ==
    ASSUME TypeInv, SignInReads, NEW d \in Device, DeviceStep(d)
    PROVE  SignInReads'
<1> SUFFICES ASSUME NEW x \in Device, reads'[x]["signIn"] # Idle
             PROVE  reads'[x]["signIn"].team = NoTeam
    BY DEF SignInReads
<1>1. TypeOK /\ "signIn" \in Reader /\ "join" \in Reader /\ "save" \in Reader
      /\ Team \subseteq Record /\ NoTeam \in Record
    BY DEF TypeInv, Reader, Record
<1>2. reads[x]["signIn"] # Idle => reads[x]["signIn"].team = NoTeam
    BY DEF SignInReads
<1>3. CASE reads'[x]["signIn"] = reads[x]["signIn"]
    BY <1>2, <1>3
<1>4. CASE x # d
    BY <1>2, <1>4, OnlyDevice DEF SameAt
<1>5. CASE x = d /\ DidSignIn(d)
    <2>1. reads'[d]["signIn"] = [team |-> NoTeam, answer |-> "asked"]
        BY <1>1, <1>5, AskIs DEF DidSignIn
    <2> QED BY <1>5, <2>1
<1>6. CASE x = d /\ (Register(d) \/ SignInKnown(d))
    BY <1>1, <1>6, AnsweredIs DEF Register, SignInKnown
<1>7. CASE x = d /\ \E t \in Team : Submit(d, t) \/ SaveUser(d, t)
    <2>1. reads'[d]["signIn"] = reads[d]["signIn"]
        <3>1. PICK t \in Record, y \in Reader : Ask(d, y, t) /\ y # "signIn"
            BY <1>1, <1>7 DEF Submit, SaveUser
        <3>2. \A z \in Reader : z # y => reads'[d][z] = reads[d][z]
            BY <1>1, <3>1, AskOthers
        <3> QED BY <1>1, <3>1, <3>2
    <2> QED BY <1>3, <1>7, <2>1
<1>8. CASE /\ x = d
           /\ Join(d) \/ SaveUserFound(d) \/ \E r \in {"join", "save"} : TeamNotFound(d, r)
    <2>1. reads'[d]["signIn"] = reads[d]["signIn"]
        BY <1>1, <1>8, AnsweredIs DEF Join, SaveUserFound, TeamNotFound
    <2> QED BY <1>3, <1>8, <2>1
<1>9. CASE x = d /\ \E r \in Reader : ServerRead(d, r)
    <2>1. PICK r \in Reader : ServerRead(d, r)
        BY <1>9
    <2>2. CASE r = "signIn"
        <3>1. reads'[d][r].team = reads[d][r].team /\ reads[d][r] # Idle
            BY <1>1, <2>1, ServerReadIs DEF ServerRead
        <3> QED BY <1>2, <1>9, <2>2, <3>1
    <2>3. CASE r # "signIn"
        BY <1>1, <1>3, <1>9, <2>1, <2>3, ServerReadIs
    <2> QED BY <2>2, <2>3
<1>10. CASE x = d /\ (Kill(d) \/ Crash(d))
    <2>1. PICK to : EndProcess(d, to)
        BY <1>10 DEF Kill, Crash
    <2>2. reads'[d]["signIn"] = Idle
        BY <1>1, <2>1 DEF EndProcess, TypeOK
    <2> QED BY <1>10, <2>2
<1>11. CASE \/ Launch(d) \/ OpenFirebaseUI(d) \/ CancelFirebaseUI(d) \/ SignOut(d)
            \/ (\E t \in Team : SubmitNewTeam(d, t)) \/ LoadTab(d) \/ AutoHome(d)
            \/ ServerPush(d) \/ ServerApply(d) \/ RecvAck(d) \/ FetchUser(d)
            \/ Disconnect(d) \/ ServerReject(d)
    <2>1. reads' = reads
        BY <1>11 DEF Launch, OpenFirebaseUI, CancelFirebaseUI, SignOut, SubmitNewTeam,
                     LoadTab, AutoHome, ServerPush, ServerApply, RecvAck, FetchUser,
                     Disconnect, ServerReject
    <2> QED BY <1>3, <2>1
<1> QED BY <1>4, <1>5, <1>6, <1>7, <1>8, <1>9, <1>10, <1>11
        DEF DeviceStep, Player, System, Fault

\* Nothing names a team that nothing named before, but for a team that has
\* just been made or found.
LEMMA ReadNamesStep ==
    ASSUME TypeInv, SignInReads, NEW d \in Device, DeviceStep(d),
           NEW t \in Team, ReadNames(reads'[d], t)
    PROVE  ReadNames(reads[d], t) \/ Okay(t)
<1>1. /\ TypeOK /\ "signIn" \in Reader /\ "join" \in Reader /\ "save" \in Reader
      /\ Team \subseteq Record /\ NoTeam \in Record /\ NoTeam \notin Team
    BY DistinctAssumption DEF TypeInv, Reader, Record
<1>2. PICK r \in Reader : /\ reads'[d][r] # Idle /\ reads'[d][r].answer = "found"
                          /\ reads'[d][r].team = t
    BY DEF ReadNames
<1>3. CASE reads'[d][r] = reads[d][r]
    BY <1>2, <1>3 DEF ReadNames
<1>4. CASE DidSignIn(d) \/ \E u \in Team : Submit(d, u) \/ SaveUser(d, u)
    <2>1. PICK u \in Record, y \in Reader : Ask(d, y, u)
        BY <1>1, <1>4 DEF DidSignIn, Submit, SaveUser
    <2>2. CASE y = r
        <3>1. reads'[d][r] = [team |-> u, answer |-> "asked"]
            BY <1>1, <2>1, <2>2, AskIs
        <3> QED BY <1>2, <3>1
    <2>3. CASE y # r
        <3>1. \A z \in Reader : z # y => reads'[d][z] = reads[d][z]
            BY <1>1, <2>1, AskOthers
        <3> QED BY <1>3, <2>3, <3>1
    <2> QED BY <2>2, <2>3
<1>5. CASE \/ Register(d) \/ SignInKnown(d) \/ Join(d) \/ SaveUserFound(d)
           \/ \E y \in {"join", "save"} : TeamNotFound(d, y)
    <2>1. PICK y \in Reader : \E answer : Answered(d, y, answer)
        BY <1>1, <1>5 DEF Register, SignInKnown, Join, SaveUserFound, TeamNotFound
    <2>2. PICK answer : Answered(d, y, answer)
        BY <2>1
    <2> QED BY <1>1, <1>2, <1>3, <2>2, AnsweredIs
<1>6. CASE \E y \in Reader : ServerRead(d, y)
    <2>1. PICK y \in Reader : ServerRead(d, y)
        BY <1>6
    <2>2. CASE y # r
        BY <1>1, <1>3, <2>1, <2>2, ServerReadIs
    <2>3. CASE y = r
        <3>1. reads[d][r] # Idle /\ reads[d][r].team = t
            BY <1>1, <1>2, <2>1, <2>3, ServerReadIs DEF ServerRead
        <3>2. r # "signIn"
            BY <1>1, <3>1 DEF SignInReads
        <3>3. t \in teams \/ \E i \in DOMAIN puts[d] : puts[d][i] = TeamPut(t)
            BY <1>1, <1>2, <2>1, <2>3, <3>1, <3>2, ServerReadIs
        <3> QED BY <3>3 DEF Okay, PendingFor
    <2> QED BY <2>2, <2>3
<1>7. CASE Kill(d) \/ Crash(d)
    <2>1. PICK to : EndProcess(d, to)
        BY <1>7 DEF Kill, Crash
    <2>2. reads'[d][r] = Idle
        BY <1>1, <2>1 DEF EndProcess, TypeOK
    <2> QED BY <1>2, <2>2
<1>8. CASE \/ Launch(d) \/ OpenFirebaseUI(d) \/ CancelFirebaseUI(d) \/ SignOut(d)
           \/ (\E u \in Team : SubmitNewTeam(d, u)) \/ LoadTab(d) \/ AutoHome(d)
           \/ ServerPush(d) \/ ServerApply(d) \/ RecvAck(d) \/ FetchUser(d)
           \/ Disconnect(d) \/ ServerReject(d)
    <2>1. reads' = reads
        BY <1>8 DEF Launch, OpenFirebaseUI, CancelFirebaseUI, SignOut, SubmitNewTeam,
                    LoadTab, AutoHome, ServerPush, ServerApply, RecvAck, FetchUser,
                    Disconnect, ServerReject
    <2> QED BY <1>3, <2>1
<1> QED BY <1>4, <1>5, <1>6, <1>7, <1>8 DEF DeviceStep, Player, System, Fault

LEMMA RecordNamesStep ==
    ASSUME TypeInv, NEW d \in Device, DeviceStep(d), NEW t \in Team, RecordNames(t)'
    PROVE  RecordNames(t) \/ PutNames(puts[d], t)
<1>1. PICK a \in Account : users'[a] = t
    BY DEF RecordNames
<1>2. CASE ServerApply(d)
    <2>1. /\ users \in [Account -> Record \cup {NoRecord}] /\ puts[d] \in Seq(Put)
          /\ unheard[d] \in Nat
        BY DEF TypeInv, TypeOK
    <2>2. unheard[d] + 1 \in DOMAIN puts[d]
        BY <1>2, <2>1, LenProperties DEF ServerApply
    <2>3. CASE puts[d][unheard[d] + 1].path = "Users"
        <3>1. users' = [users EXCEPT ![AccountOf[d]] = puts[d][unheard[d] + 1].team]
            BY <1>2, <2>3 DEF ServerApply
        <3>2. users[a] = t \/ puts[d][unheard[d] + 1].team = t
            BY <1>1, <2>1, <3>1
        <3> QED BY <2>2, <2>3, <3>2 DEF RecordNames, PutNames, OwnPuts
    <2>4. CASE puts[d][unheard[d] + 1].path # "Users"
        BY <1>1, <1>2, <2>4 DEF ServerApply, RecordNames
    <2> QED BY <2>3, <2>4
<1>3. CASE ~ServerApply(d)
    <2>1. users' = users
        BY <1>3, PutsStep DEF RecvAck, Disconnect, ServerReject, Kill, Crash, EndProcess, server
    <2> QED BY <1>1, <2>1 DEF RecordNames
<1> QED BY <1>2, <1>3

LEMMA PutNamesStep ==
    ASSUME TypeInv, TypeInv', NEW d \in Device, DeviceStep(d),
           NEW t \in Team, PutNames(puts'[d], t)
    PROVE  PutNames(puts[d], t) \/ ReadNames(reads[d], t) \/ Okay(t)'
<1>1. /\ TypeOK /\ puts[d] \in Seq(Put) /\ puts \in [Device -> Seq(Put)]
      /\ "join" \in Reader /\ "save" \in Reader
      /\ NoTeam \in Record /\ NoTeam # t
    BY DistinctAssumption DEF TypeInv, TypeOK, Reader, Record
<1>2. CASE \E u \in Team : SubmitNewTeam(d, u)
    <2>1. PICK u \in Team : SubmitNewTeam(d, u)
        BY <1>2
    <2>2. UserPut(u) \in Put /\ TeamPut(u) \in Put /\ TeamPut(u).path = "Teams"
          /\ UserPut(u).team = u
        BY RecordPut, TeamPutType DEF Record
    <2>3. puts'[d] = Append(Append(puts[d], UserPut(u)), TeamPut(u))
        BY <1>1, <2>1, <2>2, WriteTwo DEF SubmitNewTeam
    <2>4. PICK qs \in Seq(Put) : qs = Append(puts[d], UserPut(u))
        BY <1>1, <2>2, PutsAppend
    <2>5. PutNames(qs, t)
        <3>1. PutNames(Append(qs, TeamPut(u)), t)
            BY <2>3, <2>4
        <3>2. PutNames(qs, t) \/ TeamPut(u).path = "Users"
            BY <2>2, <3>1, PutNamesAppend
        <3> QED BY <2>2, <3>2
    <2>6. PutNames(puts[d], t) \/ u = t
        BY <1>1, <2>2, <2>4, <2>5, PutNamesAppend
    <2>7. ASSUME u = t PROVE Okay(t)'
        <3>1. Len(puts'[d]) \in DOMAIN puts'[d] /\ puts'[d][Len(puts'[d])] = TeamPut(t)
            BY <2>2, <2>3, <2>4, <2>7, PutsAppend
        <3> QED BY <3>1 DEF Okay, PendingFor
    <2> QED BY <2>6, <2>7
<1>3. CASE Register(d)
    <2>1. UserPut(NoTeam) \in Put /\ UserPut(NoTeam).team = NoTeam
        BY <1>1, RecordPut
    <2>2. puts'[d] = Append(puts[d], UserPut(NoTeam))
        BY <1>1, <1>3, <2>1, WriteOne DEF Register
    <2> QED BY <1>1, <2>1, <2>2, PutNamesAppend
<1>4. ASSUME NEW r \in Reader, Answered(d, r, "found"), Write(d, <<UserPut(reads[d][r].team)>>)
      PROVE  PutNames(puts[d], t) \/ ReadNames(reads[d], t)
    <2>1. PICK u \in Record : u = reads[d][r].team
        BY <1>1, <1>4, AnsweredIs
    <2>2. UserPut(u) \in Put /\ UserPut(u).team = u
        BY RecordPut
    <2>3. puts'[d] = Append(puts[d], UserPut(u))
        BY <1>1, <1>4, <2>1, <2>2, WriteOne
    <2>4. PutNames(puts[d], t) \/ u = t
        BY <1>1, <2>2, <2>3, PutNamesAppend
    <2> QED BY <1>1, <1>4, <2>1, <2>4, AnsweredIs DEF ReadNames
<1>5. CASE Join(d) \/ (SaveUserFound(d) /\ user[d])
    BY <1>1, <1>4, <1>5 DEF Join, SaveUserFound
<1>6. CASE RecvAck(d) \/ ServerReject(d)
    <2>1. puts[d] # <<>> /\ puts'[d] = Tail(puts[d])
        BY <1>1, <1>6, Oldest DEF RecvAck, ServerReject
    <2> QED BY <1>1, <2>1, PutNamesTail
<1>7. CASE Kill(d) \/ Crash(d)
    <2>1. puts'[d] = <<>>
        BY <1>1, <1>7 DEF Kill, Crash, EndProcess
    <2> QED BY <2>1 DEF PutNames, OwnPuts
<1>8. CASE puts'[d] = puts[d]
    BY <1>8
<1>9. CASE \/ Launch(d) \/ OpenFirebaseUI(d) \/ CancelFirebaseUI(d) \/ DidSignIn(d)
           \/ (\E u \in Team : Submit(d, u) \/ SaveUser(d, u)) \/ SignOut(d)
           \/ \E r \in {"join", "save"} : TeamNotFound(d, r)
    <2>1. Quiet(d)
        BY <1>9, QuietType
    <2> QED BY <1>8, <2>1 DEF Quiet, client
<1>10. CASE \/ (\E r \in Reader : ServerRead(d, r)) \/ LoadTab(d) \/ FetchUser(d)
            \/ ServerPush(d) \/ ServerApply(d) \/ Disconnect(d) \/ AutoHome(d)
            \/ SignInKnown(d) \/ (SaveUserFound(d) /\ ~user[d])
    BY <1>8, <1>10 DEF ServerRead, LoadTab, FetchUser, ServerPush, ServerApply, Disconnect,
                       AutoHome, SignInKnown, SaveUserFound, client
<1> QED BY <1>2, <1>3, <1>5, <1>6, <1>7, <1>9, <1>10 DEF DeviceStep, Player, System, Fault

LEMMA ProfileNamesStep ==
    ASSUME TypeInv, TypeInv', NEW d \in Device, DeviceStep(d), NEW t \in Team
    PROVE  /\ seen'[d] = t => seen[d] = t \/ RecordNames(t)
           /\ tab'[d] = t => tab[d] = t \/ teamId[d] = t
           /\ teamId'[d] = t =>
                  teamId[d] = t \/ QueueNames(mainq[d], t) \/ PutNames(puts'[d], t)
           /\ QueueNames(mainq'[d], t) =>
                  QueueNames(mainq[d], t) \/ PutNames(puts'[d], t) \/ seen[d] = t \/ seen'[d] = t
<1>1. /\ TypeOK /\ puts[d] \in Seq(Put) /\ puts'[d] \in Seq(Put)
      /\ seen[d] \in Record \cup {NoRecord} /\ seen'[d] \in Record \cup {NoRecord}
      /\ mainq[d] \in Seq(Record \cup {NoRecord})
      /\ mainq \in [Device -> Seq(Record \cup {NoRecord})]
      /\ seen \in [Device -> Record \cup {NoRecord}]
      /\ tab \in [Device -> Team \cup {DefaultTeam, Idle}]
      /\ teamId \in [Device -> Team \cup {DefaultTeam}]
      /\ NoRecord # t /\ Idle # t /\ DefaultTeam # t
      /\ AccountOf[d] \in Account
    BY DistinctAssumption, AccountAssumption DEF TypeInv, TypeOK
<1>2. PICK ps \in Seq(Put) : ps = puts'[d]
    BY <1>1
<1>3. PICK s \in Record \cup {NoRecord} : s = seen'[d]
    BY <1>1
<1>4. CASE UNCHANGED <<seen, tab, teamId, mainq>>
    BY <1>4
<1>5. CASE \/ Launch(d) \/ OpenFirebaseUI(d) \/ CancelFirebaseUI(d) \/ DidSignIn(d)
           \/ (\E u \in Team : Submit(d, u) \/ SaveUser(d, u)) \/ SignOut(d)
           \/ \E r \in {"join", "save"} : TeamNotFound(d, r)
    <2>1. Quiet(d)
        BY <1>5, QuietType
    <2> QED BY <1>4, <2>1 DEF Quiet, client, profile
<1>6. CASE \/ (\E r \in Reader : ServerRead(d, r)) \/ ServerApply(d) \/ Disconnect(d)
           \/ (SaveUserFound(d) /\ ~user[d])
    BY <1>4, <1>6 DEF ServerRead, ServerApply, Disconnect, SaveUserFound, client, profile
<1>7. CASE LoadTab(d)
    BY <1>1, <1>7 DEF LoadTab, client
<1>8. CASE FetchUser(d)
    <2>1. mainq[d] # <<>> /\ mainq'[d] = Tail(mainq[d]) /\ UNCHANGED <<seen, tab>>
        BY <1>1, <1>8 DEF FetchUser
    <2>2. teamId'[d] = teamId[d] \/ teamId'[d] = Head(mainq[d])
        BY <1>1, <1>8 DEF FetchUser
    <2> QED BY <1>1, <2>1, <2>2, QueueNamesTail
<1>9. CASE AutoHome(d) \/ SignInKnown(d)
    <2>1. GoHome(d, puts[d]) \/ UNCHANGED <<seen, tab, mainq>>
        BY <1>9 DEF AutoHome, SignInKnown
    <2>2. teamId' = teamId /\ puts' = puts
        BY <1>9 DEF AutoHome, SignInKnown
    <2>3. CASE GoHome(d, puts[d])
        <3>1. tab'[d] = Idle /\ seen' = seen
            BY <1>1, <2>3 DEF GoHome
        <3> QED BY <1>1, <2>2, <2>3, <3>1, HomeNames
    <2> QED BY <1>4, <2>1, <2>2, <2>3
<1>10. CASE GoHome(d, ps) /\ ((\E u \in Team : SubmitNewTeam(d, u)) \/ Join(d))
    <2>1. tab'[d] = Idle /\ seen' = seen
        BY <1>1, <1>10 DEF GoHome
    <2>2. QueueNames(mainq'[d], t) => QueueNames(mainq[d], t) \/ PutNames(puts'[d], t) \/ seen[d] = t
        BY <1>1, <1>2, <1>10, HomeNames
    <2>3. CASE Join(d)
        BY <1>1, <2>1, <2>2, <2>3 DEF Join
    <2>4. CASE \E u \in Team : SubmitNewTeam(d, u)
        <3>1. PICK u \in Team : SubmitNewTeam(d, u)
            BY <2>4
        <3>2. teamId'[d] = u
            BY <1>1, <3>1 DEF SubmitNewTeam
        <3>3. PutNames(puts'[d], u)
            <4>1. UserPut(u) \in Put /\ TeamPut(u) \in Put /\ UserPut(u).path = "Users"
                  /\ UserPut(u).team = u
                BY RecordPut, TeamPutType DEF Record
            <4>2. puts'[d] = Append(Append(puts[d], UserPut(u)), TeamPut(u))
                BY <1>1, <3>1, <4>1, WriteTwo DEF SubmitNewTeam
            <4>3. PICK qs \in Seq(Put) : qs = Append(puts[d], UserPut(u))
                BY <1>1, <4>1, PutsAppend
            <4>4. PICK n \in Nat \ {0} : n = Len(qs) /\ n = Len(puts[d]) + 1
                BY <1>1, <4>1, <4>3, PutsAppend
            <4>5. n \in OwnPuts(qs) /\ qs[n] = UserPut(u)
                BY <1>1, <4>1, <4>3, <4>4, PutsAppend
            <4>6. n \in OwnPuts(Append(qs, TeamPut(u)))
                BY <4>1, <4>5, PutsAppend
            <4>7. Append(qs, TeamPut(u))[n] = UserPut(u)
                <5>1. n \in 1..Len(qs)
                    BY <4>5, PutElement
                <5>2. Append(qs, TeamPut(u))[n] = qs[n]
                    BY <4>1, <5>1, PutsAppend
                <5> QED BY <4>5, <5>2
            <4>8. n \in OwnPuts(puts'[d]) /\ puts'[d][n] = UserPut(u)
                BY <4>2, <4>3, <4>6, <4>7
            <4>9. puts'[d][n].team = u
                BY <4>1, <4>8
            <4> QED BY <4>8, <4>9 DEF PutNames
        <3> QED BY <1>1, <2>1, <2>2, <3>2, <3>3
    <2> QED BY <1>10, <2>3, <2>4
<1>11. CASE /\ Notify(d, ps, s) /\ UNCHANGED <<tab, teamId>>
            /\ seen'[d] = seen[d] \/ seen'[d] = Mine(d)
    <2>1. QueueNames(mainq'[d], t) => QueueNames(mainq[d], t) \/ s = t \/ PutNames(ps, t)
        BY <1>1, <1>11, NotifyNames
    <2>2. Mine(d) = t => RecordNames(t)
        BY <1>1 DEF Mine, RecordNames
    <2> QED BY <1>2, <1>3, <1>11, <2>1, <2>2
<1>12. CASE Join(d)
    <2>1. GoHome(d, ps) \/ (Notify(d, ps, seen[d]) /\ UNCHANGED <<seen, tab>>)
        BY <1>2, <1>12 DEF Join
    <2>2. UNCHANGED teamId
        BY <1>12 DEF Join
    <2> QED BY <1>3, <1>10, <1>11, <1>12, <2>1, <2>2
<1>13. CASE \E u \in Team : SubmitNewTeam(d, u)
    BY <1>2, <1>10, <1>13 DEF SubmitNewTeam
<1>14. CASE Register(d) \/ (SaveUserFound(d) /\ user[d])
    BY <1>2, <1>3, <1>11, <1>14 DEF Register, SaveUserFound, profile
<1>15. CASE RecvAck(d) \/ ServerReject(d)
    <2>1. Notify(d, ps, s)
        BY <1>2, <1>3, <1>15 DEF RecvAck, ServerReject, profile
    <2>2. UNCHANGED <<tab, teamId>> /\ (seen'[d] = seen[d] \/ seen'[d] = Mine(d))
        BY <1>1, <1>15 DEF RecvAck, ServerReject, profile
    <2> QED BY <1>11, <2>1, <2>2
<1>16. CASE ServerPush(d)
    <2>1. seen'[d] = Mine(d) /\ puts' = puts /\ Notify(d, puts[d], Mine(d))
          /\ UNCHANGED <<tab, teamId>>
        BY <1>1, <1>16 DEF ServerPush
    <2> QED BY <1>2, <1>3, <1>11, <2>1
<1>17. CASE Kill(d) \/ Crash(d)
    <2>1. /\ mainq'[d] = <<>> /\ seen'[d] = NoRecord /\ tab'[d] = Idle
          /\ teamId'[d] = DefaultTeam
        BY <1>1, <1>17 DEF Kill, Crash, EndProcess
    <2> QED BY <1>1, <2>1 DEF QueueNames
<1> QED BY <1>5, <1>6, <1>7, <1>8, <1>9, <1>12, <1>13, <1>14, <1>15, <1>16, <1>17
        DEF DeviceStep, Player, System, Fault

LEMMA NamedStep == TypeInv /\ TypeInv' /\ NamedInv /\ [Next]_vars => NamedInv'
<1> SUFFICES ASSUME TypeInv, TypeInv', NamedInv, [Next]_vars PROVE NamedInv'
    OBVIOUS
<1>1. HeardTeams /\ SignInReads /\ \A t \in Team : Named(t) => Okay(t)
    BY DEF NamedInv
<1>2. CASE UNCHANGED vars
    <2>1. /\ UNCHANGED <<users, teams, reads, seen, teamId, tab>>
          /\ UNCHANGED <<puts, unheard, mainq, dropped>>
        BY <1>2 DEF vars, server, profile, client, counts, history
    <2>2. HeardTeams' /\ SignInReads'
        BY <1>1, <2>1 DEF HeardTeams, SignInReads
    <2>3. ASSUME NEW t \in Team, Named(t)' PROVE Okay(t)'
        <3>1. RecordNames(t)' => RecordNames(t)
            BY <2>1 DEF RecordNames
        <3>2. \A d \in Device : DeviceNames(d, t)' => DeviceNames(d, t)
            BY <2>1 DEF DeviceNames
        <3>3. Named(t)
            BY <2>3, <3>1, <3>2 DEF Named
        <3> QED BY <1>1, <2>1, <3>3 DEF Okay, PendingFor
    <2> QED BY <2>2, <2>3 DEF NamedInv
<1>3. CASE Next
    <2>1. PICK d \in Device : DeviceStep(d)
        BY <1>3 DEF Next, DeviceStep
    <2>2. HeardTeams' /\ SignInReads'
        BY <1>1, <2>1, HeardTeamsStep, SignInReadsStep
    <2>3. ASSUME NEW t \in Team, Named(t)' PROVE Okay(t)'
        <3>1. \/ RecordNames(t)'
              \/ \E x \in Device : x # d /\ DeviceNames(x, t)'
              \/ DeviceNames(d, t)'
            BY <2>3 DEF Named
        <3>3. CASE \E x \in Device : x # d /\ DeviceNames(x, t)'
            <4>1. PICK x \in Device : x # d /\ DeviceNames(x, t)'
                BY <3>3
            <4>2. SameAt(x)
                BY <2>1, <4>1, OnlyDevice
            <4>3. DeviceNames(x, t)
                BY <4>1, <4>2 DEF DeviceNames, SameAt
            <4>4. Okay(t)
                BY <1>1, <4>3 DEF Named
            <4> QED BY <1>1, <2>1, <4>4, OkayStays
        <3>4. CASE DeviceNames(d, t)'
            <4>1. ReadNames(reads'[d], t) => ReadNames(reads[d], t) \/ Okay(t)
                BY <1>1, <2>1, ReadNamesStep
            <4>2. PutNames(puts'[d], t) => PutNames(puts[d], t) \/ ReadNames(reads[d], t) \/ Okay(t)'
                BY <2>1, PutNamesStep
            <4>3. /\ seen'[d] = t => seen[d] = t \/ RecordNames(t)
                  /\ tab'[d] = t => tab[d] = t \/ teamId[d] = t
                  /\ teamId'[d] = t =>
                        teamId[d] = t \/ QueueNames(mainq[d], t) \/ PutNames(puts'[d], t)
                  /\ QueueNames(mainq'[d], t) =>
                        QueueNames(mainq[d], t) \/ PutNames(puts'[d], t) \/ seen[d] = t \/ seen'[d] = t
                BY <2>1, ProfileNamesStep
            <4>4. Named(t) \/ Okay(t) \/ Okay(t)'
                BY <3>4, <4>1, <4>2, <4>3 DEF DeviceNames, Named
            <4> QED BY <1>1, <2>1, <4>4, OkayStays
        <3>5. Named(t) => Okay(t)'
            BY <1>1, <2>1, OkayStays
        <3>6. RecordNames(t)' => Okay(t)'
            BY <2>1, <3>5, RecordNamesStep DEF Named, DeviceNames
        <3> QED BY <3>1, <3>3, <3>4, <3>6
    <2> QED BY <2>2, <2>3 DEF NamedInv
<1> QED BY <1>2, <1>3

\* No record, no teamIdGlobal and no loaded tab names a team that is neither
\* on the server nor about to be, unless the write of the team was killed or
\* refused: submitNewTeam's two writes may come apart in no other way.
THEOREM TeamsExistCorrect == Spec => []TeamsExist
<1>1. Init => NamedInv
    <2> SUFFICES ASSUME Init PROVE NamedInv
        OBVIOUS
    <2>1. HeardTeams /\ SignInReads
        BY DEF Init, HeardTeams, SignInReads, Reader
    <2>2. ASSUME NEW t \in Team PROVE ~Named(t)
        <3>1. t # NoRecord /\ t # DefaultTeam /\ t # Idle
            BY DistinctAssumption
        <3>2. ~RecordNames(t)
            BY <3>1 DEF Init, RecordNames
        <3>3. ASSUME NEW d \in Device PROVE ~DeviceNames(d, t)
            <4>1. /\ mainq[d] = <<>> /\ puts[d] = <<>> /\ teamId[d] = DefaultTeam
                  /\ tab[d] = Idle /\ seen[d] = NoRecord /\ reads[d] = [r \in Reader |-> Idle]
                BY DEF Init
            <4>2. ~QueueNames(mainq[d], t) /\ ~PutNames(puts[d], t) /\ ~ReadNames(reads[d], t)
                BY <4>1 DEF QueueNames, PutNames, OwnPuts, ReadNames
            <4> QED BY <3>1, <4>1, <4>2 DEF DeviceNames
        <3> QED BY <3>2, <3>3 DEF Named
    <2> QED BY <2>1, <2>2 DEF NamedInv
<1>2. NamedInv => TeamsExist
    BY DEF NamedInv, Named, RecordNames, DeviceNames, Okay, TeamsExist
<1> QED BY TypeInvInit, TypeInvStep, NamedStep, <1>1, <1>2, PTL DEF Spec

-----------------------------------------------------------------------------
(* The choice of a player.  The client's view of the record is the team    *)
(* chosen last, and the youngest write the server has applied is the       *)
(* record.  That a sign-in adds a record only for a new user needs more:   *)
(* until a user's first write, nothing that could write another is alive.  *)

\* The youngest own write among the first n is the record m.
HeardOf(ps, n, m) ==
    \A i \in OwnPuts(ps) :
        i <= n /\ (\A j \in OwnPuts(ps) : j <= n => j <= i) => m = ps[i].team

LEMMA HeardOfAppend ==
    ASSUME NEW ps \in Seq(Put), NEW p \in Put, NEW n \in Nat, n <= Len(ps), NEW m,
           HeardOf(ps, n, m)
    PROVE  HeardOf(Append(ps, p), n, m)
<1> SUFFICES ASSUME NEW i \in OwnPuts(Append(ps, p)), i <= n,
                    \A j \in OwnPuts(Append(ps, p)) : j <= n => j <= i
             PROVE  m = Append(ps, p)[i].team
    BY DEF HeardOf
<1>1. OwnPuts(ps) \subseteq OwnPuts(Append(ps, p)) /\ Len(ps) \in Nat
    BY PutsAppend
<1>2. i \in OwnPuts(ps)
    <2>1. i # Len(ps) + 1
        BY <1>1
    <2> QED BY <2>1, PutsAppend
<1>3. Append(ps, p)[i] = ps[i]
    <2>1. i \in 1..Len(ps)
        BY <1>2, PutElement
    <2> QED BY <2>1, PutsAppend
<1>4. m = ps[i].team
    BY <1>1, <1>2 DEF HeardOf
<1> QED BY <1>3, <1>4

LEMMA HeardOfApply ==
    ASSUME NEW ps \in Seq(Put), NEW n \in Nat, n < Len(ps), NEW m, HeardOf(ps, n, m)
    PROVE  HeardOf(ps, n + 1, IF ps[n + 1].path = "Users" THEN ps[n + 1].team ELSE m)
<1> SUFFICES ASSUME NEW i \in OwnPuts(ps), i <= n + 1,
                    \A j \in OwnPuts(ps) : j <= n + 1 => j <= i
             PROVE  (IF ps[n + 1].path = "Users" THEN ps[n + 1].team ELSE m) = ps[i].team
    BY DEF HeardOf
<1>1. i \in 1..Len(ps) /\ i \in Nat /\ Len(ps) \in Nat /\ n + 1 \in 1..Len(ps)
    BY PutElement, LenProperties
<1>2. n + 1 \in OwnPuts(ps) <=> ps[n + 1].path = "Users"
    BY <1>1, LenProperties DEF OwnPuts
<1>3. CASE ps[n + 1].path = "Users"
    <2>1. n + 1 <= i
        BY <1>2, <1>3
    <2>2. i = n + 1
        BY <1>1, <2>1
    <2> QED BY <1>3, <2>2
<1>4. CASE ps[n + 1].path # "Users"
    <2>1. i # n + 1
        BY <1>2, <1>4
    <2>2. i <= n
        BY <1>1, <2>1
    <2>3. \A j \in OwnPuts(ps) : j <= n => j <= i
        <3> SUFFICES ASSUME NEW j \in OwnPuts(ps), j <= n PROVE j <= i
            OBVIOUS
        <3>1. j \in Nat /\ j <= n + 1
            BY PutElement
        <3> QED BY <3>1
    <2>4. m = ps[i].team
        BY <2>2, <2>3 DEF HeardOf
    <2> QED BY <1>4, <2>4
<1> QED BY <1>3, <1>4

LEMMA HeardOfTail ==
    ASSUME NEW ps \in Seq(Put), ps # <<>>, NEW n \in Nat \ {0}, NEW m, HeardOf(ps, n, m)
    PROVE  HeardOf(Tail(ps), n - 1, m)
<1> SUFFICES ASSUME NEW i \in OwnPuts(Tail(ps)), i <= n - 1,
                    \A j \in OwnPuts(Tail(ps)) : j <= n - 1 => j <= i
             PROVE  m = Tail(ps)[i].team
    BY DEF HeardOf
<1>1. Tail(ps) \in Seq(Put) /\ Len(ps) \in Nat /\ Len(Tail(ps)) = Len(ps) - 1
    BY PutsTail
<1>2. i \in 1..(Len(ps) - 1) /\ i + 1 <= n /\ i + 1 \in OwnPuts(ps)
    <2>1. i \in 1..Len(Tail(ps))
        BY <1>1, PutElement
    <2>2. i \in Nat /\ i + 1 <= n
        BY <2>1
    <2> QED BY <1>1, <2>1, <2>2, PutsTail
<1>3. \A j \in OwnPuts(ps) : j <= n => j <= i + 1
    <2> SUFFICES ASSUME NEW j \in OwnPuts(ps), j <= n PROVE j <= i + 1
        OBVIOUS
    <2>1. j \in Nat
        BY PutElement
    <2>2. CASE j = 1
        BY <1>2, <2>2
    <2>3. CASE j - 1 \in OwnPuts(Tail(ps))
        <3>1. j - 1 <= n - 1
            BY <2>1
        <3>2. j - 1 <= i
            BY <2>3, <3>1
        <3> QED BY <1>2, <2>1, <3>2
    <2> QED BY <2>2, <2>3, PutsTail
<1>4. m = ps[i + 1].team
    BY <1>2, <1>3 DEF HeardOf
<1> QED BY <1>2, <1>4, PutsTail

LEMMA HeardOfNone ==
    ASSUME NEW ps \in Seq(Put), NEW m
    PROVE  HeardOf(ps, 0, m)
<1> SUFFICES ASSUME NEW i \in OwnPuts(ps), i <= 0 PROVE FALSE
    BY DEF HeardOf
<1>1. i \in 1..Len(ps)
    BY PutElement
<1> QED BY <1>1

LEMMA ViewAppend ==
    ASSUME NEW ps \in Seq(Put), NEW p \in Put, NEW s
    PROVE  /\ p.path = "Users" => View(Append(ps, p), s) = p.team
           /\ p.path # "Users" => View(Append(ps, p), s) = View(ps, s)
<1>1. /\ Append(ps, p) \in Seq(Put) /\ Len(ps) \in Nat
      /\ Append(ps, p)[Len(ps) + 1] = p
      /\ OwnPuts(Append(ps, p)) =
             OwnPuts(ps) \cup (IF p.path = "Users" THEN {Len(ps) + 1} ELSE {})
    BY PutsAppend
<1>2. \A j \in OwnPuts(ps) : j \in Nat /\ j <= Len(ps) + 1 /\ Append(ps, p)[j] = ps[j]
    <2> SUFFICES ASSUME NEW j \in OwnPuts(ps)
                 PROVE  j \in Nat /\ j <= Len(ps) + 1 /\ Append(ps, p)[j] = ps[j]
        OBVIOUS
    <2>1. j \in 1..Len(ps)
        BY PutElement
    <2> QED BY <1>1, <2>1, PutsAppend
<1>3. CASE p.path = "Users"
    <2>1. Len(ps) + 1 \in OwnPuts(Append(ps, p))
        BY <1>1, <1>3
    <2>2. \A j \in OwnPuts(Append(ps, p)) : j <= Len(ps) + 1
        BY <1>1, <1>2
    <2>3. View(Append(ps, p), s) = Append(ps, p)[Len(ps) + 1].team
        BY <1>1, <2>1, <2>2, ViewOf
    <2> QED BY <1>1, <1>3, <2>3
<1>4. CASE p.path # "Users"
    <2>1. OwnPuts(Append(ps, p)) = OwnPuts(ps)
        BY <1>1, <1>4
    <2>2. CASE OwnPuts(ps) = {}
        BY <1>1, <1>4, <2>1, <2>2, ViewIs
    <2>3. CASE OwnPuts(ps) # {}
        <3>1. PICK i \in OwnPuts(ps) : /\ \A j \in OwnPuts(ps) : j <= i
                                       /\ View(ps, s) = ps[i].team
            BY <2>3, ViewIs
        <3>2. View(Append(ps, p), s) = Append(ps, p)[i].team
            BY <1>1, <2>1, <3>1, ViewOf
        <3> QED BY <1>2, <1>4, <3>1, <3>2
    <2> QED BY <2>2, <2>3
<1> QED BY <1>3, <1>4

LEMMA ViewTail ==
    ASSUME NEW ps \in Seq(Put), ps # <<>>, NEW s
    PROVE  /\ \/ OwnPuts(Tail(ps)) # {} /\ View(Tail(ps), s) = View(ps, s)
              \/ OwnPuts(Tail(ps)) = {} /\ View(Tail(ps), s) = s
           /\ Head(ps).path # "Users" =>
                  /\ View(Tail(ps), s) = View(ps, s)
                  /\ OwnPuts(Tail(ps)) = {} => OwnPuts(ps) = {}
           /\ Head(ps).path = "Users" /\ OwnPuts(Tail(ps)) = {} =>
                  OwnPuts(ps) = {1} /\ View(ps, s) = ps[1].team
<1>1. /\ Tail(ps) \in Seq(Put) /\ Len(ps) \in Nat \ {0} /\ Len(Tail(ps)) = Len(ps) - 1
      /\ Head(ps) = ps[1] /\ DOMAIN ps = 1..Len(ps)
    BY PutsTail
<1>2. CASE OwnPuts(Tail(ps)) # {}
    <2>1. PICK i \in OwnPuts(Tail(ps)) : /\ \A j \in OwnPuts(Tail(ps)) : j <= i
                                         /\ View(Tail(ps), s) = Tail(ps)[i].team
        BY <1>1, <1>2, ViewIs
    <2>2. i \in 1..(Len(ps) - 1) /\ i + 1 \in OwnPuts(ps)
        BY <1>1, PutElement, PutsTail
    <2>3. \A j \in OwnPuts(ps) : j <= i + 1
        <3> SUFFICES ASSUME NEW j \in OwnPuts(ps) PROVE j <= i + 1
            OBVIOUS
        <3>1. j \in Nat
            BY PutElement
        <3>2. j = 1 \/ j - 1 <= i
            BY <2>1, PutsTail
        <3> QED BY <2>2, <3>1, <3>2
    <2>4. View(ps, s) = ps[i + 1].team
        BY <2>2, <2>3, ViewOf
    <2>5. View(Tail(ps), s) = View(ps, s)
        BY <2>1, <2>2, <2>4, PutsTail
    <2> QED BY <1>2, <2>5
<1>3. CASE OwnPuts(Tail(ps)) = {}
    <2>1. View(Tail(ps), s) = s
        BY <1>1, <1>3, ViewIs
    <2>2. \A i \in OwnPuts(ps) : i = 1
        BY <1>3, PutsTail
    <2>3. 1 \in OwnPuts(ps) <=> Head(ps).path = "Users"
        BY <1>1 DEF OwnPuts
    <2>4. CASE Head(ps).path = "Users"
        <3>1. OwnPuts(ps) = {1}
            BY <2>2, <2>3, <2>4
        <3>2. View(ps, s) = ps[1].team
            BY <3>1, ViewOf
        <3> QED BY <1>3, <2>1, <2>4, <3>1, <3>2
    <2>5. CASE Head(ps).path # "Users"
        <3>1. OwnPuts(ps) = {}
            BY <2>2, <2>3, <2>5
        <3>2. View(ps, s) = s
            BY <3>1, ViewIs
        <3> QED BY <1>3, <2>1, <2>5, <3>1, <3>2
    <2> QED BY <2>4, <2>5
<1> QED BY <1>2, <1>3

Fresh(d) == Mine(d) = NoRecord /\ OwnPuts(puts[d]) = {}
Lost(d)  == AccountOf[d] \in dropped
Chosen(d) == choice[AccountOf[d]]

\* Nothing that could write a record, or has seen one, before the first write.
FreshOf(d) ==
    ~Lost(d) /\ Fresh(d) =>
        /\ screen[d] # "setup" /\ reads[d]["join"] = Idle /\ ~user[d]
        /\ \A i \in DOMAIN mainq[d] : mainq[d][i] = NoRecord
        /\ seen[d] = NoRecord /\ Chosen(d) = NoTeam
\* An answer that the user is missing is true for as long as it is under way.
MissingOf(d) ==
    ~Lost(d) /\ reads[d]["signIn"] # Idle /\ reads[d]["signIn"].answer = "missing" => Fresh(d)
LastOf(d) ==
    ~Lost(d) => /\ Chosen(d) \in Team => View(puts[d], Mine(d)) = Chosen(d)
                /\ HeardOf(puts[d], unheard[d], Mine(d))

OneDevice == \A d, x \in Device : AccountOf[d] = AccountOf[x] => d = x
NoDevice(a) == \A d \in Device : AccountOf[d] # a

ChoiceInv ==
    /\ \A d \in Device : FreshOf(d) /\ MissingOf(d) /\ LastOf(d)
    /\ \A a \in Account : NoDevice(a) => choice[a] = NoTeam

\* A player's choice and record are touched by the player's device alone.
LEMMA OnlyAccount ==
    ASSUME TypeInv, NEW d \in Device, DeviceStep(d),
           NEW a \in Account, a # AccountOf[d]
    PROVE  users'[a] = users[a] /\ choice'[a] = choice[a]
<1>1. TypeOK /\ users \in [Account -> Record \cup {NoRecord}] /\ choice \in [Account -> Record]
    BY DEF TypeInv, TypeOK
<1>2. users'[a] = users[a]
    <2>1. CASE ServerApply(d)
        BY <1>1, <2>1 DEF ServerApply
    <2>2. CASE ~ServerApply(d)
        <3>1. users' = users
            BY <2>2, PutsStep DEF RecvAck, Disconnect, ServerReject, Kill, Crash, EndProcess, server
        <3> QED BY <3>1
    <2> QED BY <2>1, <2>2
<1>3. choice'[a] = choice[a]
    <2>1. CASE (\E t : Choose(d, t)) \/ choice' = choice
        BY <1>1, <2>1 DEF Choose
    <2>2. CASE Join(d) \/ SaveUserFound(d) \/ \E t \in Team : SubmitNewTeam(d, t)
        BY <2>1, <2>2 DEF Join, SaveUserFound, SubmitNewTeam
    <2>3. CASE \/ Launch(d) \/ OpenFirebaseUI(d) \/ CancelFirebaseUI(d) \/ DidSignIn(d)
               \/ (\E t \in Team : Submit(d, t) \/ SaveUser(d, t)) \/ SignOut(d)
               \/ \E r \in {"join", "save"} : TeamNotFound(d, r)
        <3>1. Quiet(d)
            BY <2>3, QuietType
        <3> QED BY <2>1, <3>1 DEF Quiet, counts, history
    <2>4. CASE \/ (\E r \in Reader : ServerRead(d, r)) \/ LoadTab(d) \/ FetchUser(d)
               \/ ServerPush(d) \/ ServerApply(d) \/ Disconnect(d) \/ AutoHome(d)
               \/ SignInKnown(d) \/ Register(d) \/ RecvAck(d) \/ ServerReject(d)
        BY <2>1, <2>4 DEF ServerRead, LoadTab, FetchUser, ServerPush, ServerApply, Disconnect,
                          AutoHome, SignInKnown, Register, RecvAck, ServerReject, counts, history
    <2>5. CASE Kill(d) \/ Crash(d)
        BY <2>1, <2>5 DEF Kill, Crash, EndProcess
    <2> QED BY <2>2, <2>3, <2>4, <2>5 DEF DeviceStep, Player, System, Fault
<1> QED BY <1>2, <1>3

LEMMA ChoiceSame ==
    ASSUME NEW x \in Device, SameAt(x), dropped \subseteq dropped',
           users'[AccountOf[x]] = users[AccountOf[x]],
           choice'[AccountOf[x]] = choice[AccountOf[x]],
           FreshOf(x), MissingOf(x), LastOf(x)
    PROVE  FreshOf(x)' /\ MissingOf(x)' /\ LastOf(x)'
<1>1. Lost(x) => Lost(x)'
    BY DEF Lost
<1>2. Mine(x)' = Mine(x) /\ Chosen(x)' = Chosen(x)
    BY DEF Mine, Chosen
<1>3. Fresh(x)' = Fresh(x)
    BY <1>2 DEF Fresh, SameAt
<1>4. FreshOf(x)'
    BY <1>1, <1>2, <1>3 DEF FreshOf, SameAt
<1>5. MissingOf(x)'
    BY <1>1, <1>2, <1>3 DEF MissingOf, SameAt
<1>6. LastOf(x)'
    BY <1>1, <1>2 DEF LastOf, SameAt
<1> QED BY <1>4, <1>5, <1>6

\* A write to the own record with the choice it stands for.
LEMMA LastByWrite ==
    ASSUME TypeInv, NEW d \in Device, NEW t \in Record, NEW ps \in Seq(Put), LastOf(d),
           \/ ps = Append(puts[d], UserPut(t))
           \/ \E q \in Put : q.path = "Teams" /\ ps = Append(Append(puts[d], UserPut(t)), q),
           puts'[d] = ps, UNCHANGED <<users, unheard, dropped>>,
           Choose(d, t) \/ (choice' = choice /\ (Lost(d) \/ Chosen(d) = NoTeam))
    PROVE  LastOf(d)'
<1>1. /\ puts[d] \in Seq(Put) /\ unheard[d] \in Nat /\ unheard[d] <= Len(puts[d])
      /\ choice \in [Account -> Record] /\ AccountOf[d] \in Account
      /\ UserPut(t) \in Put /\ UserPut(t).path = "Users" /\ UserPut(t).team = t
      /\ NoTeam \notin Team
    BY RecordPut, DistinctAssumption, AccountAssumption DEF TypeInv, TypeOK, HeardWrites
<1>2. Mine(d)' = Mine(d) /\ Lost(d)' = Lost(d)
    BY DEF Mine, Lost
<1>3. PICK qs \in Seq(Put) : qs = Append(puts[d], UserPut(t)) /\ unheard[d] <= Len(qs)
    <2>1. PICK qs \in Seq(Put) : qs = Append(puts[d], UserPut(t))
        BY <1>1, PutsAppend
    <2>2. Len(puts[d]) \in Nat /\ Len(qs) = Len(puts[d]) + 1
        BY <1>1, <2>1, PutsAppend
    <2>3. unheard[d] <= Len(qs)
        BY <1>1, <2>2
    <2> QED BY <2>1, <2>3
<1>4. View(qs, Mine(d)) = t
    BY <1>1, <1>3, ViewAppend
<1>5. View(ps, Mine(d)) = t
    <2>1. CASE ps = qs
        BY <1>4, <2>1
    <2>2. CASE \E q \in Put : q.path = "Teams" /\ ps = Append(qs, q)
        <3>1. PICK q \in Put : q.path # "Users" /\ ps = Append(qs, q)
            BY <2>2
        <3>2. View(Append(qs, q), Mine(d)) = View(qs, Mine(d))
            BY <3>1, ViewAppend
        <3> QED BY <1>4, <3>1, <3>2
    <2> QED BY <1>3, <2>1, <2>2
<1>6. SUFFICES ASSUME ~Lost(d)
               PROVE  /\ Chosen(d)' \in Team => View(puts'[d], Mine(d)') = Chosen(d)'
                      /\ HeardOf(puts'[d], unheard'[d], Mine(d)')
    BY <1>2 DEF LastOf
<1>7. Chosen(d)' = t \/ Chosen(d)' \notin Team
    BY <1>1, <1>6 DEF Chosen, Choose
<1>8. HeardOf(qs, unheard[d], Mine(d))
    BY <1>1, <1>3, <1>6, HeardOfAppend DEF LastOf
<1>9. HeardOf(ps, unheard[d], Mine(d))
    BY <1>1, <1>3, <1>8, HeardOfAppend
<1> QED BY <1>2, <1>5, <1>7, <1>9

LEMMA LastStep ==
    ASSUME TypeInv, NEW d \in Device, DeviceStep(d), FreshOf(d), MissingOf(d), LastOf(d)
    PROVE  LastOf(d)'
<1>1. /\ TypeOK /\ puts[d] \in Seq(Put) /\ puts \in [Device -> Seq(Put)]
      /\ unheard[d] \in Nat /\ unheard \in [Device -> Nat] /\ unheard[d] <= Len(puts[d])
      /\ users \in [Account -> Record \cup {NoRecord}] /\ AccountOf[d] \in Account
      /\ "join" \in Reader /\ "save" \in Reader /\ "signIn" \in Reader
      /\ NoTeam \in Record /\ NoTeam \notin Team
    BY AccountAssumption, DistinctAssumption DEF TypeInv, TypeOK, HeardWrites, Reader, Record
<1>2. Lost(d) => Lost(d)'
    BY TeamsGrow DEF Lost
<1>3. CASE UNCHANGED <<puts, unheard, users, choice, dropped>>
    BY <1>3 DEF LastOf, Lost, Chosen, Mine
<1>4. CASE \/ Launch(d) \/ OpenFirebaseUI(d) \/ CancelFirebaseUI(d) \/ DidSignIn(d)
           \/ (\E t \in Team : Submit(d, t) \/ SaveUser(d, t)) \/ SignOut(d)
           \/ \E r \in {"join", "save"} : TeamNotFound(d, r)
    <2>1. Quiet(d)
        BY <1>4, QuietType
    <2> QED BY <1>3, <2>1 DEF Quiet, client, counts, history, server
<1>5. CASE \/ (\E r \in Reader : ServerRead(d, r)) \/ LoadTab(d) \/ FetchUser(d)
           \/ ServerPush(d) \/ AutoHome(d) \/ SignInKnown(d)
           \/ (SaveUserFound(d) /\ ~user[d])
    BY <1>3, <1>5 DEF ServerRead, LoadTab, FetchUser, ServerPush, AutoHome, SignInKnown,
                      SaveUserFound, client, counts, history, server
<1>6. CASE Register(d)
    <2>1. UserPut(NoTeam) \in Put
        BY <1>1, RecordPut
    <2>2. puts'[d] = Append(puts[d], UserPut(NoTeam)) /\ Append(puts[d], UserPut(NoTeam)) \in Seq(Put)
        BY <1>1, <1>6, <2>1, WriteOne, PutsAppend DEF Register
    <2>3. UNCHANGED <<users, unheard, dropped, choice>>
        BY <1>6 DEF Register, server, history
    <2>4. Lost(d) \/ Chosen(d) = NoTeam
        <3>1. reads[d]["signIn"] # Idle /\ reads[d]["signIn"].answer = "missing"
            BY <1>6 DEF Register, Answered
        <3> QED BY <3>1 DEF MissingOf, FreshOf
    <2> QED BY <1>1, <2>2, <2>3, <2>4, LastByWrite
<1>7. ASSUME NEW r \in Reader, Answered(d, r, "found"), Write(d, <<UserPut(reads[d][r].team)>>),
             Choose(d, reads[d][r].team), UNCHANGED <<users, unheard, dropped>>
      PROVE  LastOf(d)'
    <2>1. PICK t \in Record : t = reads[d][r].team
        BY <1>1, <1>7, AnsweredIs
    <2>2. UserPut(t) \in Put
        BY RecordPut
    <2>3. puts'[d] = Append(puts[d], UserPut(t)) /\ Append(puts[d], UserPut(t)) \in Seq(Put)
        BY <1>1, <1>7, <2>1, <2>2, WriteOne, PutsAppend
    <2> QED BY <1>7, <2>1, <2>3, LastByWrite
<1>8. CASE Join(d) \/ (SaveUserFound(d) /\ user[d])
    BY <1>1, <1>7, <1>8 DEF Join, SaveUserFound, server
<1>9. CASE \E t \in Team : SubmitNewTeam(d, t)
    <2>1. PICK t \in Team : SubmitNewTeam(d, t)
        BY <1>9
    <2>2. t \in Record /\ UserPut(t) \in Put /\ TeamPut(t) \in Put /\ TeamPut(t).path = "Teams"
        BY RecordPut, TeamPutType DEF Record
    <2>3. PICK ps \in Seq(Put) : ps = Append(Append(puts[d], UserPut(t)), TeamPut(t))
        BY <1>1, <2>2, PutsAppend
    <2>4. puts'[d] = ps
        BY <1>1, <2>1, <2>2, <2>3, WriteTwo DEF SubmitNewTeam
    <2>5. UNCHANGED <<users, unheard, dropped>> /\ Choose(d, t)
        BY <2>1 DEF SubmitNewTeam, server
    <2> QED BY <2>2, <2>3, <2>4, <2>5, LastByWrite
<1>10. CASE ServerApply(d)
    <2>1. /\ puts' = puts /\ unheard'[d] = unheard[d] + 1 /\ UNCHANGED <<choice, dropped>>
          /\ unheard[d] < Len(puts[d])
        BY <1>1, <1>10 DEF ServerApply, counts, history
    <2>2. Lost(d)' = Lost(d) /\ Chosen(d)' = Chosen(d)
        BY <2>1 DEF Lost, Chosen
    <2>3. Mine(d)' = IF puts[d][unheard[d] + 1].path = "Users"
                     THEN puts[d][unheard[d] + 1].team ELSE Mine(d)
        <3>1. CASE puts[d][unheard[d] + 1].path = "Users"
            <4>1. users' = [users EXCEPT ![AccountOf[d]] = puts[d][unheard[d] + 1].team]
                BY <1>10, <3>1 DEF ServerApply
            <4> QED BY <1>1, <3>1, <4>1 DEF Mine
        <3>2. CASE puts[d][unheard[d] + 1].path # "Users"
            BY <1>10, <3>2 DEF ServerApply, Mine
        <3> QED BY <3>1, <3>2
    <2>4. HeardOf(puts[d], unheard[d], Mine(d)) => HeardOf(puts[d], unheard[d] + 1, Mine(d)')
        BY <1>1, <2>1, <2>3, HeardOfApply
    <2>5. View(puts[d], Mine(d)') = View(puts[d], Mine(d))
        <3>1. CASE OwnPuts(puts[d]) # {}
            BY <3>1 DEF View
        <3>2. CASE OwnPuts(puts[d]) = {}
            <4>1. unheard[d] + 1 \in DOMAIN puts[d]
                BY <1>1, <2>1, LenProperties
            <4>2. puts[d][unheard[d] + 1].path # "Users"
                BY <3>2, <4>1 DEF OwnPuts
            <4> QED BY <2>3, <4>2
        <3> QED BY <3>1, <3>2
    <2> QED BY <2>1, <2>2, <2>4, <2>5 DEF LastOf
<1>11. CASE Disconnect(d)
    <2>1. UNCHANGED <<puts, users, choice, dropped>> /\ unheard'[d] = 0
        BY <1>1, <1>11 DEF Disconnect, server, history
    <2>2. HeardOf(puts[d], 0, Mine(d))
        BY <1>1, HeardOfNone
    <2> QED BY <2>1, <2>2 DEF LastOf, Lost, Chosen, Mine
<1>12. CASE RecvAck(d)
    <2>1. puts[d] # <<>> /\ unheard[d] \in Nat \ {0} /\ 1 <= unheard[d]
        BY <1>1, <1>12, Oldest DEF RecvAck
    <2>2. puts'[d] = Tail(puts[d]) /\ unheard'[d] = unheard[d] - 1
          /\ UNCHANGED <<users, choice, dropped>>
        BY <1>1, <1>12 DEF RecvAck, server, counts, history
    <2>3. Lost(d)' = Lost(d) /\ Chosen(d)' = Chosen(d) /\ Mine(d)' = Mine(d)
        BY <2>2 DEF Lost, Chosen, Mine
    <2>4. SUFFICES ASSUME ~Lost(d)
                   PROVE  /\ Chosen(d) \in Team => View(Tail(puts[d]), Mine(d)) = Chosen(d)
                          /\ HeardOf(Tail(puts[d]), unheard[d] - 1, Mine(d))
        BY <2>2, <2>3 DEF LastOf
    <2>5. HeardOf(Tail(puts[d]), unheard[d] - 1, Mine(d))
        BY <1>1, <2>1, <2>4, HeardOfTail DEF LastOf
    <2>6. View(Tail(puts[d]), Mine(d)) = View(puts[d], Mine(d))
        <3>1. CASE Head(puts[d]).path # "Users" \/ OwnPuts(Tail(puts[d])) # {}
            BY <1>1, <2>1, <3>1, ViewTail
        <3>2. CASE Head(puts[d]).path = "Users" /\ OwnPuts(Tail(puts[d])) = {}
            <4>1. /\ OwnPuts(puts[d]) = {1} /\ View(puts[d], Mine(d)) = puts[d][1].team
                  /\ View(Tail(puts[d]), Mine(d)) = Mine(d)
                BY <1>1, <2>1, <3>2, ViewTail
            <4>2. Mine(d) = puts[d][1].team
                BY <2>1, <2>4, <4>1 DEF LastOf, HeardOf
            <4> QED BY <4>1, <4>2
        <3> QED BY <3>1, <3>2
    <2> QED BY <2>4, <2>5, <2>6 DEF LastOf
<1>13. CASE ServerReject(d)
    <2>1. /\ puts[d] # <<>> /\ puts'[d] = Tail(puts[d]) /\ unheard'[d] = 0
          /\ UNCHANGED <<users, choice>>
        BY <1>1, <1>13 DEF ServerReject, server
    <2>2. Chosen(d)' = Chosen(d) /\ Mine(d)' = Mine(d)
        BY <2>1 DEF Chosen, Mine
    <2>3. HeardOf(Tail(puts[d]), 0, Mine(d))
        BY <1>1, <2>1, HeardOfNone, PutsTail
    <2>4. CASE Head(puts[d]).path = "Users"
        <3>1. 1 \in OwnPuts(<<Head(puts[d])>>)
            BY <2>4 DEF OwnPuts
        <3>2. AccountOf[d] \in dropped'
            BY <1>13, <3>1 DEF ServerReject, LostWith
        <3> QED BY <3>2 DEF LastOf, Lost
    <2>5. CASE Head(puts[d]).path # "Users"
        <3>1. View(Tail(puts[d]), Mine(d)) = View(puts[d], Mine(d))
            BY <1>1, <2>1, <2>5, ViewTail
        <3> QED BY <1>2, <2>1, <2>2, <2>3, <3>1 DEF LastOf
    <2> QED BY <2>4, <2>5
<1>14. CASE Kill(d) \/ Crash(d)
    <2>1. /\ puts'[d] = <<>> /\ unheard'[d] = 0 /\ UNCHANGED <<users, choice>>
          /\ dropped' = dropped \cup LostWith(d, puts[d])
        BY <1>1, <1>14 DEF Kill, Crash, EndProcess, server
    <2>2. Chosen(d)' = Chosen(d) /\ Mine(d)' = Mine(d)
        BY <2>1 DEF Chosen, Mine
    <2>3. <<>> \in Seq(Put) /\ OwnPuts(<<>>) = {}
        BY EmptySeq DEF OwnPuts
    <2>4. HeardOf(puts'[d], unheard'[d], Mine(d)')
        BY <2>1, <2>3, HeardOfNone
    <2>5. CASE OwnPuts(puts[d]) # {}
        <3>1. AccountOf[d] \in LostWith(d, puts[d])
            BY <2>5 DEF LostWith
        <3> QED BY <2>1, <3>1 DEF LastOf, Lost
    <2>6. CASE OwnPuts(puts[d]) = {}
        <3>1. View(puts[d], Mine(d)) = Mine(d) /\ View(puts'[d], Mine(d)) = Mine(d)
            BY <1>1, <2>1, <2>3, <2>6, ViewIs
        <3> QED BY <1>2, <2>1, <2>2, <2>4, <3>1 DEF LastOf
    <2> QED BY <2>5, <2>6
<1> QED BY <1>4, <1>5, <1>6, <1>8, <1>9, <1>10, <1>11, <1>12, <1>13, <1>14
        DEF DeviceStep, Player, System, Fault

\* A device is not fresh again once it has written its player's record.
LEMMA FreshBefore ==
    ASSUME TypeInv, NEW d \in Device, DeviceStep(d), LastOf(d), Fresh(d)', ~Lost(d)'
    PROVE  Fresh(d) /\ ~Lost(d)
<1>1. /\ TypeOK /\ puts[d] \in Seq(Put) /\ puts \in [Device -> Seq(Put)]
      /\ unheard[d] \in Nat /\ NoRecord \notin Record
    BY DistinctAssumption DEF TypeInv, TypeOK, Record
<1>2. ~Lost(d)
    BY TeamsGrow DEF Lost
<1>3. OwnPuts(puts'[d]) = {} /\ Mine(d)' = NoRecord
    BY DEF Fresh
<1>4. CASE puts'[d] = puts[d] /\ UNCHANGED users
    BY <1>2, <1>4 DEF Fresh, Mine
<1>5. CASE /\ \/ \E p \in Put : puts'[d] = Append(puts[d], p)
              \/ \E p \in Put, q \in Put : puts'[d] = Append(Append(puts[d], p), q)
           /\ UNCHANGED users
    <2>1. OwnPuts(puts[d]) = {}
        <3>1. CASE \E p \in Put : puts'[d] = Append(puts[d], p)
            BY <1>1, <1>3, <3>1, PutsAppend
        <3>2. CASE \E p \in Put, q \in Put : puts'[d] = Append(Append(puts[d], p), q)
            <4>1. PICK p \in Put, q \in Put : puts'[d] = Append(Append(puts[d], p), q)
                BY <3>2
            <4>2. PICK qs \in Seq(Put) : qs = Append(puts[d], p)
                BY <1>1, PutsAppend
            <4>3. OwnPuts(qs) = {}
                <5>1. OwnPuts(qs) \subseteq OwnPuts(Append(qs, q))
                    BY <4>1, PutsAppend
                <5>2. OwnPuts(Append(qs, q)) = {}
                    BY <1>3, <4>1, <4>2
                <5> QED BY <5>1, <5>2
            <4> QED BY <1>1, <4>2, <4>3, PutsAppend
        <3> QED BY <1>5, <3>1, <3>2
    <2> QED BY <1>2, <1>3, <1>5, <2>1 DEF Fresh, Mine
<1>6. CASE ServerApply(d)
    <2>1. puts' = puts /\ unheard[d] + 1 \in DOMAIN puts[d]
        BY <1>1, <1>6, LenProperties DEF ServerApply
    <2>2. puts[d][unheard[d] + 1].path # "Users"
        BY <1>3, <2>1 DEF OwnPuts
    <2>3. users' = users
        BY <1>6, <2>2 DEF ServerApply
    <2> QED BY <1>4, <2>1, <2>3
<1>7. CASE RecvAck(d)
    <2>1. puts[d] # <<>> /\ puts'[d] = Tail(puts[d]) /\ UNCHANGED users /\ 1 <= unheard[d]
        BY <1>1, <1>7, Oldest DEF RecvAck, server
    <2>2. Mine(d) = NoRecord
        BY <1>3, <2>1 DEF Mine
    <2>3. CASE Head(puts[d]).path # "Users"
        BY <1>1, <1>2, <1>3, <2>1, <2>2, <2>3, ViewTail DEF Fresh
    <2>4. CASE Head(puts[d]).path = "Users"
        <3>1. OwnPuts(puts[d]) = {1}
            BY <1>1, <1>3, <2>1, <2>4, ViewTail
        <3>2. Mine(d) = puts[d][1].team
            BY <1>2, <2>1, <3>1 DEF LastOf, HeardOf
        <3>3. puts[d][1].team \in Record
            BY <1>1, <3>1, PutElement
        <3> QED BY <1>1, <2>2, <3>2, <3>3
    <2> QED BY <2>3, <2>4
<1>8. CASE Disconnect(d)
    BY <1>4, <1>8 DEF Disconnect, server
<1>9. CASE ServerReject(d)
    <2>1. puts[d] # <<>> /\ puts'[d] = Tail(puts[d]) /\ UNCHANGED users
        BY <1>1, <1>9 DEF ServerReject, server
    <2>2. Head(puts[d]).path # "Users"
        <3> SUFFICES ASSUME Head(puts[d]).path = "Users" PROVE FALSE
            OBVIOUS
        <3>1. 1 \in OwnPuts(<<Head(puts[d])>>)
            BY DEF OwnPuts
        <3>2. AccountOf[d] \in dropped'
            BY <1>9, <3>1 DEF ServerReject, LostWith
        <3> QED BY <3>2 DEF Lost
    <2>3. OwnPuts(puts[d]) = {}
        BY <1>1, <1>3, <2>1, <2>2, ViewTail
    <2> QED BY <1>2, <1>3, <2>1, <2>3 DEF Fresh, Mine
<1>10. CASE Kill(d) \/ Crash(d)
    <2>1. dropped' = dropped \cup LostWith(d, puts[d]) /\ UNCHANGED users
        BY <1>10 DEF Kill, Crash, EndProcess, server
    <2>2. OwnPuts(puts[d]) = {}
        BY <2>1 DEF LostWith, Lost
    <2> QED BY <1>2, <1>3, <2>1, <2>2 DEF Fresh, Mine
<1> QED BY <1>4, <1>5, <1>6, <1>7, <1>8, <1>9, <1>10, PutsStep

\* Nobody but the sign-in writes the first record.
LEMMA FreshAfter ==
    ASSUME TypeInv, NEW d \in Device, DeviceStep(d), FreshOf(d), Fresh(d), ~Lost(d), ~Register(d)
    PROVE  Fresh(d)'
<1>1. /\ TypeOK /\ puts[d] \in Seq(Put) /\ puts \in [Device -> Seq(Put)]
      /\ unheard[d] \in Nat /\ "join" \in Reader
    BY DEF TypeInv, TypeOK, Reader
<1>2. screen[d] # "setup" /\ reads[d]["join"] = Idle /\ ~user[d]
      /\ OwnPuts(puts[d]) = {} /\ Mine(d) = NoRecord
    BY DEF FreshOf, Fresh
<1>3. CASE puts'[d] = puts[d] /\ UNCHANGED users
    BY <1>2, <1>3 DEF Fresh, Mine
<1>4. CASE \/ Launch(d) \/ OpenFirebaseUI(d) \/ CancelFirebaseUI(d) \/ DidSignIn(d)
           \/ (\E t \in Team : Submit(d, t) \/ SaveUser(d, t)) \/ SignOut(d)
           \/ \E r \in {"join", "save"} : TeamNotFound(d, r)
    <2>1. Quiet(d)
        BY <1>4, QuietType
    <2> QED BY <1>3, <2>1 DEF Quiet, client, server
<1>5. CASE \/ (\E r \in Reader : ServerRead(d, r)) \/ LoadTab(d) \/ FetchUser(d)
           \/ ServerPush(d) \/ AutoHome(d) \/ SignInKnown(d) \/ Disconnect(d)
           \/ (SaveUserFound(d) /\ ~user[d])
    BY <1>3, <1>5 DEF ServerRead, LoadTab, FetchUser, ServerPush, AutoHome, SignInKnown,
                      Disconnect, SaveUserFound, client, server
<1>6. ~Join(d) /\ ~ (SaveUserFound(d) /\ user[d]) /\ ~ \E t \in Team : SubmitNewTeam(d, t)
    BY <1>2 DEF Join, Answered, SubmitNewTeam
<1>7. CASE ServerApply(d)
    <2>1. puts' = puts /\ unheard[d] + 1 \in DOMAIN puts[d]
        BY <1>1, <1>7, LenProperties DEF ServerApply
    <2>2. puts[d][unheard[d] + 1].path # "Users"
        BY <1>2, <2>1 DEF OwnPuts
    <2>3. users' = users
        BY <1>7, <2>2 DEF ServerApply
    <2> QED BY <1>3, <2>1, <2>3
<1>8. CASE RecvAck(d) \/ ServerReject(d)
    <2>1. puts[d] # <<>> /\ puts'[d] = Tail(puts[d]) /\ UNCHANGED users
        BY <1>1, <1>8, Oldest DEF RecvAck, ServerReject, server
    <2>2. OwnPuts(puts'[d]) = {}
        BY <1>1, <1>2, <2>1, PutsTail
    <2> QED BY <1>2, <2>1, <2>2 DEF Fresh, Mine
<1>9. CASE Kill(d) \/ Crash(d)
    <2>1. puts'[d] = <<>> /\ UNCHANGED users
        BY <1>1, <1>9 DEF Kill, Crash, EndProcess, server
    <2>2. OwnPuts(puts'[d]) = {}
        BY <2>1 DEF OwnPuts
    <2> QED BY <1>2, <2>1, <2>2 DEF Fresh, Mine
<1> QED BY <1>4, <1>5, <1>6, <1>7, <1>8, <1>9 DEF DeviceStep, Player, System, Fault

\* Only missing records in the queue, and one more of them or one less.
Nothing(q) == \A i \in DOMAIN q : q[i] = NoRecord

LEMMA NothingKept ==
    ASSUME NEW q \in Seq(Record \cup {NoRecord}), Nothing(q)
    PROVE  /\ Nothing(Append(q, NoRecord))
           /\ q # <<>> => Head(q) = NoRecord /\ Nothing(Tail(q))
<1>1. /\ DOMAIN Append(q, NoRecord) = 1..(Len(q) + 1) /\ DOMAIN q = 1..Len(q)
      /\ Len(q) \in Nat /\ Append(q, NoRecord)[Len(q) + 1] = NoRecord
      /\ \A i \in 1..Len(q) : Append(q, NoRecord)[i] = q[i]
    BY AppendProperties, LenProperties
<1>2. Nothing(Append(q, NoRecord))
    <2> SUFFICES ASSUME NEW i \in 1..(Len(q) + 1) PROVE Append(q, NoRecord)[i] = NoRecord
        BY <1>1 DEF Nothing
    <2>1. i \in 1..Len(q) \/ i = Len(q) + 1
        BY <1>1
    <2> QED BY <1>1, <2>1 DEF Nothing
<1>3. ASSUME q # <<>> PROVE Head(q) = NoRecord /\ Nothing(Tail(q))
    <2>1. /\ DOMAIN Tail(q) = 1..(Len(q) - 1) /\ Len(q) \in Nat \ {0} /\ Head(q) = q[1]
          /\ \A i \in 1..(Len(q) - 1) : Tail(q)[i] = q[i + 1]
        BY <1>3, HeadTailProperties, LenProperties, EmptySeq
    <2>2. Head(q) = NoRecord
        BY <1>1, <2>1 DEF Nothing
    <2>3. ASSUME NEW i \in 1..(Len(q) - 1) PROVE Tail(q)[i] = NoRecord
        <3>1. i + 1 \in 1..Len(q)
            BY <2>1
        <3> QED BY <1>1, <2>1, <3>1 DEF Nothing
    <2> QED BY <2>1, <2>2, <2>3 DEF Nothing
<1> QED BY <1>2, <1>3

LEMMA FreshStep ==
    ASSUME TypeInv, NEW d \in Device, DeviceStep(d), FreshOf(d), LastOf(d),
           Fresh(d)', ~Lost(d)'
    PROVE  /\ screen'[d] # "setup" /\ reads'[d]["join"] = Idle /\ ~user'[d]
           /\ Nothing(mainq'[d])
           /\ seen'[d] = NoRecord /\ Chosen(d)' = NoTeam
<1>1. /\ TypeOK /\ puts[d] \in Seq(Put) /\ puts \in [Device -> Seq(Put)]
      /\ seen \in [Device -> Record \cup {NoRecord}] /\ user \in [Device -> BOOLEAN]
      /\ screen \in [Device -> Screen] /\ AccountOf[d] \in Account
      /\ mainq \in [Device -> Seq(Record \cup {NoRecord})]
      /\ mainq[d] \in Seq(Record \cup {NoRecord})
      /\ "join" \in Reader /\ "save" \in Reader /\ "signIn" \in Reader
      /\ NoTeam \in Record
    BY AccountAssumption DEF TypeInv, TypeOK, Reader, Record
<1>2. Fresh(d) /\ ~Lost(d)
    BY FreshBefore
<1>3. /\ screen[d] # "setup" /\ reads[d]["join"] = Idle /\ ~user[d]
      /\ Nothing(mainq[d]) /\ seen[d] = NoRecord /\ Chosen(d) = NoTeam
      /\ OwnPuts(puts[d]) = {} /\ Mine(d) = NoRecord
    BY <1>2 DEF FreshOf, Fresh, Nothing
<1>4. OwnPuts(puts'[d]) = {}
    BY DEF Fresh
<1>5. Nothing(<<>>)
    BY DEF Nothing
<1>6. Nothing(Append(mainq[d], NoRecord))
    BY <1>1, <1>3, NothingKept
<1>7. \A ps \in Seq(Put) : OwnPuts(ps) = {} => View(ps, NoRecord) = NoRecord
    BY ViewIs
<1>8. ASSUME NEW ps \in Seq(Put), OwnPuts(ps) = {}, Notify(d, ps, NoRecord)
      PROVE  Nothing(mainq'[d])
    <2>1. View(ps, NoRecord) = NoRecord /\ View(puts[d], seen[d]) = NoRecord
        BY <1>1, <1>3, <1>7, <1>8
    <2>2. mainq' = mainq
        BY <1>8, <2>1 DEF Notify
    <2> QED BY <1>3, <2>2
<1>9. CASE AutoHome(d) \/ SignInKnown(d)
    <2>1. UNCHANGED choice /\ reads'[d]["join"] = Idle
        <3>1. CASE AutoHome(d)
            BY <1>3, <3>1 DEF AutoHome, history
        <3>2. CASE SignInKnown(d)
            <4>1. Answered(d, "signIn", "found") /\ UNCHANGED choice
                BY <3>2 DEF SignInKnown, history
            <4> QED BY <1>1, <1>3, <4>1, AnsweredOthers
        <3> QED BY <1>9, <3>1, <3>2
    <2>2. GoHome(d, puts[d]) \/ UNCHANGED <<screen, user, mainq, seen>>
        BY <1>9 DEF AutoHome, SignInKnown
    <2>3. CASE GoHome(d, puts[d])
        <3>1. screen'[d] = "home" /\ ~user'[d] /\ seen' = seen
            BY <1>1, <2>3 DEF GoHome
        <3>2. mainq'[d] = mainq[d] \/ mainq'[d] = Append(mainq[d], NoRecord)
            BY <1>1, <1>3, <1>7, <2>3 DEF GoHome
        <3> QED BY <1>3, <1>6, <2>1, <3>1, <3>2 DEF Chosen
    <2> QED BY <1>3, <2>1, <2>2, <2>3 DEF Chosen
<1>10. ~Join(d) /\ ~ (SaveUserFound(d) /\ user[d]) /\ ~ (\E t \in Team : SubmitNewTeam(d, t))
       /\ ~ (\E t \in Team : Submit(d, t))
    BY <1>3 DEF Join, Answered, SubmitNewTeam, Submit
<1>11. ~Register(d)
    <2> SUFFICES ASSUME Register(d) PROVE FALSE
        OBVIOUS
    <2>1. UserPut(NoTeam) \in Put /\ UserPut(NoTeam).path = "Users"
        BY <1>1, RecordPut
    <2>2. puts'[d] = Append(puts[d], UserPut(NoTeam))
        BY <1>1, <2>1, WriteOne DEF Register
    <2>3. Len(puts[d]) + 1 \in OwnPuts(Append(puts[d], UserPut(NoTeam)))
        BY <1>1, <2>1, PutsAppend
    <2> QED BY <1>4, <2>2, <2>3
<1>12. CASE \/ Launch(d) \/ OpenFirebaseUI(d) \/ CancelFirebaseUI(d) \/ SignOut(d)
    <2>1. screen'[d] # "setup" /\ reads' = reads
        BY <1>1, <1>12 DEF Launch, OpenFirebaseUI, CancelFirebaseUI, SignOut
    <2>2. Quiet(d)
        BY <1>12, QuietType
    <2> QED BY <1>3, <2>1, <2>2 DEF Quiet, profile, client, counts, history, Chosen
<1>13. CASE \/ DidSignIn(d) \/ (\E t \in Team : SaveUser(d, t))
            \/ \E r \in {"join", "save"} : TeamNotFound(d, r)
    <2>1. screen'[d] # "setup"
        BY <1>1, <1>3, <1>13 DEF DidSignIn, SaveUser, TeamNotFound
    <2>2. Quiet(d)
        BY <1>13, QuietType
    <2>3. reads'[d]["join"] = Idle
        <3>1. CASE DidSignIn(d) \/ \E t \in Team : SaveUser(d, t)
            <4>1. PICK r \in Reader, t \in Team \cup {NoTeam} : Ask(d, r, t) /\ r # "join"
                BY <1>1, <3>1 DEF DidSignIn, SaveUser, Reader
            <4> QED BY <1>1, <1>3, <4>1, AskOthers
        <3>2. CASE \E r \in {"join", "save"} : TeamNotFound(d, r)
            <4>1. PICK r \in Reader : Answered(d, r, "missing")
                BY <1>1, <3>2 DEF TeamNotFound
            <4> QED BY <1>1, <1>3, <4>1, AnsweredOthers
        <3> QED BY <1>13, <3>1, <3>2
    <2> QED BY <1>3, <2>1, <2>2, <2>3 DEF Quiet, profile, client, counts, history, Chosen
<1>14. CASE SaveUserFound(d) /\ ~user[d]
    <2>1. reads'[d]["join"] = Idle
        <3>1. Answered(d, "save", "found")
            BY <1>14 DEF SaveUserFound
        <3> QED BY <1>1, <1>3, <3>1, AnsweredOthers
    <2> QED BY <1>3, <1>14, <2>1 DEF SaveUserFound, profile, Chosen
<1>15. CASE \E r \in Reader : ServerRead(d, r)
    <2>1. PICK r \in Reader : ServerRead(d, r)
        BY <1>15
    <2>2. r # "join"
        BY <1>3, <2>1 DEF ServerRead
    <2>3. reads'[d]["join"] = Idle
        BY <1>1, <1>3, <2>1, <2>2, ServerReadIs
    <2> QED BY <1>3, <2>1, <2>3 DEF ServerRead, profile, client, counts, history, Chosen
<1>16. CASE LoadTab(d) \/ ServerApply(d) \/ Disconnect(d)
    BY <1>3, <1>16 DEF LoadTab, ServerApply, Disconnect, profile, client, counts, history, Chosen
<1>17. CASE FetchUser(d)
    <2>1. mainq[d] # <<>> /\ mainq'[d] = Tail(mainq[d])
        BY <1>1, <1>17 DEF FetchUser
    <2>2. Head(mainq[d]) = NoRecord /\ Nothing(Tail(mainq[d]))
        BY <1>1, <1>3, <2>1, NothingKept
    <2>3. UNCHANGED <<user, screen, reads, seen, choice>>
        BY <1>17, <2>2 DEF FetchUser, counts, history
    <2> QED BY <1>3, <2>1, <2>2, <2>3 DEF Chosen
<1>18. CASE ServerPush(d)
    <2>1. seen'[d] = NoRecord /\ Notify(d, puts[d], NoRecord)
        BY <1>1, <1>3, <1>18 DEF ServerPush
    <2> QED BY <1>1, <1>3, <1>8, <1>18, <2>1 DEF ServerPush, counts, history, Chosen
<1>19. CASE RecvAck(d) \/ ServerReject(d)
    <2>1. seen'[d] = NoRecord
        BY <1>1, <1>3, <1>19 DEF RecvAck, ServerReject, profile
    <2>2. PICK ps \in Seq(Put) : ps = puts'[d]
        <3>1. puts[d] # <<>> /\ puts'[d] = Tail(puts[d])
            BY <1>1, <1>19, Oldest DEF RecvAck, ServerReject
        <3> QED BY <1>1, <3>1, PutsTail
    <2>3. Notify(d, puts'[d], seen'[d])
        BY <1>19 DEF RecvAck, ServerReject, profile
    <2>4. Nothing(mainq'[d])
        BY <1>4, <1>8, <2>1, <2>2, <2>3
    <2> QED BY <1>3, <1>19, <2>1, <2>4 DEF RecvAck, ServerReject, profile, counts, history, Chosen
<1>20. CASE Kill(d) \/ Crash(d)
    <2>1. PICK to \in {"off", "crashed"} : EndProcess(d, to)
        BY <1>20 DEF Kill, Crash
    <2>2. screen'[d] = to /\ mainq'[d] = <<>> /\ seen'[d] = NoRecord /\ ~user'[d]
        BY <1>1, <2>1 DEF EndProcess
    <2>3. reads'[d]["join"] = Idle
        BY <1>1, <2>1 DEF EndProcess, TypeOK
    <2> QED BY <1>3, <1>5, <2>1, <2>2, <2>3 DEF EndProcess, Chosen
<1> QED BY <1>9, <1>10, <1>11, <1>12, <1>13, <1>14, <1>15, <1>16, <1>17, <1>18, <1>19, <1>20
        DEF DeviceStep, Player, System, Fault

LEMMA MissingStep ==
    ASSUME TypeInv, NEW d \in Device, DeviceStep(d), FreshOf(d), MissingOf(d)
    PROVE  MissingOf(d)'
<1> SUFFICES ASSUME ~Lost(d)', reads'[d]["signIn"] # Idle,
                    reads'[d]["signIn"].answer = "missing"
             PROVE  Fresh(d)'
    BY DEF MissingOf
<1>1. /\ TypeOK /\ puts[d] \in Seq(Put) /\ Mine(d) \in Record \cup {NoRecord}
      /\ "join" \in Reader /\ "save" \in Reader /\ "signIn" \in Reader
      /\ NoTeam \in Record /\ NoRecord \notin Record
    BY AccountAssumption, DistinctAssumption DEF TypeInv, TypeOK, Reader, Record, Mine
<1>2. ~Lost(d)
    BY TeamsGrow DEF Lost
<1>3. ~Register(d)
    BY <1>1, AnsweredIs DEF Register
<1>4. SUFFICES Fresh(d)
    BY <1>2, <1>3, FreshAfter
<1>5. CASE reads'[d]["signIn"] = reads[d]["signIn"]
    BY <1>2, <1>5 DEF MissingOf
<1>6. CASE ServerRead(d, "signIn")
    <2>1. View(puts[d], Mine(d)) = NoRecord
        BY <1>1, <1>6, ServerReadIs
    <2>2. OwnPuts(puts[d]) = {}
        BY <1>1, <2>1, ViewType
    <2>3. Mine(d) = NoRecord
        BY <1>1, <2>1, <2>2, ViewIs
    <2> QED BY <2>2, <2>3 DEF Fresh
<1>7. CASE DidSignIn(d)
    <2>1. reads'[d]["signIn"] = [team |-> NoTeam, answer |-> "asked"]
        BY <1>1, <1>7, AskIs DEF DidSignIn
    <2> QED BY <2>1
<1>8. CASE \E t \in Team : Submit(d, t) \/ SaveUser(d, t)
    <2>1. PICK t \in Team, r \in Reader : Ask(d, r, t) /\ r # "signIn"
        BY <1>1, <1>8 DEF Submit, SaveUser
    <2>2. reads'[d]["signIn"] = reads[d]["signIn"]
        BY <1>1, <2>1, AskOthers
    <2> QED BY <1>5, <2>2
<1>9. CASE \/ SignInKnown(d) \/ Join(d) \/ SaveUserFound(d)
           \/ \E r \in {"join", "save"} : TeamNotFound(d, r)
    <2>1. PICK r \in Reader : \E answer : Answered(d, r, answer)
        BY <1>1, <1>9 DEF SignInKnown, Join, SaveUserFound, TeamNotFound
    <2>2. reads'[d]["signIn"] = reads[d]["signIn"]
        BY <1>1, <2>1, AnsweredOthers
    <2> QED BY <1>5, <2>2
<1>10. CASE \E r \in Reader : ServerRead(d, r) /\ r # "signIn"
    <2>1. PICK r \in Reader : ServerRead(d, r) /\ r # "signIn"
        BY <1>10
    <2>2. reads'[d]["signIn"] = reads[d]["signIn"]
        BY <1>1, <2>1, ServerReadIs
    <2> QED BY <1>5, <2>2
<1>11. CASE Kill(d) \/ Crash(d)
    <2>1. PICK to : EndProcess(d, to)
        BY <1>11 DEF Kill, Crash
    <2>2. reads'[d]["signIn"] = Idle
        BY <1>1, <2>1 DEF EndProcess, TypeOK
    <2> QED BY <2>2
<1>12. CASE \/ Launch(d) \/ OpenFirebaseUI(d) \/ CancelFirebaseUI(d) \/ SignOut(d)
            \/ (\E t \in Team : SubmitNewTeam(d, t)) \/ LoadTab(d) \/ AutoHome(d)
            \/ ServerPush(d) \/ ServerApply(d) \/ RecvAck(d) \/ FetchUser(d)
            \/ Disconnect(d) \/ ServerReject(d)
    <2>1. reads' = reads
        BY <1>12 DEF Launch, OpenFirebaseUI, CancelFirebaseUI, SignOut, SubmitNewTeam,
                     LoadTab, AutoHome, ServerPush, ServerApply, RecvAck, FetchUser,
                     Disconnect, ServerReject
    <2> QED BY <1>5, <2>1
<1> QED BY <1>3, <1>6, <1>7, <1>8, <1>9, <1>10, <1>11, <1>12
        DEF DeviceStep, Player, System, Fault

LEMMA ChoiceStep ==
    ASSUME OneDevice
    PROVE  TypeInv /\ ChoiceInv /\ [Next]_vars => ChoiceInv'
<1> SUFFICES ASSUME TypeInv, ChoiceInv, [Next]_vars PROVE ChoiceInv'
    OBVIOUS
<1>1. /\ \A x \in Device : FreshOf(x) /\ MissingOf(x) /\ LastOf(x)
      /\ \A a \in Account : NoDevice(a) => choice[a] = NoTeam
    BY DEF ChoiceInv
<1>2. CASE UNCHANGED vars
    <2>1. \A x \in Device : SameAt(x)
        BY <1>2 DEF SameAt, vars, profile, client
    <2>2. UNCHANGED <<users, choice, dropped>>
        BY <1>2 DEF vars, server, counts, history
    <2>3. \A x \in Device : FreshOf(x)' /\ MissingOf(x)' /\ LastOf(x)'
        BY <1>1, <2>1, <2>2, ChoiceSame
    <2> QED BY <1>1, <2>2, <2>3 DEF ChoiceInv
<1>3. CASE Next
    <2>1. PICK d \in Device : DeviceStep(d)
        BY <1>3 DEF Next, DeviceStep
    <2>2. ASSUME NEW x \in Device PROVE FreshOf(x)' /\ MissingOf(x)' /\ LastOf(x)'
        <3>1. CASE x = d
            <4>1. FreshOf(d) /\ MissingOf(d) /\ LastOf(d)
                BY <1>1
            <4>2. FreshOf(d)'
                <5> SUFFICES ASSUME ~Lost(d)', Fresh(d)'
                             PROVE  /\ screen'[d] # "setup" /\ reads'[d]["join"] = Idle /\ ~user'[d]
                                    /\ \A i \in DOMAIN mainq'[d] : mainq'[d][i] = NoRecord
                                    /\ seen'[d] = NoRecord /\ Chosen(d)' = NoTeam
                    BY DEF FreshOf
                <5> QED BY <2>1, <4>1, FreshStep DEF Nothing
            <4>3. MissingOf(d)' /\ LastOf(d)'
                BY <2>1, <4>1, MissingStep, LastStep
            <4> QED BY <3>1, <4>2, <4>3
        <3>2. CASE x # d
            <4>1. SameAt(x) /\ dropped \subseteq dropped'
                BY <2>1, <3>2, OnlyDevice, TeamsGrow
            <4>2. AccountOf[x] \in Account /\ AccountOf[x] # AccountOf[d]
                BY <3>2, AccountAssumption DEF OneDevice
            <4>3. users'[AccountOf[x]] = users[AccountOf[x]]
                  /\ choice'[AccountOf[x]] = choice[AccountOf[x]]
                BY <2>1, <4>2, OnlyAccount
            <4> QED BY <1>1, <4>1, <4>3, ChoiceSame
        <3> QED BY <3>1, <3>2
    <2>3. ASSUME NEW a \in Account, NoDevice(a) PROVE choice'[a] = NoTeam
        <3>1. a # AccountOf[d]
            BY <2>3 DEF NoDevice
        <3> QED BY <1>1, <2>1, <2>3, <3>1, OnlyAccount
    <2> QED BY <2>2, <2>3 DEF ChoiceInv, NoDevice
<1> QED BY <1>2, <1>3

\* The team a player chose last is the team of the record once no write to
\* it is left, whatever the answers, lost connections and sign-ins between.
\* It takes a device of one's own: two that write the same record come in the
\* order of the server, which neither of them knows.
THEOREM ChoiceKeptCorrect ==
    ASSUME OneDevice
    PROVE  Spec => []ChoiceKept
<1>1. Init => ChoiceInv
    <2> SUFFICES ASSUME Init PROVE ChoiceInv
        OBVIOUS
    <2>1. ASSUME NEW d \in Device PROVE FreshOf(d) /\ MissingOf(d) /\ LastOf(d)
        <3>1. /\ puts[d] = <<>> /\ unheard[d] = 0 /\ mainq[d] = <<>> /\ seen[d] = NoRecord
              /\ screen[d] = "off" /\ ~user[d] /\ reads[d] = [r \in Reader |-> Idle]
              /\ Chosen(d) = NoTeam
            BY AccountAssumption DEF Init, Chosen
        <3>2. FreshOf(d) /\ MissingOf(d)
            BY <3>1 DEF FreshOf, MissingOf, Reader
        <3>3. LastOf(d)
            BY <3>1, HeardOfNone, EmptySeq, DistinctAssumption DEF LastOf
        <3> QED BY <3>2, <3>3
    <2>2. \A a \in Account : choice[a] = NoTeam
        BY DEF Init
    <2> QED BY <2>1, <2>2 DEF ChoiceInv
<1>2. TypeInv /\ ChoiceInv => ChoiceKept
    <2> SUFFICES ASSUME TypeInv, ChoiceInv, NEW a \in Account, a \notin dropped,
                        choice[a] \in Team, ~Pending(a)
                 PROVE  users[a] = choice[a]
        BY DEF ChoiceKept
    <2>1. PICK d \in Device : AccountOf[d] = a
        BY DistinctAssumption DEF ChoiceInv, NoDevice
    <2>2. OwnPuts(puts[d]) = {} /\ puts[d] \in Seq(Put)
        BY <2>1 DEF Pending, TypeInv, TypeOK
    <2>3. View(puts[d], Mine(d)) = choice[a]
        BY <2>1 DEF ChoiceInv, LastOf, Lost, Chosen
    <2> QED BY <2>1, <2>2, <2>3, ViewIs DEF Mine
<1>3. TypeInv /\ ChoiceInv /\ [Next]_vars => ChoiceInv'
    BY ChoiceStep
<1> QED BY TypeInvInit, TypeInvStep, <1>1, <1>2, <1>3, PTL DEF Spec
=============================================================================
