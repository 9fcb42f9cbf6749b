---------------------------- MODULE TeamFeedProofs ----------------------------
(***************************************************************************)
(* Proofs about TeamFeed, for any number of devices, posts and faults, any *)
(* errors of the clocks and any draws of the random parts.                 *)
(***************************************************************************)
EXTENDS TeamFeed, TLAPS, FiniteSetTheorems, WellFoundedInduction,
        SequenceTheorems

-----------------------------------------------------------------------------
(* Requests and messages.                                                  *)

\* Those that carry posts of a set only.
PutsOf(S)     == {Found} \cup {PutPost(m) : m \in S}
RequestsOf(S) == PutsOf(S) \cup {Listen}
Ack           == [kind |-> "ack"]
MessagesOf(S) == {Ack} \cup [kind : {"init", "feed"}, feed : SUBSET S]
                       \cup [kind : {"add"}, post : S]

Put     == PutsOf(Post)
Request == RequestsOf(Post)
Message == MessagesOf(Post)

LEMMA PutCases ==
    ASSUME NEW r \in Put
    PROVE  /\ r # Listen
           /\ r.kind = "found" <=> r = Found
           /\ r.kind = "post" <=> r # Found
           /\ r # Found => r.post \in Post /\ r = PutPost(r.post)
           /\ IsPut(r)
    BY DEF Put, PutsOf, Found, PutPost, Listen, IsPut

LEMMA MessageCases ==
    ASSUME NEW m \in Message
    PROVE  /\ m.kind \in {"init", "feed", "add", "ack"}
           /\ m.kind = "ack" <=> m = Ack
           /\ m.kind \in {"init", "feed"} => m.feed \in SUBSET Post
           /\ m.kind = "add" => m.post \in Post
    BY DEF Message, MessagesOf, Ack

LEMMA RequestIsPut == Request = Put \cup {Listen}
    BY DEF Request, RequestsOf, Put

LEMMA CarriedGrows ==
    ASSUME NEW S, NEW T, S \subseteq T
    PROVE  /\ PutsOf(S) \subseteq PutsOf(T) /\ RequestsOf(S) \subseteq RequestsOf(T)
           /\ MessagesOf(S) \subseteq MessagesOf(T)
           /\ Seq(PutsOf(S)) \subseteq Seq(PutsOf(T))
           /\ Seq(RequestsOf(S)) \subseteq Seq(RequestsOf(T))
           /\ Seq(MessagesOf(S)) \subseteq Seq(MessagesOf(T))
           /\ Seq(PutsOf(S)) \subseteq Seq(RequestsOf(S))
<1>1. /\ PutsOf(S) \subseteq PutsOf(T) /\ RequestsOf(S) \subseteq RequestsOf(T)
      /\ MessagesOf(S) \subseteq MessagesOf(T) /\ PutsOf(S) \subseteq RequestsOf(S)
    BY DEF PutsOf, RequestsOf, MessagesOf
<1> QED BY <1>1, SeqMonotonic

-----------------------------------------------------------------------------
(* The number of answers to puts among the messages of a channel.          *)

Counts(c, n, msgs) ==
    /\ c \in [0..Len(msgs) -> Nat]
    /\ c[0] = 0 /\ c[Len(msgs)] = n
    /\ \A i \in 1..Len(msgs) : c[i] = c[i - 1] + (IF msgs[i].kind = "ack" THEN 1 ELSE 0)
    /\ \A i, j \in 0..Len(msgs) : i <= j => c[i] <= c[j]
Answers(msgs, n) == \E c : Counts(c, n, msgs)

LEMMA AnswersEmpty == Answers(<<>>, 0)
<1>1. Len(<<>>) = 0
    OBVIOUS
<1>2. Counts([i \in 0..0 |-> 0], 0, <<>>)
    BY <1>1 DEF Counts
<1> QED BY <1>2 DEF Answers

LEMMA AnswersOfNone ==
    ASSUME NEW n, Answers(<<>>, n)
    PROVE  n = 0
<1>1. Len(<<>>) = 0
    OBVIOUS
<1> QED BY <1>1 DEF Answers, Counts

LEMMA AnswersAppend ==
    ASSUME NEW msgs \in Seq(Message), NEW m \in Message, NEW n \in Nat, Answers(msgs, n)
    PROVE  Answers(Append(msgs, m), IF m.kind = "ack" THEN n + 1 ELSE n)
<1>1. PICK c : Counts(c, n, msgs)
    BY DEF Answers
<1>2. PICK l \in Nat : l = Len(msgs)
    BY LenProperties
<1>3. PICK t : t = IF m.kind = "ack" THEN n + 1 ELSE n
    OBVIOUS
<1>4. t \in Nat /\ n <= t
    BY <1>3
<1>5. PICK q \in Seq(Message) : q = Append(msgs, m)
    BY AppendProperties
<1>6. Len(q) = l + 1 /\ q[l + 1] = m /\ \A i \in 1..l : q[i] = msgs[i]
    BY <1>2, <1>5, AppendProperties
<1> DEFINE b == [i \in 0..(l + 1) |-> IF i = l + 1 THEN t ELSE c[i]]
<1>7. /\ c \in [0..l -> Nat] /\ c[0] = 0 /\ c[l] = n
      /\ \A i \in 1..l : c[i] = c[i - 1] + (IF msgs[i].kind = "ack" THEN 1 ELSE 0)
      /\ \A i, j \in 0..l : i <= j => c[i] <= c[j]
    BY <1>1, <1>2 DEF Counts
<1>8. /\ b \in [0..(l + 1) -> Nat] /\ b[0] = 0 /\ b[l + 1] = t
      /\ \A i \in 0..l : b[i] = c[i]
    BY <1>4, <1>7
<1> HIDE DEF b
<1>9. \A i \in 1..(l + 1) : b[i] = b[i - 1] + (IF q[i].kind = "ack" THEN 1 ELSE 0)
    <2> SUFFICES ASSUME NEW i \in 1..(l + 1)
                 PROVE  b[i] = b[i - 1] + (IF q[i].kind = "ack" THEN 1 ELSE 0)
        OBVIOUS
    <2>1. CASE i = l + 1
        BY <1>3, <1>6, <1>7, <1>8, <2>1
    <2>2. CASE i \in 1..l
        <3>1. i \in 0..l /\ i - 1 \in 0..l
            BY <2>2
        <3>2. b[i] = c[i] /\ b[i - 1] = c[i - 1] /\ q[i] = msgs[i]
            BY <1>6, <1>8, <2>2, <3>1
        <3> QED BY <1>7, <2>2, <3>2
    <2> QED BY <2>1, <2>2
<1>10. \A i, j \in 0..(l + 1) : i <= j => b[i] <= b[j]
    <2> SUFFICES ASSUME NEW i \in 0..(l + 1), NEW j \in 0..(l + 1), i <= j
                 PROVE  b[i] <= b[j]
        OBVIOUS
    <2>1. CASE i \in 0..l /\ j \in 0..l
        BY <1>7, <1>8, <2>1
    <2>2. CASE i \in 0..l /\ j = l + 1
        BY <1>4, <1>7, <1>8, <2>2
    <2>3. CASE i = l + 1 /\ j = l + 1
        BY <1>8, <2>3
    <2> QED BY <2>1, <2>2, <2>3
<1>11. Counts(b, t, q)
    BY <1>6, <1>8, <1>9, <1>10 DEF Counts
<1> QED BY <1>3, <1>5, <1>11 DEF Answers

LEMMA AnswersTail ==
    ASSUME NEW msgs \in Seq(Message), msgs # <<>>, NEW n \in Nat, Answers(msgs, n)
    PROVE  /\ Head(msgs).kind # "ack" => Answers(Tail(msgs), n)
           /\ Head(msgs).kind = "ack" => n > 0 /\ Answers(Tail(msgs), n - 1)
<1>1. PICK c : Counts(c, n, msgs)
    BY DEF Answers
<1>2. PICK l \in Nat : Len(msgs) = l + 1
    <2>1. Len(msgs) \in Nat \ {0}
        BY EmptySeq
    <2>2. Len(msgs) - 1 \in Nat /\ Len(msgs) = (Len(msgs) - 1) + 1
        BY <2>1
    <2> QED BY <2>2
<1>3. PICK q \in Seq(Message) : q = Tail(msgs)
    BY HeadTailProperties
<1>4. Len(q) = l /\ \A i \in 1..l : q[i] = msgs[i + 1]
    BY <1>2, <1>3, HeadTailProperties
<1>5. Head(msgs) = msgs[1]
    OBVIOUS
<1>6. PICK u \in {0, 1} : u = IF Head(msgs).kind = "ack" THEN 1 ELSE 0
    OBVIOUS
<1>7. /\ c \in [0..(l + 1) -> Nat] /\ c[0] = 0 /\ c[l + 1] = n
      /\ \A i \in 1..(l + 1) : c[i] = c[i - 1] + (IF msgs[i].kind = "ack" THEN 1 ELSE 0)
      /\ \A i, j \in 0..(l + 1) : i <= j => c[i] <= c[j]
    BY <1>1, <1>2 DEF Counts
<1>8. c[1] = u
    BY <1>5, <1>6, <1>7
<1>9. \A i \in 0..l : c[i + 1] \in Nat /\ u <= c[i + 1]
    BY <1>7, <1>8
<1> DEFINE b == [i \in 0..l |-> c[i + 1] - u]
<1>10. /\ b \in [0..l -> Nat] /\ b[0] = 0 /\ b[l] = n - u
       /\ \A i \in 0..l : b[i] = c[i + 1] - u
    BY <1>7, <1>8, <1>9
<1> HIDE DEF b
<1>11. \A i \in 1..l : b[i] = b[i - 1] + (IF q[i].kind = "ack" THEN 1 ELSE 0)
    <2> SUFFICES ASSUME NEW i \in 1..l
                 PROVE  b[i] = b[i - 1] + (IF q[i].kind = "ack" THEN 1 ELSE 0)
        OBVIOUS
    <2>1. i + 1 \in 1..(l + 1) /\ (i + 1) - 1 = i /\ i - 1 \in 0..l /\ (i - 1) + 1 = i
        OBVIOUS
    <2>2. c[i + 1] = c[i] + (IF msgs[i + 1].kind = "ack" THEN 1 ELSE 0)
        BY <1>7, <2>1
    <2>3. b[i] = c[i + 1] - u /\ b[i - 1] = c[i] - u
        <3>1. b[i] = c[i + 1] - u
            BY <1>10
        <3>2. b[i - 1] = c[(i - 1) + 1] - u
            BY <1>10, <2>1
        <3> QED BY <2>1, <3>1, <3>2
    <2>4. PICK x \in Nat, y \in Nat : c[i] = x /\ c[i + 1] = y
        <3>1. i \in 0..(l + 1) /\ i + 1 \in 0..(l + 1)
            OBVIOUS
        <3>2. c[i] \in Nat /\ c[i + 1] \in Nat
            BY <1>7, <3>1
        <3> QED BY <3>2
    <2>5. PICK w \in {0, 1} : w = IF q[i].kind = "ack" THEN 1 ELSE 0
        <3>1. CASE q[i].kind = "ack"
            BY <3>1
        <3>2. CASE q[i].kind # "ack"
            BY <3>2
        <3> QED BY <3>1, <3>2
    <2>6. y = x + w
        <3>1. msgs[i + 1].kind = q[i].kind
            BY <1>4
        <3> QED BY <2>2, <2>4, <2>5, <3>1
    <2>7. y - u = (x - u) + w
        BY <2>6
    <2> QED BY <2>3, <2>4, <2>5, <2>7
<1>12. \A i, j \in 0..l : i <= j => b[i] <= b[j]
    <2> SUFFICES ASSUME NEW i \in 0..l, NEW j \in 0..l, i <= j PROVE b[i] <= b[j]
        OBVIOUS
    <2>1. PICK x \in Nat, y \in Nat : c[i + 1] = x /\ c[j + 1] = y
        BY <1>9
    <2>2. x <= y
        BY <1>7, <2>1
    <2>3. b[i] = x - u /\ b[j] = y - u
        BY <1>10, <2>1
    <2> QED BY <2>2, <2>3
<1>13. Counts(b, n - u, q)
    BY <1>4, <1>10, <1>11, <1>12 DEF Counts
<1>14. u <= n
    BY <1>7, <1>9
<1>15. Answers(q, n - u)
    BY <1>13 DEF Answers
<1> QED BY <1>3, <1>6, <1>14, <1>15

-----------------------------------------------------------------------------
(* What is sent and not yet served: the writes from the one after the a-th *)
(* on, in their order, and perhaps a listen between two of them.           *)

WithListen(msgs, qs, a, l) ==
    /\ Len(msgs) + a = Len(qs) + 1 /\ msgs[l] = Listen
    /\ \A i \in 1..(l - 1) : msgs[i] = qs[a + i]
    /\ \A i \in (l + 1)..Len(msgs) : msgs[i] = qs[a + i - 1]
InFlight(msgs, qs, a) ==
    \/ Len(msgs) + a = Len(qs) /\ \A i \in 1..Len(msgs) : msgs[i] = qs[a + i]
    \/ \E l \in 1..Len(msgs) : WithListen(msgs, qs, a, l)

LEMMA ListensIn ==
    ASSUME NEW msgs \in Seq(Request)
    PROVE  Listen \in Range(msgs) <=> \E i \in 1..Len(msgs) : msgs[i] = Listen
    BY LenProperties DEF Range

LEMMA InFlightNone ==
    ASSUME NEW qs \in Seq(Put), NEW a \in Nat, InFlight(<<>>, qs, a)
    PROVE  a = Len(qs)
<1>1. Len(<<>>) = 0
    OBVIOUS
<1> QED BY <1>1, LenProperties DEF InFlight

LEMMA InFlightPut ==
    ASSUME NEW msgs \in Seq(Request), NEW qs \in Seq(Put), NEW a \in 0..Len(qs),
           NEW r \in Put, InFlight(msgs, qs, a)
    PROVE  InFlight(Append(msgs, r), Append(qs, r), a)
<1>1. PICK k \in Nat, l \in Nat : k = Len(msgs) /\ l = Len(qs)
    BY LenProperties
<1>2. PICK ms \in Seq(Request) : ms = Append(msgs, r)
    BY AppendProperties, RequestIsPut
<1>3. PICK ps \in Seq(Put) : ps = Append(qs, r)
    BY AppendProperties
<1>4. Len(ms) = k + 1 /\ ms[k + 1] = r /\ \A i \in 1..k : ms[i] = msgs[i]
    BY <1>1, <1>2, AppendProperties, RequestIsPut
<1>5. Len(ps) = l + 1 /\ ps[l + 1] = r /\ \A i \in 1..l : ps[i] = qs[i]
    BY <1>1, <1>3, AppendProperties
<1>6. a \in 0..l
    BY <1>1
<1>7. CASE Len(msgs) + a = Len(qs) /\ \A i \in 1..Len(msgs) : msgs[i] = qs[a + i]
    <2>1. k + a = l /\ \A i \in 1..k : msgs[i] = qs[a + i]
        BY <1>1, <1>7
    <2>2. \A i \in 1..k : a + i \in 1..l
        BY <1>6, <2>1
    <2>3. \A i \in 1..(k + 1) : ms[i] = ps[a + i]
        <3> SUFFICES ASSUME NEW i \in 1..(k + 1) PROVE ms[i] = ps[a + i]
            OBVIOUS
        <3>1. CASE i = k + 1
            <4>1. a + i = l + 1
                BY <1>6, <2>1, <3>1
            <4> QED BY <1>4, <1>5, <3>1, <4>1
        <3>2. CASE i \in 1..k
            BY <1>4, <1>5, <2>1, <2>2, <3>2
        <3> QED BY <3>1, <3>2
    <2>4. InFlight(ms, ps, a)
        BY <1>4, <1>5, <2>1, <2>3 DEF InFlight
    <2> QED BY <1>2, <1>3, <2>4
<1>8. CASE \E j \in 1..Len(msgs) : WithListen(msgs, qs, a, j)
    <2>1. PICK j \in 1..k : WithListen(msgs, qs, a, j)
        BY <1>1, <1>8
    <2>2. /\ k + a = l + 1 /\ msgs[j] = Listen
          /\ \A i \in 1..(j - 1) : msgs[i] = qs[a + i]
          /\ \A i \in (j + 1)..k : msgs[i] = qs[a + i - 1]
        BY <1>1, <2>1 DEF WithListen
    <2>3. ms[j] = Listen
        BY <1>4, <2>2
    <2>4. ASSUME NEW i \in 1..(j - 1) PROVE ms[i] = ps[a + i]
        <3>1. i \in 1..k /\ a + i \in 1..l
            BY <1>6, <2>2
        <3> QED BY <1>4, <1>5, <2>2, <3>1
    <2>5. ASSUME NEW i \in (j + 1)..(k + 1) PROVE ms[i] = ps[a + i - 1]
        <3>1. CASE i = k + 1
            <4>1. a + i - 1 = l + 1
                BY <1>6, <2>2, <3>1
            <4> QED BY <1>4, <1>5, <3>1, <4>1
        <3>2. CASE i \in (j + 1)..k
            <4>1. i \in 1..k /\ a + i - 1 \in 1..l
                BY <1>6, <2>2, <3>2
            <4> QED BY <1>4, <1>5, <2>2, <3>2, <4>1
        <3> QED BY <3>1, <3>2
    <2>6. j \in 1..(k + 1) /\ (k + 1) + a = (l + 1) + 1
        BY <2>2
    <2>7. WithListen(ms, ps, a, j)
        BY <1>4, <1>5, <2>3, <2>4, <2>5, <2>6 DEF WithListen
    <2> QED BY <1>2, <1>3, <1>4, <2>6, <2>7 DEF InFlight
<1> QED BY <1>7, <1>8 DEF InFlight

LEMMA InFlightListen ==
    ASSUME NEW msgs \in Seq(Request), NEW qs \in Seq(Put), NEW a \in 0..Len(qs),
           Listen \notin Range(msgs), InFlight(msgs, qs, a)
    PROVE  InFlight(Append(msgs, Listen), qs, a)
<1>1. PICK k \in Nat, l \in Nat : k = Len(msgs) /\ l = Len(qs)
    BY LenProperties
<1>2. PICK ms \in Seq(Request) : ms = Append(msgs, Listen)
    BY AppendProperties, RequestIsPut
<1>3. Len(ms) = k + 1 /\ ms[k + 1] = Listen /\ \A i \in 1..k : ms[i] = msgs[i]
    BY <1>1, <1>2, AppendProperties, RequestIsPut
<1>4. k + a = l /\ \A i \in 1..k : msgs[i] = qs[a + i]
    BY <1>1, ListensIn DEF InFlight, WithListen
<1>5. k + 1 \in 1..(k + 1) /\ (k + 1) + a = l + 1 /\ (k + 1) - 1 = k
    BY <1>4
<1>6. WithListen(ms, qs, a, k + 1)
    BY <1>1, <1>3, <1>4, <1>5 DEF WithListen
<1> QED BY <1>2, <1>3, <1>5, <1>6 DEF InFlight

\* The server takes the request at the head of the channel.
LEMMA InFlightServe ==
    ASSUME NEW msgs \in Seq(Request), NEW qs \in Seq(Put), NEW a \in 0..Len(qs),
           msgs # <<>>, InFlight(msgs, qs, a)
    PROVE  /\ Head(msgs) = Listen => /\ InFlight(Tail(msgs), qs, a)
                                     /\ Listen \notin Range(Tail(msgs))
           /\ Head(msgs) # Listen => /\ a + 1 \in 1..Len(qs)
                                     /\ Head(msgs) = qs[a + 1]
                                     /\ InFlight(Tail(msgs), qs, a + 1)
<1>1. PICK k \in Nat, l \in Nat : k + 1 = Len(msgs) /\ l = Len(qs)
    <2>1. Len(msgs) \in Nat \ {0} /\ Len(qs) \in Nat
        BY EmptySeq, LenProperties
    <2>2. Len(msgs) - 1 \in Nat /\ (Len(msgs) - 1) + 1 = Len(msgs)
        BY <2>1
    <2> QED BY <2>1, <2>2
<1>2. PICK ms \in Seq(Request) : ms = Tail(msgs)
    BY HeadTailProperties
<1>3. Len(ms) = k /\ \A i \in 1..k : ms[i] = msgs[i + 1]
    BY <1>1, <1>2, HeadTailProperties
<1>4. Head(msgs) = msgs[1]
    OBVIOUS
<1>5. \A i \in 1..l : qs[i] \in Put
    BY <1>1, ElementOfSeq
<1>6. a \in 0..l
    BY <1>1
<1>7. CASE Len(msgs) + a = Len(qs) /\ \A i \in 1..Len(msgs) : msgs[i] = qs[a + i]
    <2>1. (k + 1) + a = l /\ \A i \in 1..(k + 1) : msgs[i] = qs[a + i]
        BY <1>1, <1>7
    <2>2. a + 1 \in 1..l /\ msgs[1] = qs[a + 1]
        BY <2>1
    <2>3. msgs[1] # Listen
        BY <1>5, <2>2, PutCases
    <2>4. k + (a + 1) = l
        BY <1>6, <2>1
    <2>5. \A i \in 1..k : ms[i] = qs[(a + 1) + i]
        <3> SUFFICES ASSUME NEW i \in 1..k PROVE ms[i] = qs[(a + 1) + i]
            OBVIOUS
        <3>1. i + 1 \in 1..(k + 1) /\ a + (i + 1) = (a + 1) + i
            BY <1>6
        <3> QED BY <1>3, <2>1, <3>1
    <2>6. InFlight(ms, qs, a + 1)
        BY <1>1, <1>3, <2>4, <2>5 DEF InFlight
    <2> QED BY <1>1, <1>2, <1>4, <2>2, <2>3, <2>6
<1>8. CASE \E j \in 1..Len(msgs) : WithListen(msgs, qs, a, j)
    <2>1. PICK j \in 1..(k + 1) : WithListen(msgs, qs, a, j)
        BY <1>1, <1>8
    <2>2. /\ (k + 1) + a = l + 1 /\ msgs[j] = Listen
          /\ \A i \in 1..(j - 1) : msgs[i] = qs[a + i]
          /\ \A i \in (j + 1)..(k + 1) : msgs[i] = qs[a + i - 1]
        BY <1>1, <2>1 DEF WithListen
    <2>3. CASE j = 1
        <3>1. k + a = l
            BY <1>6, <2>2
        <3>2. \A i \in 1..k : ms[i] = qs[a + i] /\ a + i \in 1..l
            <4> SUFFICES ASSUME NEW i \in 1..k
                         PROVE  ms[i] = qs[a + i] /\ a + i \in 1..l
                OBVIOUS
            <4>1. i + 1 \in (j + 1)..(k + 1) /\ a + (i + 1) - 1 = a + i /\ a + i \in 1..l
                BY <1>6, <2>3, <3>1
            <4> QED BY <1>3, <2>2, <4>1
        <3>3. InFlight(ms, qs, a)
            BY <1>1, <1>3, <3>1, <3>2 DEF InFlight
        <3>4. Listen \notin Range(ms)
            <4>1. \A i \in 1..k : ms[i] \in Put
                BY <1>5, <3>2
            <4> QED BY <1>3, <4>1, PutCases, ListensIn
        <3>5. Head(msgs) = Listen
            BY <1>4, <2>2, <2>3
        <3> QED BY <1>2, <3>3, <3>4, <3>5
    <2>4. CASE j # 1
        <3>1. PICK t \in 1..k : j = t + 1
            <4>1. j - 1 \in 1..k /\ j = (j - 1) + 1
                BY <2>4
            <4> QED BY <4>1
        <3>2. a + 1 \in 1..l /\ 1 \in 1..(j - 1)
            BY <1>6, <2>2, <3>1
        <3>3. msgs[1] = qs[a + 1] /\ msgs[1] # Listen
            BY <1>5, <2>2, <3>2, PutCases
        <3>4. k + (a + 1) = l + 1
            BY <1>6, <2>2
        <3>5. ms[t] = Listen
            BY <1>3, <2>2, <3>1
        <3>6. ASSUME NEW i \in 1..(t - 1) PROVE ms[i] = qs[(a + 1) + i]
            <4>1. i \in 1..k /\ i + 1 \in 1..(j - 1) /\ a + (i + 1) = (a + 1) + i
                BY <1>6, <3>1
            <4> QED BY <1>3, <2>2, <4>1
        <3>7. ASSUME NEW i \in (t + 1)..k PROVE ms[i] = qs[(a + 1) + i - 1]
            <4>1. /\ i \in 1..k /\ i + 1 \in (j + 1)..(k + 1)
                  /\ a + (i + 1) - 1 = (a + 1) + i - 1
                BY <1>6, <3>1
            <4> QED BY <1>3, <2>2, <4>1
        <3>8. WithListen(ms, qs, a + 1, t)
            BY <1>1, <1>3, <3>4, <3>5, <3>6, <3>7 DEF WithListen
        <3>9. InFlight(ms, qs, a + 1)
            BY <1>3, <3>8 DEF InFlight
        <3> QED BY <1>1, <1>2, <1>4, <3>2, <3>3, <3>9
    <2> QED BY <2>3, <2>4
<1> QED BY <1>7, <1>8 DEF InFlight

\* The oldest k writes are dealt with and forgotten.
LEMMA InFlightDrop ==
    ASSUME NEW msgs \in Seq(Request), NEW qs \in Seq(Put), NEW a \in 0..Len(qs),
           NEW k \in 0..a, NEW ps \in Seq(Put), Len(ps) + k = Len(qs),
           \A i \in 1..Len(ps) : ps[i] = qs[k + i],
           InFlight(msgs, qs, a)
    PROVE  InFlight(msgs, ps, a - k)
<1>1. PICK n \in Nat, l \in Nat, h \in Nat : n = Len(msgs) /\ l = Len(ps) /\ l + k = Len(qs) /\ h = a - k
    BY LenProperties
<1>2. CASE Len(msgs) + a = Len(qs) /\ \A i \in 1..Len(msgs) : msgs[i] = qs[a + i]
    <2>1. n + h = l
        BY <1>1, <1>2
    <2>2. ASSUME NEW i \in 1..n PROVE msgs[i] = ps[h + i]
        <3>1. h + i \in 1..l /\ k + (h + i) = a + i
            BY <1>1, <2>1
        <3> QED BY <1>1, <1>2, <3>1
    <2> QED BY <1>1, <2>1, <2>2 DEF InFlight
<1>3. CASE \E j \in 1..Len(msgs) : WithListen(msgs, qs, a, j)
    <2>1. PICK j \in 1..n : WithListen(msgs, qs, a, j)
        BY <1>1, <1>3
    <2>2. /\ n + a = (l + k) + 1 /\ msgs[j] = Listen
          /\ \A i \in 1..(j - 1) : msgs[i] = qs[a + i]
          /\ \A i \in (j + 1)..n : msgs[i] = qs[a + i - 1]
        BY <1>1, <2>1 DEF WithListen
    <2>3. n + h = l + 1
        BY <1>1, <2>2
    <2>4. ASSUME NEW i \in 1..(j - 1) PROVE msgs[i] = ps[h + i]
        <3>1. h + i \in 1..l /\ k + (h + i) = a + i
            BY <1>1, <2>3
        <3> QED BY <1>1, <2>2, <3>1
    <2>5. ASSUME NEW i \in (j + 1)..n PROVE msgs[i] = ps[h + i - 1]
        <3>1. h + i - 1 \in 1..l /\ k + (h + i - 1) = a + i - 1
            BY <1>1, <2>3
        <3> QED BY <1>1, <2>2, <3>1
    <2>6. WithListen(msgs, ps, h, j)
        BY <1>1, <2>2, <2>3, <2>4, <2>5 DEF WithListen
    <2> QED BY <1>1, <2>6 DEF InFlight
<1> QED BY <1>2, <1>3 DEF InFlight

\* A new connection sends what has no answer yet, after the listen if any.
LEMMA InFlightConnect ==
    ASSUME NEW qs \in Seq(Put), NEW a \in 0..Len(qs), NEW ps, ps = SubSeq(qs, a + 1, Len(qs))
    PROVE  /\ ps \in Seq(Put) /\ Len(ps) + a = Len(qs)
           /\ \A i \in 1..Len(ps) : ps[i] = qs[a + i]
           /\ InFlight(<<>> \o ps, qs, a) /\ InFlight(<<Listen>> \o ps, qs, a)
           /\ <<>> \o ps \in Seq(Request) /\ <<Listen>> \o ps \in Seq(Request)
           /\ Listen \in Range(<<Listen>> \o ps)
<1>1. PICK l \in Nat : l = Len(qs)
    BY LenProperties
<1>2. a \in 0..l /\ a + 1 \in Int /\ l \in Int
    BY <1>1
<1>3. \A i \in (a + 1)..l : qs[i] \in Put
    BY <1>1, ElementOfSeq
<1>4. /\ ps \in Seq(Put)
      /\ Len(ps) = IF a + 1 <= l THEN l - (a + 1) + 1 ELSE 0
      /\ \A i \in 1..(l - (a + 1) + 1) : ps[i] = qs[(a + 1) + i - 1]
    BY <1>1, <1>2, <1>3, SubSeqProperties
<1>5. PICK k \in Nat : k + a = l /\ k = Len(ps)
    BY <1>2, <1>4
<1>6. \A i \in 1..k : ps[i] = qs[a + i]
    <2> SUFFICES ASSUME NEW i \in 1..k PROVE ps[i] = qs[a + i]
        OBVIOUS
    <2>1. i \in 1..(l - (a + 1) + 1) /\ (a + 1) + i - 1 = a + i
        BY <1>2, <1>5
    <2> QED BY <1>4, <2>1
<1>7. <<>> \o ps = ps /\ ps \in Seq(Request)
    <2>1. <<>> \o ps = ps
        BY <1>4, ConcatEmptySeq
    <2> QED BY <1>4, <2>1, SeqMonotonic, RequestIsPut
<1>8. InFlight(<<>> \o ps, qs, a)
    BY <1>1, <1>5, <1>6, <1>7 DEF InFlight
<1>9. <<Listen>> \in Seq(Request) /\ Len(<<Listen>>) = 1 /\ <<Listen>>[1] = Listen
    BY RequestIsPut
<1>10. PICK ms \in Seq(Request) : ms = <<Listen>> \o ps
    BY <1>7, <1>9, ConcatProperties
<1>11. Len(ms) = k + 1 /\ ms[1] = Listen /\ \A i \in 2..(k + 1) : ms[i] = ps[i - 1]
    BY <1>5, <1>7, <1>9, <1>10, ConcatProperties
<1>12. WithListen(ms, qs, a, 1)
    <2>1. (k + 1) + a = l + 1
        <3> HIDE DEF Put
        <3>1. k \in Nat /\ a \in Nat /\ l \in Nat /\ k + a = l
            BY <1>2, <1>5
        <3> QED BY <3>1
    <2>2. ASSUME NEW i \in (1 + 1)..(k + 1) PROVE ms[i] = qs[a + i - 1]
        <3>1. i \in 2..(k + 1) /\ i - 1 \in 1..k /\ a + (i - 1) = a + i - 1
            BY <1>2
        <3> QED BY <1>6, <1>11, <3>1
    <2> QED BY <1>1, <1>11, <2>1, <2>2 DEF WithListen
<1>13. 1 \in 1..Len(ms)
    BY <1>11
<1>14. InFlight(ms, qs, a) /\ Listen \in Range(ms)
    BY <1>11, <1>12, <1>13, ListensIn DEF InFlight
<1> QED BY <1>1, <1>4, <1>5, <1>6, <1>7, <1>8, <1>10, <1>14

-----------------------------------------------------------------------------
(* The types, and what a step of one device does to the others.            *)

Types ==
    /\ now \in 0..MaxTime /\ skew \in [Device -> Skew] /\ era \in [Device -> Nat]
    /\ lastPush \in [Device -> PushId \cup {NoPush}]
    /\ founded \in BOOLEAN /\ made \in BOOLEAN /\ feed \in SUBSET Post
    /\ member \in [Device -> BOOLEAN] /\ opened \in [Device -> BOOLEAN]
    /\ online \in [Device -> BOOLEAN]
    /\ up \in [Device -> Seq(Request)] /\ down \in [Device -> Seq(Message)]
    /\ puts \in [Device -> Seq(Put)] /\ held \in [Device -> Nat]
    /\ cache \in [Device -> (SUBSET Post) \cup {Unknown}]
    /\ said \in SUBSET Post /\ answered \in SUBSET said /\ atRisk \in SUBSET said

Submits(d) == d = Founder /\ \E key \in PushIds(Founder) : SubmitNewTeam(key)
DeviceStep(d) == Step(d) \/ Submits(d)

LEMMA NextCases ==
    ASSUME [Next]_vars
    PROVE  (\E d \in Device : DeviceStep(d)) \/ Tick \/ UNCHANGED vars
    BY FeedAssumption DEF Next, DeviceStep, Submits

News(r)    == IF r = Found THEN [kind |-> "feed", feed |-> {}]
              ELSE [kind |-> "add", post |-> r.post]
Told(x, m) == IF Heard(x) THEN Append(down[x], m) ELSE down[x]

LEMMA NewsType ==
    ASSUME NEW r \in Put
    PROVE  /\ News(r) \in Message /\ News(r).kind \in {"feed", "add"}
           /\ News(r).kind = "feed" => News(r).feed = {}
           /\ News(r).kind = "add" => r # Found /\ News(r).post = r.post
<1>1. CASE r = Found
    BY <1>1 DEF News, Message, MessagesOf
<1>2. CASE r # Found
    <2>1. r.post \in Post
        BY <1>2, PutCases
    <2> QED BY <1>2, <2>1 DEF News, Message, MessagesOf
<1> QED BY <1>1, <1>2

LEMMA AckType == Ack \in Message /\ Ack.kind = "ack"
    BY DEF Ack, Message, MessagesOf

\* A put that is served is told to those who listen, then answered.
LEMMA ServedDown ==
    ASSUME Types, NEW d \in Device, ServePut(d)
    PROVE  /\ Head(up[d]) \in Put
           /\ \A x \in Device \ {d} : down'[x] = Told(x, News(Head(up[d])))
           /\ down'[d] = Append(Told(d, News(Head(up[d]))), Ack)
           /\ \A x \in Device : Told(x, News(Head(up[d]))) \in Seq(Message)
           /\ down' \in [Device -> Seq(Message)]
<1>1. PICK r : r = Head(up[d])
    OBVIOUS
<1>2. r \in Put
    <2>1. up[d] \in Seq(Request) /\ up[d] # <<>>
        BY DEF Types, ServePut
    <2>2. r \in Request /\ r # Listen
        BY <1>1, <2>1, HeadTailProperties DEF ServePut
    <2> QED BY <2>2, RequestIsPut
<1>3. PICK n \in Message : n = News(r)
    BY <1>2, NewsType
<1>4. PICK a \in Message : a = Ack
    BY AckType
<1>5. down' = [x \in Device |-> down[x] \o (IF Heard(x) THEN <<n>> ELSE <<>>)
                                        \o (IF x = d THEN <<a>> ELSE <<>>)]
    BY <1>1, <1>3, <1>4 DEF ServePut, News, Ack
<1>6. \A ms \in Seq(Message), m \in Message :
            ms \o <<m>> = Append(ms, m) /\ ms \o <<>> = ms /\ Append(ms, m) \in Seq(Message)
    BY AppendIsConcat, ConcatEmptySeq, AppendProperties
<1>7. \A x \in Device : down[x] \in Seq(Message)
    BY DEF Types
<1>8. \A x \in Device : /\ Told(x, n) \in Seq(Message)
                        /\ down[x] \o (IF Heard(x) THEN <<n>> ELSE <<>>) = Told(x, n)
    BY <1>6, <1>7 DEF Told
<1>9. \A x \in Device : down'[x] = Told(x, n) \o (IF x = d THEN <<a>> ELSE <<>>)
    BY <1>5, <1>8
<1>10. \A x \in Device \ {d} : down'[x] = Told(x, n)
    BY <1>6, <1>8, <1>9
<1>11. down'[d] = Append(Told(d, n), a)
    BY <1>6, <1>8, <1>9
<1>12. \A x \in Device : down'[x] \in Seq(Message)
    <2> SUFFICES ASSUME NEW x \in Device PROVE down'[x] \in Seq(Message)
        OBVIOUS
    <2>1. CASE x = d
        BY <1>6, <1>8, <1>11, <2>1
    <2>2. CASE x # d
        BY <1>8, <1>10, <2>2
    <2> QED BY <2>1, <2>2
<1>13. down' \in [Device -> Seq(Message)]
    <2>1. down' = [x \in Device |-> down'[x]]
        BY <1>5
    <2> QED BY <1>12, <2>1
<1> QED BY <1>1, <1>2, <1>3, <1>4, <1>8, <1>10, <1>11, <1>13

NewPost(d, key) == [key |-> key, author |-> d, nth |-> Cardinality(Mine(d)) + 1,
                    era |-> era[d]]

LEMMA AddsPost ==
    ASSUME NEW d \in Device, NEW key, AddMessage(d, key)
    PROVE  \E m : /\ m = NewPost(d, key) /\ m.key = key /\ m.author = d
                 /\ m.nth = Cardinality(Mine(d)) + 1 /\ m.era = era[d]
                 /\ said' = said \cup {m}
                 /\ puts' = [puts EXCEPT ![d] = Append(@, PutPost(m))]
                 /\ up' = IF online[d] THEN [up EXCEPT ![d] = Append(@, PutPost(m))] ELSE up
    BY DEF AddMessage, NewPost, SetValue

LEMMA AddsOnly ==
    ASSUME NEW d \in Device, NEW key, AddMessage(d, key)
    PROVE  /\ opened[d] /\ Cardinality(said) < MaxPosts /\ key \in PushIds(d)
           /\ lastPush' = [lastPush EXCEPT ![d] = key]
           /\ UNCHANGED <<now, skew, era, founded, feed, made, online, down, held, cache,
                          member, opened, faults, answered, atRisk>>
    BY DEF AddMessage, TakePushId, server, screen

\* Of the other devices a step touches only what they are told.
LEMMA OthersStay ==
    ASSUME Types, NEW d \in Device, DeviceStep(d), NEW x \in Device, x # d
    PROVE  /\ skew'[x] = skew[x] /\ lastPush'[x] = lastPush[x] /\ era'[x] = era[x]
           /\ member'[x] = member[x] /\ opened'[x] = opened[x] /\ online'[x] = online[x]
           /\ up'[x] = up[x] /\ puts'[x] = puts[x] /\ held'[x] = held[x]
           /\ cache'[x] = cache[x]
           /\ \/ down'[x] = down[x]
              \/ ServePut(d) /\ down'[x] = Told(x, News(Head(up[d])))
<1> USE DEF Types
<1>1. CASE Enter(d) \/ FetchMessages(d)
    BY <1>1 DEF Enter, FetchMessages, clock, wire, client
<1>2. CASE \E key \in PushIds(d) : AddMessage(d, key)
    <2>0. PICK key \in PushIds(d) : AddMessage(d, key)
        BY <1>2
    <2>1. PICK m : /\ puts' = [puts EXCEPT ![d] = Append(@, PutPost(m))]
                   /\ up' = IF online[d] THEN [up EXCEPT ![d] = Append(@, PutPost(m))] ELSE up
        BY <2>0, AddsPost
    <2>2. /\ lastPush' = [lastPush EXCEPT ![d] = key]
          /\ UNCHANGED <<skew, era, online, down, held, cache, member, opened>>
        BY <2>0, AddsOnly
    <2> QED BY <2>1, <2>2
<1>8. CASE Submits(d)
    BY <1>8 DEF SubmitNewTeam, Submits, TakePushId, SetValue, screen
<1>3. CASE Disconnect(d) \/ Kill(d)
    BY <1>3 DEF Disconnect, Kill, Drop, NewEra, clock, client, screen
<1>4. CASE Connect(d)
    BY <1>4 DEF Connect, Reestimate, NewEra, client, screen
<1>5. CASE RecvInit(d) \/ RecvData(d) \/ RecvAck(d)
    BY <1>5 DEF RecvInit, RecvData, RecvAck, Receive, clock, screen
<1>6. CASE ServeListen(d)
    BY <1>6 DEF ServeListen, clock, client, screen
<1>7. CASE ServePut(d)
    BY <1>7, ServedDown DEF ServePut, clock, client, screen
<1> QED BY <1>1, <1>2, <1>3, <1>4, <1>5, <1>6, <1>7, <1>8 DEF DeviceStep, Step, Background

\* Nothing that was posted or made is undone.
LEMMA SaidGrows ==
    ASSUME [Next]_vars
    PROVE  said \subseteq said' /\ (made => made')
<1>1. ASSUME NEW d \in Device, DeviceStep(d) PROVE said \subseteq said' /\ (made => made')
    <2>1. CASE \E key \in PushIds(d) : AddMessage(d, key)
        <3>1. \E m : said' = said \cup {m}
            BY <2>1, AddsPost
        <3> QED BY <2>1, <3>1 DEF AddMessage
    <2>2. CASE Submits(d)
        BY <2>2 DEF SubmitNewTeam, Submits, history
    <2>3. CASE Enter(d) \/ FetchMessages(d) \/ Disconnect(d) \/ Kill(d)
        BY <2>3 DEF Enter, FetchMessages, Disconnect, Kill, history
    <2>4. CASE Background(d)
        <3>1. CASE Connect(d) \/ RecvInit(d) \/ RecvData(d) \/ ServeListen(d)
            BY <3>1 DEF Connect, RecvInit, RecvData, ServeListen, history
        <3>2. CASE RecvAck(d)
            <4>1. UNCHANGED <<said, made>>
                BY <3>2 DEF RecvAck
            <4> QED BY <4>1
        <3>3. CASE ServePut(d)
            <4>1. UNCHANGED <<said, made>>
                BY <3>3 DEF ServePut
            <4> QED BY <4>1
        <3> QED BY <2>4, <3>1, <3>2, <3>3 DEF Background
    <2> QED BY <1>1, <2>1, <2>2, <2>3, <2>4 DEF DeviceStep, Step
<1>2. CASE Tick \/ UNCHANGED vars
    BY <1>2 DEF Tick, vars, history
<1> QED BY <1>1, <1>2, NextCases

LEMMA AreFunctions ==
    ASSUME Types, NEW d \in Device, DeviceStep(d)
    PROVE  /\ skew' = [x \in Device |-> skew'[x]] /\ era' = [x \in Device |-> era'[x]]
           /\ lastPush' = [x \in Device |-> lastPush'[x]]
           /\ member' = [x \in Device |-> member'[x]] /\ opened' = [x \in Device |-> opened'[x]]
           /\ online' = [x \in Device |-> online'[x]]
           /\ up' = [x \in Device |-> up'[x]] /\ down' = [x \in Device |-> down'[x]]
           /\ puts' = [x \in Device |-> puts'[x]] /\ held' = [x \in Device |-> held'[x]]
           /\ cache' = [x \in Device |-> cache'[x]]
<1> USE DEF Types
<1>1. CASE Enter(d) \/ FetchMessages(d)
    BY <1>1 DEF Enter, FetchMessages, clock, wire, client
<1>2. CASE \E key \in PushIds(d) : AddMessage(d, key)
    <2>0. PICK key \in PushIds(d) : AddMessage(d, key)
        BY <1>2
    <2>1. PICK m : /\ puts' = [puts EXCEPT ![d] = Append(@, PutPost(m))]
                   /\ up' = IF online[d] THEN [up EXCEPT ![d] = Append(@, PutPost(m))] ELSE up
        BY <2>0, AddsPost
    <2>2. /\ lastPush' = [lastPush EXCEPT ![d] = key]
          /\ UNCHANGED <<skew, era, online, down, held, cache, member, opened>>
        BY <2>0, AddsOnly
    <2>3. /\ puts' = [x \in Device |-> puts'[x]] /\ up' = [x \in Device |-> up'[x]]
          /\ lastPush' = [x \in Device |-> lastPush'[x]]
        BY <2>1, <2>2
    <2> QED BY <2>2, <2>3
<1>3. CASE Submits(d)
    <2>1. PICK key : SubmitNewTeam(key)
        BY <1>3 DEF Submits
    <2>2. /\ puts' = [puts EXCEPT ![Founder] = Append(@, Found)]
          /\ up' = IF online[Founder] THEN [up EXCEPT ![Founder] = Append(@, Found)] ELSE up
        BY <2>1 DEF SubmitNewTeam, SetValue
    <2>3. /\ lastPush' = [lastPush EXCEPT ![Founder] = key]
          /\ member' = [member EXCEPT ![Founder] = TRUE]
          /\ UNCHANGED <<skew, era, online, down, held, cache, opened>>
        BY <2>1 DEF SubmitNewTeam, TakePushId
    <2>4. puts' = [x \in Device |-> puts'[x]] /\ up' = [x \in Device |-> up'[x]]
        BY <2>2
    <2>5. lastPush' = [x \in Device |-> lastPush'[x]] /\ member' = [x \in Device |-> member'[x]]
        BY <2>3
    <2> QED BY <2>3, <2>4, <2>5
<1>4. CASE Disconnect(d) \/ Kill(d)
    BY <1>4 DEF Disconnect, Kill, Drop, NewEra, clock, client, screen
<1>5. CASE Connect(d)
    BY <1>5 DEF Connect, Reestimate, NewEra, client, screen
<1>6. CASE RecvInit(d) \/ RecvData(d) \/ RecvAck(d)
    BY <1>6 DEF RecvInit, RecvData, RecvAck, Receive, clock, screen
<1>7. CASE ServeListen(d)
    BY <1>7 DEF ServeListen, clock, client, screen
<1>8. CASE ServePut(d)
    BY <1>8, ServedDown DEF ServePut, clock, client, screen
<1> QED BY <1>1, <1>2, <1>3, <1>4, <1>5, <1>6, <1>7, <1>8 DEF DeviceStep, Step, Background

-----------------------------------------------------------------------------
(* All that is under way was posted.                                       *)

Posted ==
    /\ feed \in SUBSET said
    /\ \A d \in Device : /\ puts[d] \in Seq(PutsOf(Mine(d)))
                         /\ up[d] \in Seq(RequestsOf(said))
                         /\ down[d] \in Seq(MessagesOf(said))
                         /\ cache[d] \in (SUBSET said) \cup {Unknown}

LEMMA PutPostKind ==
    ASSUME NEW m
    PROVE  /\ PutPost(m).kind = "post" /\ PutPost(m).post = m
           /\ PutPost(m) # Found /\ PutPost(m) # Listen /\ Found # Listen
<1>1. PutPost(m).kind = "post" /\ PutPost(m).post = m
    BY DEF PutPost
<1>2. Found.kind = "found" /\ Listen.kind = "listen"
    BY DEF Found, Listen
<1> QED BY <1>1, <1>2

LEMMA RequestCases ==
    ASSUME NEW S, NEW r \in RequestsOf(S)
    PROVE  /\ r # Found /\ r # Listen => r.kind = "post" /\ r.post \in S /\ r = PutPost(r.post)
           /\ r.kind = "post" => r # Found /\ r # Listen
<1>1. Found.kind = "found" /\ Listen.kind = "listen"
    BY DEF Found, Listen
<1>2. r = Found \/ r = Listen \/ \E m \in S : r = PutPost(m)
    BY DEF RequestsOf, PutsOf
<1> QED BY <1>1, <1>2, PutPostKind

LEMMA MessageOfCases ==
    ASSUME NEW S, NEW m \in MessagesOf(S)
    PROVE  /\ m.kind \in {"init", "feed"} => m.feed \in SUBSET S
           /\ m.kind = "add" => m.post \in S
    BY DEF MessagesOf, Ack

LEMMA CarriedBy ==
    ASSUME NEW S
    PROVE  /\ Ack \in MessagesOf(S) /\ Found \in PutsOf(S) /\ Listen \in RequestsOf(S)
           /\ PutsOf(S) \subseteq RequestsOf(S) /\ Listen \notin PutsOf(S)
           /\ \A m \in S : PutPost(m) \in PutsOf(S)
           /\ \A f \in SUBSET S : [kind |-> "init", feed |-> f] \in MessagesOf(S)
<1>1. Ack \in MessagesOf(S) /\ \A f \in SUBSET S : [kind |-> "init", feed |-> f] \in MessagesOf(S)
    BY DEF MessagesOf
<1>2. Found \in PutsOf(S) /\ PutsOf(S) \subseteq RequestsOf(S)
    BY DEF RequestsOf, PutsOf
<1>3. Listen \in RequestsOf(S) /\ \A m \in S : PutPost(m) \in PutsOf(S)
    BY DEF RequestsOf, PutsOf
<1>4. Listen \notin PutsOf(S)
    BY PutPostKind DEF PutsOf
<1> QED BY <1>1, <1>2, <1>3, <1>4

\* The news of a put and what it makes of a feed.
LEMMA NewsCarried ==
    ASSUME NEW S, NEW r \in RequestsOf(S), r # Listen
    PROVE  /\ News(r) \in MessagesOf(S)
           /\ \A f \in SUBSET S : Apply(f, r) \in SUBSET S
<1>1. CASE r = Found
    BY <1>1 DEF News, Apply, Found, MessagesOf
<1>2. CASE r # Found
    <2>1. r.post \in S /\ r.kind = "post"
        BY <1>2, RequestCases
    <2> QED BY <1>2, <2>1 DEF News, Apply, With, MessagesOf
<1> QED BY <1>1, <1>2

LEMMA MineGrows ==
    ASSUME [Next]_vars, NEW d
    PROVE  Mine(d) \subseteq Mine(d)'
    BY SaidGrows DEF Mine

LEMMA PendingOfSeq ==
    ASSUME NEW S, NEW ps \in Seq(S), NEW k \in Nat
    PROVE  /\ SubSeq(ps, k + 1, Len(ps)) \in Seq(S)
           /\ k <= Len(ps) => Len(SubSeq(ps, k + 1, Len(ps))) + k = Len(ps)
           /\ \A i \in 1..Len(SubSeq(ps, k + 1, Len(ps))) :
                    SubSeq(ps, k + 1, Len(ps))[i] = ps[k + i]
<1>1. PICK l \in Nat : l = Len(ps)
    BY LenProperties
<1>2. \A i \in (k + 1)..l : ps[i] \in S
    BY <1>1, ElementOfSeq
<1>3. k + 1 \in Int /\ l \in Int
    OBVIOUS
<1>4. PICK q : q = SubSeq(ps, k + 1, l)
    OBVIOUS
<1>5. /\ q \in Seq(S)
      /\ Len(q) = IF k + 1 <= l THEN l - (k + 1) + 1 ELSE 0
      /\ \A i \in 1..(l - (k + 1) + 1) : q[i] = ps[(k + 1) + i - 1]
    BY <1>2, <1>3, <1>4, SubSeqProperties
<1>6. k <= l => Len(q) + k = l
    BY <1>5
<1>7. ASSUME NEW i \in 1..Len(q) PROVE q[i] = ps[k + i]
    <2>1. i \in 1..(l - (k + 1) + 1) /\ (k + 1) + i - 1 = k + i
        BY <1>5, <1>7
    <2> QED BY <1>5, <2>1
<1> QED BY <1>1, <1>4, <1>5, <1>6, <1>7
-----------------------------------------------------------------------------
(* The invariant behind the types: what a device that is not in the team   *)
(* has, how the two channels go with the pending writes, and that an added *)
(* message never comes before the feed it is added to.                     *)

Resting(d) ==
    /\ ~member[d] => /\ ~opened[d] /\ ~online[d] /\ puts[d] = <<>> /\ held[d] = 0
                     /\ cache[d] = Unknown /\ lastPush[d] = NoPush
    /\ ~online[d] => up[d] = <<>> /\ down[d] = <<>>
    /\ ~made => ~member[d]
NotYet == ~made => said = {} /\ feed = {} /\ ~founded

Whole(m) == m.kind \in {"init", "feed"}
AddsAfter(msgs, known) ==
    \A i \in 1..Len(msgs) : msgs[i].kind = "add" =>
        known \/ \E j \in 1..(i - 1) : Whole(msgs[j])
Knows(msgs, known) == known \/ \E j \in 1..Len(msgs) : Whole(msgs[j])

Adds(d)      == AddsAfter(down[d], cache[d] \in SUBSET said)
KnowsFeed(d) == Heard(d) => Knows(down[d], cache[d] \in SUBSET said)

\* Only the open tab listens.
Asked(d) == AwaitsListen(d) => opened[d]

\* The answers on their way are those of the oldest writes that are not held,
\* and what follows those is on its way up.
Fifo(d) ==
    \E n \in Nat : /\ Answers(down[d], n) /\ held[d] + n <= Len(puts[d])
                   /\ online[d] => InFlight(up[d], puts[d], held[d] + n)

\* An id is counted up once for each message at most.
Counted ==
    /\ IsFiniteSet(said)
    /\ \A m \in said : m.nth <= Cardinality(Mine(m.author))
    /\ \A d \in Device : lastPush[d] # NoPush => lastPush[d].inc <= Cardinality(said)

BaseInv ==
    /\ Types /\ Posted /\ NotYet /\ Counted
    /\ \A d \in Device : /\ Resting(d) /\ Asked(d) /\ Fifo(d)
                        /\ Adds(d) /\ KnowsFeed(d)

\* An answer is that of the write after those held.
LEMMA AckHasPut ==
    ASSUME Types, NEW d \in Device, Fifo(d), down[d] # <<>>, Head(down[d]).kind = "ack"
    PROVE  held[d] + 1 \in 1..Len(puts[d]) /\ puts[d] # <<>>
<1>1. PICK n \in Nat : Answers(down[d], n) /\ held[d] + n <= Len(puts[d])
    BY DEF Fifo
<1>2. n > 0
    BY <1>1, AnswersTail DEF Types
<1>3. held[d] \in Nat /\ Len(puts[d]) \in Nat
    BY LenProperties DEF Types
<1>4. held[d] + 1 \in 1..Len(puts[d])
    BY <1>1, <1>2, <1>3
<1>5. Len(<<>>) = 0
    OBVIOUS
<1> QED BY <1>4, <1>5

LEMMA AddHasFeed ==
    ASSUME Types, NEW d \in Device, Adds(d), down[d] # <<>>, Head(down[d]).kind = "add"
    PROVE  cache[d] \in SUBSET said
<1>1. Len(down[d]) \in Nat \ {0} /\ Head(down[d]) = down[d][1]
    BY EmptySeq DEF Types
<1>2. 1 \in 1..Len(down[d]) /\ ~ \E j \in 1..(1 - 1) : TRUE
    BY <1>1
<1> QED BY <1>1, <1>2 DEF Adds, AddsAfter

LEMMA PostedInit == Init => Posted
<1>1. \A S : <<>> \in Seq(S)
    BY EmptySeq
<1> QED BY <1>1 DEF Init, Posted

\* Of what a device has, what is left is still of things posted.
LEMMA PostedOf ==
    ASSUME Types, Posted, [Next]_vars, NEW x \in Device
    PROVE  /\ said \subseteq said' /\ Mine(x) \subseteq Mine(x)' /\ Mine(x)' \subseteq said'
           /\ puts[x] \in Seq(PutsOf(Mine(x)')) /\ puts[x] \in Seq(RequestsOf(said'))
           /\ up[x] \in Seq(RequestsOf(said')) /\ down[x] \in Seq(MessagesOf(said'))
           /\ cache[x] \in (SUBSET said') \cup {Unknown} /\ feed \in SUBSET said'
<1>1. said \subseteq said' /\ Mine(x) \subseteq Mine(x)' /\ Mine(x)' \subseteq said'
    BY SaidGrows, MineGrows DEF Mine
<1>2. puts[x] \in Seq(PutsOf(Mine(x)'))
    BY <1>1, CarriedGrows DEF Posted
<1>3. puts[x] \in Seq(RequestsOf(Mine(x)'))
    BY <1>2, CarriedGrows
<1>4. puts[x] \in Seq(RequestsOf(said'))
    BY <1>1, <1>3, CarriedGrows
<1>5. up[x] \in Seq(RequestsOf(said')) /\ down[x] \in Seq(MessagesOf(said'))
    BY <1>1, CarriedGrows DEF Posted
<1>6. cache[x] \in (SUBSET said') \cup {Unknown} /\ feed \in SUBSET said'
    BY <1>1 DEF Posted
<1> QED BY <1>1, <1>2, <1>4, <1>5, <1>6

LEMMA ToldCarried ==
    ASSUME NEW S, NEW x \in Device, down[x] \in Seq(MessagesOf(S)), NEW m \in MessagesOf(S)
    PROVE  Told(x, m) \in Seq(MessagesOf(S))
    BY AppendProperties DEF Told

LEMMA PostedStep ==
    ASSUME BaseInv, NEW d \in Device, DeviceStep(d), [Next]_vars
    PROVE  Posted'
<1>0. Types /\ Posted /\ Adds(d) /\ Fifo(d)
    BY DEF BaseInv
<1>1. PICK S, T, M : S = said /\ T = said' /\ M = Mine(d)'
    OBVIOUS
<1>2. /\ S \subseteq T /\ M \subseteq T /\ feed \in SUBSET T
      /\ puts[d] \in Seq(PutsOf(M)) /\ puts[d] \in Seq(RequestsOf(T))
      /\ up[d] \in Seq(RequestsOf(T)) /\ down[d] \in Seq(MessagesOf(T))
      /\ cache[d] \in (SUBSET T) \cup {Unknown}
    BY <1>1, PostedOf, <1>0
<1>3. <<>> \in Seq(PutsOf(M)) /\ <<>> \in Seq(RequestsOf(T)) /\ <<>> \in Seq(MessagesOf(T))
    BY EmptySeq
<1> DEFINE Own == /\ puts'[d] \in Seq(PutsOf(M)) /\ up'[d] \in Seq(RequestsOf(T))
                  /\ down'[d] \in Seq(MessagesOf(T)) /\ cache'[d] \in (SUBSET T) \cup {Unknown}
<1>4. ASSUME ServePut(d), NEW x \in Device
      PROVE  /\ Head(up[d]) \in RequestsOf(T) /\ Head(up[d]) # Listen
             /\ Told(x, News(Head(up[d]))) \in Seq(MessagesOf(T))
             /\ feed' \in SUBSET T
    <2>1. up[d] # <<>> /\ Head(up[d]) # Listen /\ feed' = Apply(feed, Head(up[d]))
        BY <1>4 DEF ServePut
    <2>2. Head(up[d]) \in RequestsOf(T)
        BY <1>2, <2>1, HeadTailProperties
    <2>3. News(Head(up[d])) \in MessagesOf(T) /\ Apply(feed, Head(up[d])) \in SUBSET T
        BY <1>2, <2>1, <2>2, NewsCarried
    <2>4. down[x] \in Seq(MessagesOf(T))
        BY <1>1, PostedOf, <1>0
    <2> QED BY <2>1, <2>2, <2>3, <2>4, ToldCarried
<1>5. ASSUME NEW x \in Device, x # d
      PROVE  /\ puts'[x] \in Seq(PutsOf(Mine(x)')) /\ up'[x] \in Seq(RequestsOf(T))
             /\ down'[x] \in Seq(MessagesOf(T)) /\ cache'[x] \in (SUBSET T) \cup {Unknown}
    <2>1. /\ puts'[x] = puts[x] /\ up'[x] = up[x] /\ cache'[x] = cache[x]
          /\ \/ down'[x] = down[x]
             \/ ServePut(d) /\ down'[x] = Told(x, News(Head(up[d])))
        BY <1>5, OthersStay, <1>0
    <2>2. down'[x] \in Seq(MessagesOf(T))
        BY <1>1, <1>4, <2>1, PostedOf, <1>0
    <2> QED BY <1>1, <2>1, <2>2, PostedOf, <1>0
<1> USE <1>0 DEF Types
<1>6. CASE Enter(d)
    <2>1. Own /\ feed' = feed
        BY <1>2, <1>6 DEF Enter, server, wire, client
    <2> QED BY <1>1, <1>2, <1>5, <2>1 DEF Posted
<1>7. CASE FetchMessages(d)
    <2>1. Append(up[d], Listen) \in Seq(RequestsOf(T))
        BY <1>2, CarriedBy, AppendProperties
    <2>2. Own /\ feed' = feed
        BY <1>2, <1>7, <2>1 DEF FetchMessages, server, client
    <2> QED BY <1>1, <1>2, <1>5, <2>2 DEF Posted
<1>8. CASE (\E key \in PushIds(d) : AddMessage(d, key)) \/ Submits(d)
    <2>1. PICK r \in PutsOf(M) :
             /\ puts' = [puts EXCEPT ![d] = Append(@, r)]
             /\ up' = IF online[d] THEN [up EXCEPT ![d] = Append(@, r)] ELSE up
             /\ UNCHANGED <<down, cache, feed>>
        <3>1. CASE Submits(d)
            BY <3>1, CarriedBy DEF Submits, SubmitNewTeam, SetValue, server
        <3>2. CASE \E key \in PushIds(d) : AddMessage(d, key)
            <4>1. PICK key \in PushIds(d) : AddMessage(d, key)
                BY <3>2
            <4>2. PICK m : /\ m.author = d /\ said' = said \cup {m}
                           /\ puts' = [puts EXCEPT ![d] = Append(@, PutPost(m))]
                           /\ up' = IF online[d] THEN [up EXCEPT ![d] = Append(@, PutPost(m))] ELSE up
                BY <4>1, AddsPost
            <4>3. m \in M
                BY <1>1, <4>2 DEF Mine
            <4>4. UNCHANGED <<down, cache, feed>>
                BY <4>1, AddsOnly
            <4> QED BY <4>2, <4>3, <4>4, CarriedBy
        <3> QED BY <1>8, <3>1, <3>2
    <2>2. r \in RequestsOf(T)
        BY <1>2, <2>1, CarriedBy, CarriedGrows
    <2>3. Append(puts[d], r) \in Seq(PutsOf(M)) /\ Append(up[d], r) \in Seq(RequestsOf(T))
        BY <1>2, <2>1, <2>2, AppendProperties
    <2>4. Own /\ feed' = feed
        <3>1. puts'[d] = Append(puts[d], r)
            BY <2>1
        <3>2. up'[d] \in {up[d], Append(up[d], r)}
            BY <2>1
        <3>3. down'[d] = down[d] /\ cache'[d] = cache[d] /\ feed' = feed
            BY <2>1
        <3> QED BY <1>2, <2>3, <3>1, <3>2, <3>3
    <2> QED BY <1>1, <1>2, <1>5, <2>4 DEF Posted
<1>9. CASE Disconnect(d) \/ Kill(d)
    <2>1. Own /\ feed' = feed
        BY <1>2, <1>3, <1>9 DEF Disconnect, Kill, Drop, server, client
    <2> QED BY <1>1, <1>2, <1>5, <2>1 DEF Posted
<1>10. CASE Connect(d)
    <2>1. held[d] \in Nat
        OBVIOUS
    <2>2. Pending(d) \in Seq(RequestsOf(T)) /\ <<Listen>> \in Seq(RequestsOf(T))
        <3>1. Pending(d) \in Seq(RequestsOf(T))
            BY <1>2, <2>1, PendingOfSeq DEF Pending
        <3> QED BY <3>1, CarriedBy
    <2>3. <<Listen>> \o Pending(d) \in Seq(RequestsOf(T)) /\ <<>> \o Pending(d) \in Seq(RequestsOf(T))
        BY <1>3, <2>2, ConcatProperties
    <2>4. Own /\ feed' = feed
        BY <1>2, <1>10, <2>3 DEF Connect, server, client
    <2> QED BY <1>1, <1>2, <1>5, <2>4 DEF Posted
<1>11. CASE RecvInit(d)
    <2>1. /\ down[d] # <<>> /\ Head(down[d]).kind = "init"
          /\ down' = [down EXCEPT ![d] = Tail(@)]
          /\ cache' = [cache EXCEPT ![d] = Head(down[d]).feed]
          /\ puts' = [puts EXCEPT ![d] = Pending(d)]
          /\ UNCHANGED <<up, feed>>
        BY <1>11 DEF RecvInit, Receive, server
    <2>2. Head(down[d]) \in MessagesOf(T) /\ Tail(down[d]) \in Seq(MessagesOf(T))
        BY <1>2, <2>1, HeadTailProperties
    <2>3. Head(down[d]).feed \in SUBSET T
        BY <2>1, <2>2, MessageOfCases
    <2>4. held[d] \in Nat
        OBVIOUS
    <2>5. Pending(d) \in Seq(PutsOf(M))
        BY <1>2, <2>4, PendingOfSeq DEF Pending
    <2>6. Own /\ feed' = feed
        BY <1>2, <2>1, <2>2, <2>3, <2>5
    <2> QED BY <1>1, <1>2, <1>5, <2>6 DEF Posted
<1>12. CASE RecvData(d)
    <2>1. /\ down[d] # <<>>
          /\ Head(down[d]).kind = "feed" \/ Head(down[d]).kind = "add"
          /\ down' = [down EXCEPT ![d] = Tail(@)]
          /\ cache' = [cache EXCEPT ![d] = IF Head(down[d]).kind = "feed" THEN Head(down[d]).feed
                                           ELSE With(@, Head(down[d]).post)]
          /\ UNCHANGED <<puts, up, feed>>
        BY <1>12 DEF RecvData, Receive, server
    <2>2. Head(down[d]) \in MessagesOf(T) /\ Tail(down[d]) \in Seq(MessagesOf(T))
        BY <1>2, <2>1, HeadTailProperties
    <2>3. /\ Head(down[d]).kind = "feed" => Head(down[d]).feed \in SUBSET T
          /\ Head(down[d]).kind = "add" => Head(down[d]).post \in T
        BY <2>2, MessageOfCases
    <2>4. Head(down[d]).kind = "add" => cache[d] \in SUBSET T
        BY <1>0, <1>1, <1>2, <2>1, AddHasFeed
    <2>5. Head(down[d]).kind = "add" => With(cache[d], Head(down[d]).post) \in SUBSET T
        BY <2>3, <2>4 DEF With
    <2>6. cache'[d] \in SUBSET T
        BY <2>1, <2>3, <2>5
    <2>7. Own /\ feed' = feed
        BY <1>2, <2>1, <2>2, <2>6
    <2> QED BY <1>1, <1>2, <1>5, <2>7 DEF Posted
<1>13. CASE RecvAck(d)
    <2>1. /\ down[d] # <<>>
          /\ down' = [down EXCEPT ![d] = Tail(@)]
          /\ puts' = puts \/ puts' = [puts EXCEPT ![d] = Tail(@)]
          /\ UNCHANGED <<up, cache, feed>>
        BY <1>13 DEF RecvAck, Receive, server
    <2>2. Tail(down[d]) \in Seq(MessagesOf(T))
        BY <1>2, <2>1, HeadTailProperties
    <2>3. puts[d] # <<>> => Tail(puts[d]) \in Seq(PutsOf(M))
        BY <1>2, HeadTailProperties
    <2>4. puts[d] # <<>>
        BY <1>0, <1>13, AckHasPut DEF RecvAck, Receive
    <2>5. Own /\ feed' = feed
        BY <1>2, <2>1, <2>2, <2>3, <2>4
    <2> QED BY <1>1, <1>2, <1>5, <2>5 DEF Posted
<1>14. CASE ServeListen(d)
    <2>1. /\ up[d] # <<>>
          /\ up' = [up EXCEPT ![d] = Tail(@)]
          /\ down' = [down EXCEPT ![d] = Append(@, [kind |-> "init", feed |-> feed])]
          /\ UNCHANGED <<puts, cache, feed>>
        BY <1>14 DEF ServeListen, server, client
    <2>2. [kind |-> "init", feed |-> feed] \in MessagesOf(T)
        BY <1>2, CarriedBy
    <2>3. Append(down[d], [kind |-> "init", feed |-> feed]) \in Seq(MessagesOf(T))
        BY <1>2, <2>2, AppendProperties
    <2>4. Tail(up[d]) \in Seq(RequestsOf(T))
        BY <1>2, <2>1, HeadTailProperties
    <2>5. Own /\ feed' = feed
        BY <1>2, <2>1, <2>3, <2>4
    <2> QED BY <1>1, <1>2, <1>5, <2>5 DEF Posted
<1>15. CASE ServePut(d)
    <2>1. /\ up[d] # <<>> /\ up' = [up EXCEPT ![d] = Tail(@)] /\ UNCHANGED <<puts, cache>>
        BY <1>15 DEF ServePut, client
    <2>2. down'[d] = Append(Told(d, News(Head(up[d]))), Ack)
        BY <1>15, ServedDown, <1>0
    <2>3. Ack \in MessagesOf(T) /\ Told(d, News(Head(up[d]))) \in Seq(MessagesOf(T))
        BY <1>4, <1>15, CarriedBy
    <2>4. down'[d] \in Seq(MessagesOf(T))
        BY <2>2, <2>3, AppendProperties
    <2>5. Tail(up[d]) \in Seq(RequestsOf(T))
        BY <1>2, <2>1, HeadTailProperties
    <2>6. Own /\ feed' \in SUBSET T
        BY <1>2, <1>4, <1>15, <2>1, <2>4, <2>5
    <2> QED BY <1>1, <1>5, <2>6 DEF Posted
<1> QED BY <1>6, <1>7, <1>8, <1>9, <1>10, <1>11, <1>12, <1>13, <1>14, <1>15
        DEF DeviceStep, Step, Background


LEMMA RestingStep ==
    ASSUME BaseInv, NEW d \in Device, DeviceStep(d), [Next]_vars
    PROVE  NotYet' /\ \A x \in Device : Resting(x)'
<1>1. Types /\ NotYet /\ Resting(d)
    BY DEF BaseInv
<1>2. up[d] # <<>> \/ down[d] # <<>> => online[d]
    BY <1>1 DEF Resting
<1>3. online[d] \/ opened[d] => member[d]
    BY <1>1 DEF Resting, Types
<1>4. member[d] => made
    BY <1>1 DEF Resting, Types
<1>5. made => made'
    BY SaidGrows
<1>6. ASSUME NEW x \in Device, x # d PROVE Resting(x)'
    <2>1. Resting(x)
        BY DEF BaseInv
    <2>2. /\ member'[x] = member[x] /\ opened'[x] = opened[x] /\ online'[x] = online[x]
          /\ puts'[x] = puts[x] /\ held'[x] = held[x] /\ cache'[x] = cache[x]
          /\ lastPush'[x] = lastPush[x] /\ up'[x] = up[x]
          /\ down'[x] = down[x] \/ Heard(x)
        BY <1>1, <1>6, OthersStay DEF Told
    <2>3. Heard(x) => online[x]
        BY DEF Heard
    <2> QED BY <1>1, <1>5, <2>1, <2>2, <2>3 DEF Resting, Types
<1> USE <1>1 DEF Types
<1>7. CASE Submits(d)
    <2>1. made' /\ member'[d] /\ UNCHANGED <<online, down>>
          /\ up' = IF online[d] THEN [up EXCEPT ![d] = Append(@, Found)] ELSE up
        BY <1>7 DEF Submits, SubmitNewTeam, SetValue
    <2>2. Resting(d)'
        BY <2>1 DEF Resting
    <2> QED BY <1>6, <2>1, <2>2 DEF NotYet
<1>8. CASE Enter(d)
    <2>1. made
        BY <1>8 DEF Enter, NotYet
    <2>2. /\ member'[d] /\ UNCHANGED <<up, down, online, made>>
        BY <1>8 DEF Enter, wire
    <2>3. Resting(d)'
        BY <2>1, <2>2 DEF Resting
    <2> QED BY <1>6, <2>1, <2>2, <2>3 DEF NotYet
<1>9. CASE FetchMessages(d)
    <2>1. /\ member[d] /\ UNCHANGED <<member, online, down, made>>
          /\ up' = IF online[d] THEN [up EXCEPT ![d] = Append(@, Listen)] ELSE up
        BY <1>9 DEF FetchMessages
    <2>2. Resting(d)'
        BY <1>4, <2>1 DEF Resting
    <2> QED BY <1>4, <1>6, <2>1, <2>2 DEF NotYet
<1>10. CASE \E key \in PushIds(d) : AddMessage(d, key)
    <2>1. PICK key \in PushIds(d) : AddMessage(d, key)
        BY <1>10
    <2>2. \E r : up' = IF online[d] THEN [up EXCEPT ![d] = Append(@, r)] ELSE up
        BY <2>1, AddsPost
    <2>3. opened[d] /\ UNCHANGED <<member, online, down, made>>
        BY <2>1, AddsOnly
    <2>4. Resting(d)'
        BY <1>3, <1>4, <2>2, <2>3 DEF Resting
    <2> QED BY <1>3, <1>4, <1>6, <2>3, <2>4 DEF NotYet
<1>11. CASE Disconnect(d)
    <2>1. Resting(d)'
        BY <1>11 DEF Disconnect, Drop, Resting, clock, client, screen
    <2>2. NotYet'
        BY <1>11 DEF Disconnect, server, history, NotYet
    <2> QED BY <1>6, <2>1, <2>2
<1>12. CASE Kill(d)
    <2>1. Resting(d)'
        BY <1>12 DEF Kill, Drop, Resting
    <2>2. NotYet'
        BY <1>12 DEF Kill, server, history, NotYet
    <2> QED BY <1>6, <2>1, <2>2
<1>13. CASE Connect(d)
    <2>1. member[d] /\ member' = member /\ online'[d] /\ made' = made
        BY <1>13 DEF Connect, screen
    <2>2. Resting(d)'
        BY <1>4, <2>1 DEF Resting
    <2> QED BY <1>4, <1>6, <2>1, <2>2 DEF NotYet
<1>14. CASE RecvInit(d) \/ RecvData(d) \/ RecvAck(d)
    <2>1. down[d] # <<>> /\ UNCHANGED <<member, online, made>>
        BY <1>14 DEF RecvInit, RecvData, RecvAck, Receive, screen
    <2>2. Resting(d)'
        BY <1>2, <1>3, <1>4, <2>1 DEF Resting
    <2> QED BY <1>2, <1>3, <1>4, <1>6, <2>1, <2>2 DEF NotYet
<1>15. CASE ServeListen(d) \/ ServePut(d)
    <2>1. up[d] # <<>> /\ UNCHANGED <<member, online, made>>
        BY <1>15 DEF ServeListen, ServePut, screen
    <2>2. Resting(d)'
        BY <1>2, <1>3, <1>4, <2>1 DEF Resting
    <2> QED BY <1>2, <1>3, <1>4, <1>6, <2>1, <2>2 DEF NotYet
<1> QED BY <1>7, <1>8, <1>9, <1>10, <1>11, <1>12, <1>13, <1>14, <1>15
        DEF DeviceStep, Step, Background

-----------------------------------------------------------------------------
(* Counting the posts.                                                     *)

LEMMA CountedInit == Init => Counted
<1>1. Cardinality({}) = 0 /\ IsFiniteSet({})
    BY FS_EmptySet
<1> QED BY <1>1 DEF Init, Counted

LEMMA MineFinite ==
    ASSUME Types, Counted, NEW d
    PROVE  /\ IsFiniteSet(Mine(d)) /\ Cardinality(Mine(d)) \in Nat
           /\ Cardinality(said) \in Nat /\ Cardinality(Mine(d)) <= Cardinality(said)
<1>1. IsFiniteSet(said) /\ Mine(d) \in SUBSET said
    BY DEF Counted, Mine
<1> QED BY <1>1, FS_Subset, FS_CardinalityType

\* A new post is one.
LEMMA NewPostType ==
    ASSUME Types, Counted, NEW d \in Device, NEW key \in PushId, NEW m, m = NewPost(d, key),
           Cardinality(said) < MaxPosts
    PROVE  m \in Post /\ m \notin said
<1>1. Cardinality(Mine(d)) \in Nat /\ Cardinality(Mine(d)) < MaxPosts
    <2>1. MaxPosts \in Nat
        BY FeedAssumption
    <2> QED BY <2>1, MineFinite
<1>2. Cardinality(Mine(d)) + 1 \in 1..MaxPosts
    BY <1>1, FeedAssumption
<1>3. era[d] \in Nat
    BY DEF Types
<1>4. m \in Post
    BY <1>2, <1>3 DEF NewPost, Post
<1>5. m.author = d /\ m.nth = Cardinality(Mine(d)) + 1
    BY DEF NewPost
<1>6. m \notin said
    <2> SUFFICES ASSUME m \in said PROVE FALSE
        OBVIOUS
    <2>1. m.nth <= Cardinality(Mine(m.author))
        BY DEF Counted
    <2> QED BY <1>1, <1>5, <2>1
<1> QED BY <1>4, <1>6

\* What childByAutoId may return.
LEMMA PushIdType ==
    ASSUME Types, Counted, NEW d \in Device, NEW key \in PushIds(d),
           Cardinality(said) < MaxPosts \/ lastPush[d] = NoPush
    PROVE  /\ key \in PushId /\ key.time = now + skew[d] /\ key # NoPush
           /\ key.inc <= Cardinality(said) + 1
           /\ \/ lastPush[d] # NoPush /\ lastPush[d].time = key.time
                 /\ key = [lastPush[d] EXCEPT !.inc = @ + 1] /\ key.draw = lastPush[d].draw
                 /\ key.inc = lastPush[d].inc + 1
              \/ /\ key.inc = 0
                 /\ ~ (lastPush[d] # NoPush /\ lastPush[d].time = key.time)
                 /\ \A m \in said : m.key.time = key.time => m.key.draw # key.draw
                 /\ \A x \in Device : lastPush[x].time = key.time => lastPush[x].draw # key.draw
<1>1. now + skew[d] \in Int
    <2>1. now \in 0..MaxTime /\ MaxTime \in Nat
        BY FeedAssumption DEF Types
    <2>2. now \in Int
        BY <2>1
    <2>3. skew[d] \in Skew
        BY DEF Types
    <2>4. skew[d] \in Int
        <3>1. Skew \subseteq Int
            BY FeedAssumption
        <3> QED BY <2>3, <3>1
    <2> QED BY <2>2, <2>4
<1>2. MaxPosts \in Nat /\ Draw \subseteq Nat \ {0} /\ Cardinality(said) \in Nat
    BY FeedAssumption, MineFinite
<1>3. lastPush[d] # NoPush => lastPush[d] \in PushId /\ lastPush[d].inc <= Cardinality(said)
    BY DEF Types, Counted
<1>4. CASE lastPush[d] # NoPush /\ lastPush[d].time = now + skew[d]
    <2>1. key = [lastPush[d] EXCEPT !.inc = @ + 1]
        BY <1>4 DEF PushIds
    <2>2. PICK p \in PushId : p = lastPush[d]
        BY <1>3, <1>4
    <2>3. p.time = now + skew[d] /\ p.draw \in Draw /\ p.inc \in Nat /\ p.inc + 1 <= MaxPosts
          /\ p.inc <= Cardinality(said)
        BY <1>2, <1>3, <1>4, <2>2 DEF PushId
    <2>4. key = [time |-> p.time, draw |-> p.draw, inc |-> p.inc + 1]
        BY <2>1, <2>2 DEF PushId
    <2>5. key \in PushId /\ key.draw # 0
        BY <1>1, <1>2, <2>3, <2>4 DEF PushId
    <2>6. key # NoPush
        BY <2>5 DEF NoPush
    <2> QED BY <1>2, <1>4, <2>1, <2>2, <2>3, <2>4, <2>5, <2>6
<1>5. CASE ~ (lastPush[d] # NoPush /\ lastPush[d].time = now + skew[d])
    <2>1. key \in Fresh(now + skew[d])
        BY <1>5 DEF PushIds
    <2>2. PICK r \in Draw : /\ key = [time |-> now + skew[d], draw |-> r, inc |-> 0]
                            /\ r \notin {m.key.draw : m \in {x \in said : x.key.time = now + skew[d]}}
                            /\ r \notin {lastPush[x].draw :
                                            x \in {y \in Device : lastPush[y].time = now + skew[d]}}
        BY <2>1 DEF Fresh
    <2>3. key \in PushId /\ key.draw # 0
        BY <1>1, <1>2, <2>2 DEF PushId
    <2>4. key # NoPush
        BY <2>3 DEF NoPush
    <2> QED BY <1>2, <1>5, <2>2, <2>3, <2>4
<1> QED BY <1>4, <1>5

\* A post made is a new one of its author.
LEMMA AddsCount ==
    ASSUME Types, Counted, NEW d \in Device, NEW key \in PushIds(d), AddMessage(d, key)
    PROVE  \E m \in Post :
             /\ m = NewPost(d, key) /\ m.key = key /\ m.author = d
             /\ m.nth = Cardinality(Mine(d)) + 1 /\ m.era = era[d]
             /\ m \notin said /\ said' = said \cup {m}
             /\ IsFiniteSet(said') /\ Cardinality(said') = Cardinality(said) + 1
             /\ Mine(d)' = Mine(d) \cup {m} /\ Cardinality(Mine(d)') = Cardinality(Mine(d)) + 1
             /\ \A x : x # d => Mine(x)' = Mine(x)
<1>1. PICK m : /\ m = NewPost(d, key) /\ m.key = key /\ m.author = d
               /\ m.nth = Cardinality(Mine(d)) + 1 /\ m.era = era[d]
               /\ said' = said \cup {m}
    BY AddsPost
<1>2. Cardinality(said) < MaxPosts
    BY AddsOnly
<1>3. key \in PushId
    BY <1>2, PushIdType
<1>4. m \in Post /\ m \notin said
    BY <1>1, <1>2, <1>3, NewPostType
<1>5. IsFiniteSet(said') /\ Cardinality(said') = Cardinality(said) + 1
    BY <1>1, <1>4, FS_AddElement DEF Counted
<1>6. Mine(d)' = Mine(d) \cup {m} /\ m \notin Mine(d) /\ \A x : x # d => Mine(x)' = Mine(x)
    BY <1>1, <1>4 DEF Mine
<1>7. Cardinality(Mine(d)') = Cardinality(Mine(d)) + 1
    BY <1>6, MineFinite, FS_AddElement
<1> QED BY <1>1, <1>4, <1>5, <1>6, <1>7

LEMMA CountedStep ==
    ASSUME BaseInv, NEW d \in Device, DeviceStep(d), [Next]_vars
    PROVE  Counted'
<1>1. Types /\ Counted /\ NotYet /\ Resting(d)
    BY DEF BaseInv
<1>2. Cardinality(said) \in Nat
    BY <1>1, MineFinite
<1>3. CASE \E key \in PushIds(d) : AddMessage(d, key)
    <2>1. PICK key \in PushIds(d) : AddMessage(d, key)
        BY <1>3
    <2>2. PICK m \in Post :
             /\ m.author = d /\ m.nth = Cardinality(Mine(d)) + 1
             /\ m \notin said /\ said' = said \cup {m}
             /\ IsFiniteSet(said') /\ Cardinality(said') = Cardinality(said) + 1
             /\ Mine(d)' = Mine(d) \cup {m} /\ Cardinality(Mine(d)') = Cardinality(Mine(d)) + 1
             /\ \A x : x # d => Mine(x)' = Mine(x)
        BY <1>1, <2>1, AddsCount
    <2>3. /\ Cardinality(said) < MaxPosts /\ lastPush' = [lastPush EXCEPT ![d] = key]
        BY <2>1, AddsOnly
    <2>4. key.inc <= Cardinality(said) + 1
        BY <1>1, <2>3, PushIdType
    <2>5. ASSUME NEW x \in Device, lastPush'[x] # NoPush
          PROVE  lastPush'[x].inc <= Cardinality(said')
        <3>1. CASE x = d
            BY <1>1, <2>2, <2>3, <2>4, <3>1 DEF Types
        <3>2. CASE x # d
            <4>1. lastPush'[x] = lastPush[x]
                BY <1>1, <2>3, <3>2 DEF Types
            <4>2. lastPush[x].inc <= Cardinality(said)
                BY <1>1, <2>5, <4>1 DEF Counted
            <4>3. lastPush[x].inc \in Nat
                BY <1>1, <2>5, <4>1, FeedAssumption DEF Types, PushId
            <4> QED BY <1>2, <2>2, <4>1, <4>2, <4>3
        <3> QED BY <3>1, <3>2
    <2>6. ASSUME NEW a \in said' PROVE a.nth <= Cardinality(Mine(a.author)')
        <3>1. CASE a = m
            <4>1. Cardinality(Mine(a.author)') = a.nth
                BY <2>2, <3>1
            <4>2. a.nth \in Nat
                BY <1>1, <2>2, <3>1, MineFinite
            <4> QED BY <4>1, <4>2
        <3>2. CASE a \in said
            <4>1. PICK b : b = a.author
                OBVIOUS
            <4>2. a.nth <= Cardinality(Mine(b)) /\ Cardinality(Mine(b)) \in Nat
                BY <1>1, <3>2, <4>1, MineFinite DEF Counted
            <4>3. Cardinality(Mine(b)') \in {Cardinality(Mine(b)), Cardinality(Mine(b)) + 1}
                BY <2>2
            <4>4. a.nth \in Nat
                <5>1. a \in Post
                    BY <1>1, <3>2 DEF Types
                <5>2. a.nth \in 1..MaxPosts
                    BY <5>1 DEF Post
                <5> QED BY <5>2
            <4> QED BY <4>1, <4>2, <4>3, <4>4
        <3> QED BY <2>2, <3>1, <3>2
    <2> QED BY <2>2, <2>5, <2>6 DEF Counted, Mine
<1>4. CASE Submits(d)
    <2>1. PICK key \in PushIds(d) : /\ ~made /\ lastPush' = [lastPush EXCEPT ![d] = key]
                                    /\ said' = said
        BY <1>4 DEF Submits, SubmitNewTeam, TakePushId, history
    <2>2. lastPush[d] = NoPush
        BY <1>1, <2>1 DEF Resting
    <2>3. key.inc = 0
        BY <1>1, <2>1, <2>2, PushIdType
    <2>4. \A x \in Device : lastPush'[x] # NoPush => lastPush'[x].inc <= Cardinality(said)
        BY <1>1, <1>2, <2>1, <2>3 DEF Counted, Types
    <2> QED BY <1>1, <2>1, <2>4 DEF Counted, Mine
<1>5. CASE Kill(d)
    <2>1. said' = said /\ lastPush' = [lastPush EXCEPT ![d] = NoPush]
        BY <1>5 DEF Kill, history
    <2>2. \A x \in Device : lastPush'[x] # NoPush => lastPush'[x] = lastPush[x]
        BY <1>1, <2>1 DEF Types
    <2> QED BY <1>1, <2>1, <2>2 DEF Counted, Mine
<1>6. CASE Enter(d) \/ FetchMessages(d) \/ Disconnect(d) \/ Background(d)
    <2>1. said' = said /\ lastPush' = lastPush
        <3>1. CASE Enter(d) \/ FetchMessages(d) \/ Disconnect(d)
            BY <3>1 DEF Enter, FetchMessages, Disconnect, clock, history
        <3>2. CASE Connect(d) \/ RecvInit(d) \/ RecvData(d) \/ ServeListen(d)
            BY <3>2 DEF Connect, RecvInit, RecvData, ServeListen, clock, history
        <3>3. CASE RecvAck(d)
            <4>1. UNCHANGED <<said, clock>>
                BY <3>3 DEF RecvAck
            <4> QED BY <4>1 DEF clock
        <3>4. CASE ServePut(d)
            <4>1. UNCHANGED <<said, clock>>
                BY <3>4 DEF ServePut
            <4> QED BY <4>1 DEF clock
        <3> QED BY <1>6, <3>1, <3>2, <3>3, <3>4 DEF Background
    <2> QED BY <1>1, <2>1 DEF Counted, Mine
<1> QED BY <1>3, <1>4, <1>5, <1>6 DEF DeviceStep, Step

-----------------------------------------------------------------------------
(* The types.                                                              *)

LEMMA PostsInOne ==
    ASSUME NEW r \in Put
    PROVE  PostsIn(<<r>>) = IF r = Found THEN {} ELSE {r.post}
<1>1. Range(<<r>>) = {r}
    BY DEF Range
<1> QED BY <1>1, PutCases DEF PostsIn

\* What the answer at the head of the channel answers.
LEMMA AckAnswers ==
    ASSUME BaseInv, NEW d \in Device, RecvAck(d)
    PROVE  /\ puts[d][held[d] + 1] \in PutsOf(Mine(d)) /\ held[d] + 1 \in 1..Len(puts[d])
           /\ answered' = answered \cup IF puts[d][held[d] + 1] = Found THEN {}
                                        ELSE {puts[d][held[d] + 1].post}
           /\ puts[d][held[d] + 1] # Found => puts[d][held[d] + 1].post \in Mine(d)
<1>1. Types /\ Posted /\ Fifo(d)
    BY DEF BaseInv
<1>2. held[d] + 1 \in 1..Len(puts[d])
    BY <1>1, AckHasPut DEF RecvAck, Receive
<1>3. PICK r : r = puts[d][held[d] + 1]
    OBVIOUS
<1>4. r \in PutsOf(Mine(d))
    BY <1>1, <1>2, <1>3, ElementOfSeq DEF Posted
<1>5. Mine(d) \subseteq Post
    BY <1>1 DEF Types, Mine
<1>6. r \in Put /\ r \in RequestsOf(Mine(d)) /\ r # Listen
    BY <1>4, <1>5, CarriedGrows, CarriedBy DEF Put
<1>7. PostsIn(<<r>>) = IF r = Found THEN {} ELSE {r.post}
    BY <1>6, PostsInOne
<1>8. answered' = answered \cup PostsIn(<<r>>)
    BY <1>3 DEF RecvAck
<1>9. r # Found => r.post \in Mine(d)
    BY <1>6, RequestCases
<1> QED BY <1>2, <1>3, <1>4, <1>7, <1>8, <1>9

LEMMA ScalarStep ==
    ASSUME BaseInv, NEW d \in Device, DeviceStep(d), [Next]_vars
    PROVE  /\ now' = now /\ skew'[d] \in Skew /\ era'[d] \in Nat /\ held'[d] \in Nat
           /\ lastPush'[d] \in PushId \cup {NoPush}
           /\ founded' \in BOOLEAN /\ made' \in BOOLEAN
           /\ member'[d] \in BOOLEAN /\ opened'[d] \in BOOLEAN /\ online'[d] \in BOOLEAN
           /\ said' \in SUBSET Post /\ answered' \in SUBSET said' /\ atRisk' \in SUBSET said'
<1>1. Types /\ Posted /\ NotYet /\ Counted /\ Resting(d)
    BY DEF BaseInv
<1>2. now \in 0..MaxTime /\ 0 \in Skew
    BY <1>1, FeedAssumption DEF Types
<1> USE <1>1 DEF Types
<1>3. CASE \E key \in PushIds(d) : AddMessage(d, key)
    <2>1. PICK key \in PushIds(d) : AddMessage(d, key)
        BY <1>3
    <2>2. \E m \in Post : said' = said \cup {m}
        BY <2>1, AddsCount
    <2>3. /\ Cardinality(said) < MaxPosts /\ lastPush' = [lastPush EXCEPT ![d] = key]
          /\ UNCHANGED <<now, skew, era, founded, made, online, held, member, opened,
                         answered, atRisk>>
        BY <2>1, AddsOnly
    <2>4. key \in PushId
        BY <2>3, PushIdType
    <2> QED BY <2>2, <2>3, <2>4
<1>4. CASE Submits(d)
    <2>1. PICK key \in PushIds(d) : /\ ~made /\ made' = TRUE
                                    /\ lastPush' = [lastPush EXCEPT ![d] = key]
                                    /\ member' = [member EXCEPT ![d] = TRUE]
                                    /\ UNCHANGED <<now, skew, era, founded, online, held,
                                                   opened, said, answered, atRisk>>
        BY <1>4 DEF Submits, SubmitNewTeam, TakePushId, server, history
    <2>2. lastPush[d] = NoPush
        BY <2>1 DEF Resting
    <2>3. key \in PushId
        BY <2>1, <2>2, PushIdType
    <2> QED BY <2>1, <2>3
<1>5. CASE Enter(d) \/ FetchMessages(d) \/ Disconnect(d)
    BY <1>5 DEF Enter, FetchMessages, Disconnect, Drop, clock, server, wire, client, screen, history
<1>6. CASE Kill(d)
    BY <1>2, <1>6 DEF Kill, Drop, NewEra, server, history
<1>7. CASE Connect(d)
    <2>1. skew'[d] \in Skew
        BY <1>2, <1>7 DEF Connect, Reestimate
    <2>2. era'[d] \in Nat
        <3>1. era[d] \in Nat /\ era'[d] \in {era[d], era[d] + 1}
            BY <1>7 DEF Connect, NewEra
        <3> QED BY <3>1
    <2> QED BY <1>7, <2>1, <2>2 DEF Connect, server, client, screen, history
<1>8. CASE RecvInit(d) \/ RecvData(d)
    BY <1>8 DEF RecvInit, RecvData, clock, server, screen, history
<1>9. CASE RecvAck(d)
    <2>1. answered' \in SUBSET said
        <3>1. PICK r : /\ answered' = answered \cup (IF r = Found THEN {} ELSE {r.post})
                       /\ r # Found => r.post \in Mine(d)
            BY <1>9, AckAnswers
        <3>2. r # Found => r.post \in said
            BY <3>1 DEF Mine
        <3> QED BY <3>1, <3>2
    <2>2. held[d] \in Nat /\ held'[d] \in {held[d], held[d] + 1}
        BY <1>9 DEF RecvAck
    <2>3. UNCHANGED <<clock, server, made, online, screen, said, atRisk>>
        BY <1>9 DEF RecvAck
    <2> QED BY <2>1, <2>2, <2>3 DEF clock, server, screen
<1>10. CASE ServeListen(d)
    BY <1>10 DEF ServeListen, clock, server, client, screen, history
<1>11. CASE ServePut(d)
    <2>1. /\ up[d] # <<>> /\ Head(up[d]) # Listen
          /\ founded' = (founded \/ Head(up[d]) = Found)
          /\ atRisk' \in {atRisk, atRisk \cup {Head(up[d]).post}}
          /\ Head(up[d]).kind # "post" => atRisk' = atRisk
          /\ UNCHANGED <<clock, made, online, client, screen, said, answered>>
        BY <1>11 DEF ServePut
    <2>2. Head(up[d]) \in RequestsOf(said)
        BY <2>1, HeadTailProperties DEF Posted
    <2>3. PICK r \in RequestsOf(said) : r = Head(up[d])
        BY <2>2
    <2>4. r.kind = "post" => r.post \in said
        BY RequestCases
    <2>5. atRisk' \in SUBSET said
        BY <2>1, <2>3, <2>4
    <2> QED BY <2>1, <2>5 DEF clock, client, screen
<1> QED BY <1>3, <1>4, <1>5, <1>6, <1>7, <1>8, <1>9, <1>10, <1>11
        DEF DeviceStep, Step, Background

LEMMA TypesStep ==
    ASSUME BaseInv, NEW d \in Device, DeviceStep(d), [Next]_vars
    PROVE  Types'
<1>1. Types
    BY DEF BaseInv
<1>2. Posted'
    BY PostedStep
<1>3. /\ now' = now /\ skew'[d] \in Skew /\ era'[d] \in Nat /\ held'[d] \in Nat
      /\ lastPush'[d] \in PushId \cup {NoPush}
      /\ founded' \in BOOLEAN /\ made' \in BOOLEAN
      /\ member'[d] \in BOOLEAN /\ opened'[d] \in BOOLEAN /\ online'[d] \in BOOLEAN
      /\ said' \in SUBSET Post /\ answered' \in SUBSET said' /\ atRisk' \in SUBSET said'
    BY ScalarStep
<1>4. ASSUME NEW x \in Device
      PROVE  /\ skew'[x] \in Skew /\ era'[x] \in Nat /\ held'[x] \in Nat
             /\ lastPush'[x] \in PushId \cup {NoPush}
             /\ member'[x] \in BOOLEAN /\ opened'[x] \in BOOLEAN /\ online'[x] \in BOOLEAN
    <2>1. CASE x = d
        BY <1>3, <2>1
    <2>2. CASE x # d
        <3>1. /\ skew'[x] = skew[x] /\ lastPush'[x] = lastPush[x] /\ era'[x] = era[x]
              /\ member'[x] = member[x] /\ opened'[x] = opened[x] /\ online'[x] = online[x]
              /\ held'[x] = held[x]
            BY <1>1, <2>2, OthersStay
        <3> QED BY <1>1, <3>1 DEF Types
    <2> QED BY <2>1, <2>2
<1>5. ASSUME NEW x \in Device
      PROVE  /\ up'[x] \in Seq(Request) /\ down'[x] \in Seq(Message) /\ puts'[x] \in Seq(Put)
             /\ cache'[x] \in (SUBSET Post) \cup {Unknown}
    <2>1. Mine(x)' \subseteq Post
        BY <1>3 DEF Mine
    <2>2. puts'[x] \in Seq(Put)
        BY <1>2, <2>1, CarriedGrows DEF Posted, Put
    <2>3. up'[x] \in Seq(Request) /\ down'[x] \in Seq(Message)
        BY <1>2, <1>3, CarriedGrows DEF Posted, Request, Message
    <2>4. cache'[x] \in (SUBSET Post) \cup {Unknown}
        BY <1>2, <1>3 DEF Posted
    <2> QED BY <2>2, <2>3, <2>4
<1>6. feed' \in SUBSET Post
    BY <1>2, <1>3 DEF Posted
<1>7. /\ skew' = [x \in Device |-> skew'[x]] /\ era' = [x \in Device |-> era'[x]]
      /\ lastPush' = [x \in Device |-> lastPush'[x]]
      /\ member' = [x \in Device |-> member'[x]] /\ opened' = [x \in Device |-> opened'[x]]
      /\ online' = [x \in Device |-> online'[x]]
      /\ held' = [x \in Device |-> held'[x]]
    BY <1>1, AreFunctions
<1>8. /\ up' = [x \in Device |-> up'[x]] /\ down' = [x \in Device |-> down'[x]]
      /\ puts' = [x \in Device |-> puts'[x]] /\ cache' = [x \in Device |-> cache'[x]]
    BY <1>1, AreFunctions
<1>9. /\ skew' \in [Device -> Skew] /\ era' \in [Device -> Nat]
      /\ lastPush' \in [Device -> PushId \cup {NoPush}]
      /\ member' \in [Device -> BOOLEAN] /\ opened' \in [Device -> BOOLEAN]
      /\ online' \in [Device -> BOOLEAN] /\ held' \in [Device -> Nat]
    BY <1>4, <1>7
<1>10. /\ up' \in [Device -> Seq(Request)] /\ down' \in [Device -> Seq(Message)]
       /\ puts' \in [Device -> Seq(Put)] /\ cache' \in [Device -> (SUBSET Post) \cup {Unknown}]
    BY <1>5, <1>8
<1> QED BY <1>1, <1>3, <1>6, <1>9, <1>10 DEF Types

-----------------------------------------------------------------------------
(* What listens, what is told, and the answers.                            *)

LEMMA RangeAppend ==
    ASSUME NEW S, NEW ms \in Seq(S), NEW m \in S
    PROVE  Range(Append(ms, m)) = Range(ms) \cup {m}
<1>1. PICK k \in Nat : k = Len(ms)
    BY LenProperties
<1>2. PICK q \in Seq(S) : q = Append(ms, m)
    BY AppendProperties
<1>3. Len(q) = k + 1 /\ q[k + 1] = m /\ \A i \in 1..k : q[i] = ms[i]
    BY <1>1, <1>2, AppendProperties
<1>4. DOMAIN q = 1..(k + 1) /\ DOMAIN ms = 1..k
    BY <1>1, <1>3, LenProperties
<1> QED BY <1>2, <1>3, <1>4 DEF Range

LEMMA RangeTail ==
    ASSUME NEW S, NEW ms \in Seq(S), ms # <<>>
    PROVE  Range(ms) = {Head(ms)} \cup Range(Tail(ms))
<1>1. PICK k \in Nat : Len(ms) = k + 1
    <2>1. Len(ms) \in Nat \ {0}
        BY EmptySeq
    <2>2. Len(ms) - 1 \in Nat /\ Len(ms) = (Len(ms) - 1) + 1
        BY <2>1
    <2> QED BY <2>2
<1>2. PICK q \in Seq(S) : q = Tail(ms)
    BY HeadTailProperties
<1>3. Len(q) = k /\ \A i \in 1..k : q[i] = ms[i + 1]
    BY <1>1, <1>2, HeadTailProperties
<1>4. DOMAIN q = 1..k /\ DOMAIN ms = 1..(k + 1) /\ Head(ms) = ms[1]
    BY <1>1, <1>3, LenProperties
<1>5. \A i \in 1..k : i + 1 \in 1..(k + 1)
    OBVIOUS
<1>6. \A i \in 1..(k + 1) : i = 1 \/ \E j \in 1..k : i = j + 1
    <2> SUFFICES ASSUME NEW i \in 1..(k + 1), i # 1 PROVE \E j \in 1..k : i = j + 1
        OBVIOUS
    <2>1. i - 1 \in 1..k /\ i = (i - 1) + 1
        OBVIOUS
    <2> QED BY <2>1
<1>7. Range(ms) \subseteq {Head(ms)} \cup Range(q)
    <2> SUFFICES ASSUME NEW i \in 1..(k + 1)
                 PROVE  ms[i] \in {Head(ms)} \cup Range(q)
        BY <1>4 DEF Range
    <2>1. CASE i = 1
        BY <1>4, <2>1
    <2>2. CASE \E j \in 1..k : i = j + 1
        <3>1. PICK j \in 1..k : i = j + 1
            BY <2>2
        <3>2. q[j] = ms[i] /\ q[j] \in Range(q)
            BY <1>3, <1>4, <3>1 DEF Range
        <3> QED BY <3>2
    <2> QED BY <1>6, <2>1, <2>2
<1>8. {Head(ms)} \cup Range(q) \subseteq Range(ms)
    BY <1>3, <1>4, <1>5 DEF Range
<1> QED BY <1>2, <1>7, <1>8

LEMMA RangeEmpty == Range(<<>>) = {}
<1>1. PICK q \in Seq({}) : q = <<>>
    BY EmptySeq
<1>2. Len(q) = 0
    BY <1>1, EmptySeq
<1>3. DOMAIN q = 1..0
    BY <1>2, LenProperties
<1> QED BY <1>1, <1>3 DEF Range

LEMMA KnowsAppend ==
    ASSUME NEW S, NEW msgs \in Seq(S), NEW m \in S, NEW known, Knows(msgs, known) \/ Whole(m)
    PROVE  Knows(Append(msgs, m), known)
<1>1. PICK k \in Nat : k = Len(msgs)
    BY LenProperties
<1>2. PICK q \in Seq(S) : q = Append(msgs, m)
    BY AppendProperties
<1>3. Len(q) = k + 1 /\ q[k + 1] = m /\ \A i \in 1..k : q[i] = msgs[i]
    BY <1>1, <1>2, AppendProperties
<1>4. k + 1 \in 1..(k + 1) /\ \A i \in 1..k : i \in 1..(k + 1)
    OBVIOUS
<1> QED BY <1>1, <1>2, <1>3, <1>4 DEF Knows

LEMMA KnowsTail ==
    ASSUME NEW S, NEW msgs \in Seq(S), msgs # <<>>, NEW known, NEW later,
           Knows(msgs, known), known => later, Whole(Head(msgs)) => later
    PROVE  Knows(Tail(msgs), later)
<1>1. PICK k \in Nat : Len(msgs) = k + 1
    <2>1. Len(msgs) \in Nat \ {0}
        BY EmptySeq
    <2>2. Len(msgs) - 1 \in Nat /\ Len(msgs) = (Len(msgs) - 1) + 1
        BY <2>1
    <2> QED BY <2>2
<1>2. PICK q \in Seq(S) : q = Tail(msgs)
    BY HeadTailProperties
<1>3. Len(q) = k /\ (\A i \in 1..k : q[i] = msgs[i + 1]) /\ Head(msgs) = msgs[1]
    BY <1>1, <1>2, HeadTailProperties
<1>4. CASE known
    BY <1>2, <1>4 DEF Knows
<1>5. CASE \E j \in 1..(k + 1) : Whole(msgs[j])
    <2>1. PICK j \in 1..(k + 1) : Whole(msgs[j])
        BY <1>5
    <2>2. CASE j = 1
        BY <1>2, <1>3, <2>1, <2>2 DEF Knows
    <2>3. CASE j # 1
        <3>1. PICK i \in 1..k : j = i + 1
            <4>1. j - 1 \in 1..k /\ j = (j - 1) + 1
                BY <2>3
            <4> QED BY <4>1
        <3> QED BY <1>2, <1>3, <2>1, <3>1 DEF Knows
    <2> QED BY <2>2, <2>3
<1> QED BY <1>1, <1>4, <1>5 DEF Knows

LEMMA AddsAppend ==
    ASSUME NEW S, NEW msgs \in Seq(S), NEW m \in S, NEW known,
           AddsAfter(msgs, known), m.kind = "add" => Knows(msgs, known)
    PROVE  AddsAfter(Append(msgs, m), known)
<1>1. PICK k \in Nat : k = Len(msgs)
    BY LenProperties
<1>2. PICK q \in Seq(S) : q = Append(msgs, m)
    BY AppendProperties
<1>3. Len(q) = k + 1 /\ q[k + 1] = m /\ \A i \in 1..k : q[i] = msgs[i]
    BY <1>1, <1>2, AppendProperties
<1>4. ASSUME NEW i \in 1..(k + 1), q[i].kind = "add", ~known
      PROVE  \E j \in 1..(i - 1) : Whole(q[j])
    <2>1. CASE i = k + 1
        <3>1. PICK j \in 1..k : Whole(msgs[j])
            BY <1>1, <1>3, <1>4, <2>1 DEF Knows
        <3>2. j \in 1..(i - 1)
            BY <2>1
        <3> QED BY <1>3, <3>1, <3>2
    <2>2. CASE i \in 1..k
        <3>1. PICK j \in 1..(i - 1) : Whole(msgs[j])
            BY <1>1, <1>3, <1>4, <2>2 DEF AddsAfter
        <3>2. j \in 1..k
            BY <2>2
        <3> QED BY <1>3, <3>1, <3>2
    <2> QED BY <2>1, <2>2
<1>5. AddsAfter(q, known)
    BY <1>3, <1>4 DEF AddsAfter
<1> QED BY <1>2, <1>5

LEMMA AddsTail ==
    ASSUME NEW S, NEW msgs \in Seq(S), msgs # <<>>, NEW known, NEW later,
           AddsAfter(msgs, known), known => later, Whole(Head(msgs)) => later
    PROVE  AddsAfter(Tail(msgs), later)
<1>1. PICK k \in Nat : Len(msgs) = k + 1
    <2>1. Len(msgs) \in Nat \ {0}
        BY EmptySeq
    <2>2. Len(msgs) - 1 \in Nat /\ Len(msgs) = (Len(msgs) - 1) + 1
        BY <2>1
    <2> QED BY <2>2
<1>2. PICK q \in Seq(S) : q = Tail(msgs)
    BY HeadTailProperties
<1>3. Len(q) = k /\ (\A i \in 1..k : q[i] = msgs[i + 1]) /\ Head(msgs) = msgs[1]
    BY <1>1, <1>2, HeadTailProperties
<1>4. ASSUME NEW i \in 1..k, q[i].kind = "add", ~later
      PROVE  \E j \in 1..(i - 1) : Whole(q[j])
    <2>1. i + 1 \in 1..(k + 1) /\ msgs[i + 1].kind = "add" /\ ~known
        BY <1>3, <1>4
    <2>2. PICK j \in 1..i : Whole(msgs[j])
        <3>1. \E j \in 1..((i + 1) - 1) : Whole(msgs[j])
            BY <1>1, <2>1 DEF AddsAfter
        <3> QED BY <3>1
    <2>3. j # 1
        BY <1>3, <1>4, <2>2
    <2>4. PICK l \in 1..(i - 1) : j = l + 1
        <3>1. j - 1 \in 1..(i - 1) /\ j = (j - 1) + 1
            BY <2>3
        <3> QED BY <3>1
    <2>5. l \in 1..k
        OBVIOUS
    <2> QED BY <1>3, <2>2, <2>4, <2>5
<1>5. AddsAfter(q, later)
    BY <1>3, <1>4 DEF AddsAfter
<1> QED BY <1>2, <1>5

\* What a listener is told keeps the channel in order.
LEMMA ToldStep ==
    ASSUME BaseInv, NEW x \in Device, NEW r \in Put, NEW n \in Nat, Answers(down[x], n)
    PROVE  /\ Told(x, News(r)) \in Seq(Message)
           /\ Answers(Told(x, News(r)), n)
           /\ AddsAfter(Told(x, News(r)), cache[x] \in SUBSET said)
           /\ Heard(x) => Knows(Told(x, News(r)), cache[x] \in SUBSET said)
           /\ \A m \in Range(Told(x, News(r))) : m.kind = "init" => m \in Range(down[x])
<1>1. /\ Adds(x) /\ KnowsFeed(x)
      /\ down[x] \in Seq(Message)
    BY DEF BaseInv, Types
<1>2. PICK m \in Message : m = News(r) /\ m.kind \in {"feed", "add"}
    BY NewsType
<1>3. CASE Heard(x)
    <2>1. Told(x, m) = Append(down[x], m)
        BY <1>3 DEF Told
    <2>2. Knows(down[x], cache[x] \in SUBSET said)
        BY <1>1, <1>3 DEF KnowsFeed
    <2>3. /\ Append(down[x], m) \in Seq(Message)
          /\ Range(Append(down[x], m)) = Range(down[x]) \cup {m}
        BY <1>1, AppendProperties, RangeAppend
    <2>4. Answers(Append(down[x], m), n)
        <3>1. Answers(Append(down[x], m), IF m.kind = "ack" THEN n + 1 ELSE n)
            BY <1>1, AnswersAppend
        <3> QED BY <1>2, <3>1
    <2>5. AddsAfter(Append(down[x], m), cache[x] \in SUBSET said)
        BY <1>1, <2>2, AddsAppend DEF Adds
    <2>6. Knows(Append(down[x], m), cache[x] \in SUBSET said)
        BY <1>1, <2>2, KnowsAppend
    <2>7. m.kind # "init"
        BY <1>2
    <2> QED BY <1>2, <2>1, <2>3, <2>4, <2>5, <2>6, <2>7
<1>4. CASE ~Heard(x)
    <2>1. Told(x, m) = down[x]
        BY <1>4 DEF Told
    <2> QED BY <1>1, <1>2, <1>4, <2>1 DEF Adds
<1> QED BY <1>3, <1>4

LEMMA AddsGrows ==
    ASSUME NEW msgs, NEW known, NEW later, known => later
    PROVE  /\ AddsAfter(msgs, known) => AddsAfter(msgs, later)
           /\ Knows(msgs, known) => Knows(msgs, later)
    BY DEF AddsAfter, Knows

\* The devices a step is not of.
LEMMA OthersChannels ==
    ASSUME BaseInv, NEW d \in Device, DeviceStep(d), [Next]_vars, NEW x \in Device, x # d
    PROVE  Asked(x)' /\ Fifo(x)' /\ Adds(x)' /\ KnowsFeed(x)'
<1>1. Types /\ Asked(x) /\ Fifo(x) /\ Adds(x) /\ KnowsFeed(x)
    BY DEF BaseInv
<1>2. /\ opened'[x] = opened[x] /\ online'[x] = online[x] /\ up'[x] = up[x]
      /\ puts'[x] = puts[x] /\ held'[x] = held[x] /\ cache'[x] = cache[x]
      /\ \/ down'[x] = down[x]
         \/ ServePut(d) /\ down'[x] = Told(x, News(Head(up[d])))
    BY <1>1, OthersStay
<1>3. PICK n \in Nat : /\ Answers(down[x], n) /\ held[x] + n <= Len(puts[x])
                       /\ online[x] => InFlight(up[x], puts[x], held[x] + n)
    BY <1>1 DEF Fifo
<1>4. (cache[x] \in SUBSET said) => (cache[x] \in SUBSET said')
    BY SaidGrows
<1>5. PICK q : q = down'[x]
    OBVIOUS
<1>6. /\ Answers(q, n)
      /\ AddsAfter(q, cache[x] \in SUBSET said)
      /\ Heard(x) => Knows(q, cache[x] \in SUBSET said)
      /\ \A m \in Range(q) : m.kind = "init" => m \in Range(down[x])
    <2>1. CASE q = down[x]
        BY <1>1, <1>3, <2>1 DEF Adds, KnowsFeed
    <2>2. CASE ServePut(d) /\ q = Told(x, News(Head(up[d])))
        <3>1. Head(up[d]) \in Put
            BY <1>1, <2>2, ServedDown
        <3> QED BY <1>3, <2>2, <3>1, ToldStep
    <2> QED BY <1>2, <1>5, <2>1, <2>2
<1>7. Asked(x)'
    <2>1. AwaitsListen(x)' => AwaitsListen(x)
        BY <1>2, <1>5, <1>6 DEF AwaitsListen
    <2> QED BY <1>1, <1>2, <2>1 DEF Asked
<1>8. Fifo(x)'
    BY <1>2, <1>3, <1>5, <1>6 DEF Fifo
<1>9. AddsAfter(q, cache[x] \in SUBSET said')
    BY <1>4, <1>6, AddsGrows
<1>10. Heard(x) => Knows(q, cache[x] \in SUBSET said')
    BY <1>4, <1>6, AddsGrows
<1>11. Heard(x)' = Heard(x)
    BY <1>2 DEF Heard
<1> QED BY <1>2, <1>5, <1>7, <1>8, <1>9, <1>10, <1>11 DEF Adds, KnowsFeed

\* What holds of a device's channels.
Channels(d) == Asked(d) /\ Fifo(d) /\ Adds(d) /\ KnowsFeed(d)

\* A write, of a post or of the team, goes after all there is.
LEMMA WriteChannels ==
    ASSUME BaseInv, NEW d \in Device, [Next]_vars, NEW r \in Put,
           puts' = [puts EXCEPT ![d] = Append(@, r)],
           up' = IF online[d] THEN [up EXCEPT ![d] = Append(@, r)] ELSE up,
           UNCHANGED <<down, held, cache, online, opened>>
    PROVE  Channels(d)'
<1>1. Types /\ Asked(d) /\ Fifo(d) /\ Adds(d) /\ KnowsFeed(d) /\ Resting(d)
    BY DEF BaseInv
<1>2. up[d] \in Seq(Request) /\ puts[d] \in Seq(Put) /\ held[d] \in Nat
    BY <1>1 DEF Types
<1>3. PICK n \in Nat : /\ Answers(down[d], n) /\ held[d] + n <= Len(puts[d])
                       /\ online[d] => InFlight(up[d], puts[d], held[d] + n)
    BY <1>1 DEF Fifo
<1>4. r \in Request /\ r # Listen
    BY RequestIsPut, PutCases
<1>5. puts'[d] = Append(puts[d], r) /\ Len(puts'[d]) = Len(puts[d]) + 1
    BY <1>1, <1>2, AppendProperties DEF Types
<1>6. up'[d] = IF online[d] THEN Append(up[d], r) ELSE up[d]
    BY <1>1 DEF Types
<1>7. Listen \in Range(up'[d]) <=> Listen \in Range(up[d])
    BY <1>2, <1>4, <1>6, RangeAppend
<1>8. Fifo(d)'
    <2>1. Len(puts[d]) \in Nat
        BY <1>2, LenProperties
    <2>2. held[d] + n \in 0..Len(puts[d]) /\ held[d] + n <= Len(puts'[d])
        BY <1>2, <1>3, <1>5, <2>1
    <2>3. online[d] => InFlight(up'[d], puts'[d], held[d] + n)
        BY <1>2, <1>3, <1>5, <1>6, <2>2, InFlightPut
    <2> QED BY <1>3, <2>2, <2>3 DEF Fifo
<1>9. Asked(d)'
    BY <1>1, <1>7 DEF Asked, AwaitsListen
<1>10. (cache[d] \in SUBSET said) => (cache[d] \in SUBSET said')
    BY SaidGrows
<1>11. Heard(d)' => Heard(d)
    BY <1>7 DEF Heard
<1>12. AddsAfter(down[d], cache[d] \in SUBSET said')
    BY <1>1, <1>10, AddsGrows DEF Adds
<1>13. Heard(d) => Knows(down[d], cache[d] \in SUBSET said')
    BY <1>1, <1>10, AddsGrows DEF KnowsFeed
<1> QED BY <1>8, <1>9, <1>11, <1>12, <1>13 DEF Channels, Adds, KnowsFeed

LEMMA FetchChannels ==
    ASSUME BaseInv, NEW d \in Device, [Next]_vars, FetchMessages(d)
    PROVE  Channels(d)'
<1>1. Types /\ Asked(d) /\ Fifo(d) /\ Adds(d) /\ KnowsFeed(d) /\ Resting(d)
    BY DEF BaseInv
<1>2. /\ ~opened[d] /\ opened'[d] = TRUE
      /\ up'[d] = IF online[d] THEN Append(up[d], Listen) ELSE up[d]
      /\ UNCHANGED <<down, puts, held, cache, online, said>>
    BY <1>1 DEF Types, FetchMessages, client, history
<1>3. up[d] \in Seq(Request) /\ puts[d] \in Seq(Put) /\ held[d] \in Nat /\ Listen \in Request
    BY <1>1, RequestIsPut DEF Types
<1>4. PICK n \in Nat : /\ Answers(down[d], n) /\ held[d] + n <= Len(puts[d])
                       /\ online[d] => InFlight(up[d], puts[d], held[d] + n)
    BY <1>1 DEF Fifo
<1>5. Listen \notin Range(up[d])
    BY <1>1, <1>2 DEF Asked, AwaitsListen
<1>6. online[d] => InFlight(up'[d], puts[d], held[d] + n)
    <2>1. Len(puts[d]) \in Nat
        BY <1>3, LenProperties
    <2>2. held[d] + n \in 0..Len(puts[d])
        BY <1>3, <1>4, <2>1
    <2> QED BY <1>2, <1>3, <1>4, <1>5, <2>2, InFlightListen
<1>7. Fifo(d)'
    BY <1>2, <1>4, <1>6 DEF Fifo
<1>8. ~Heard(d)'
    <2>1. online[d] => Listen \in Range(up'[d])
        BY <1>2, <1>3, RangeAppend
    <2> QED BY <1>2, <2>1 DEF Heard
<1> QED BY <1>1, <1>2, <1>7, <1>8 DEF Channels, Adds, KnowsFeed, Asked

LEMMA DropChannels ==
    ASSUME BaseInv, NEW d \in Device, Disconnect(d) \/ Kill(d)
    PROVE  Channels(d)'
<1>1. Types /\ Fifo(d)
    BY DEF BaseInv
<1>2. /\ up'[d] = <<>> /\ down'[d] = <<>> /\ ~online'[d] /\ UNCHANGED said
      /\ \/ UNCHANGED <<puts, held>>
         \/ puts'[d] = <<>> /\ held'[d] = 0
    BY <1>1 DEF Types, Disconnect, Kill, Drop, client, history
<1>3. held'[d] \in Nat /\ held'[d] <= Len(puts'[d])
    <2>1. CASE UNCHANGED <<puts, held>>
        <3>1. PICK n \in Nat : held[d] + n <= Len(puts[d])
            BY <1>1 DEF Fifo
        <3>2. held[d] \in Nat /\ Len(puts[d]) \in Nat
            BY <1>1, LenProperties DEF Types
        <3> QED BY <2>1, <3>1, <3>2
    <2>2. CASE puts'[d] = <<>> /\ held'[d] = 0
        <3>1. Len(<<>>) = 0
            OBVIOUS
        <3> QED BY <2>2, <3>1
    <2> QED BY <1>2, <2>1, <2>2
<1>4. Fifo(d)'
    <2>1. held'[d] + 0 <= Len(puts'[d])
        BY <1>3
    <2> QED BY <1>2, <2>1, AnswersEmpty DEF Fifo
<1>5. ~AwaitsListen(d)' /\ ~Heard(d)'
    BY <1>2, RangeEmpty DEF AwaitsListen, Heard
<1>6. Adds(d)'
    <2>1. Len(<<>>) = 0
        OBVIOUS
    <2> QED BY <1>2, <2>1 DEF Adds, AddsAfter
<1> QED BY <1>4, <1>5, <1>6 DEF Channels, Asked, KnowsFeed

LEMMA ConnectChannels ==
    ASSUME BaseInv, NEW d \in Device, Connect(d)
    PROVE  Channels(d)'
<1>1. Types /\ Fifo(d) /\ Resting(d)
    BY DEF BaseInv
<1>2. /\ ~online[d]
      /\ up'[d] = (IF opened[d] THEN <<Listen>> ELSE <<>>) \o Pending(d)
      /\ UNCHANGED <<down, puts, held, cache, opened, said>>
    BY <1>1 DEF Types, Connect, client, screen, history
<1>3. up[d] = <<>> /\ down[d] = <<>>
    BY <1>1, <1>2 DEF Resting
<1>4. puts[d] \in Seq(Put) /\ held[d] \in Nat /\ Len(puts[d]) \in Nat
    BY <1>1, LenProperties DEF Types
<1>5. held[d] <= Len(puts[d])
    <2>1. PICK n \in Nat : held[d] + n <= Len(puts[d])
        BY <1>1 DEF Fifo
    <2> QED BY <1>4, <2>1
<1>6. PICK ps : ps = Pending(d)
    OBVIOUS
<1>7. ps = SubSeq(puts[d], held[d] + 1, Len(puts[d])) /\ held[d] \in 0..Len(puts[d])
    BY <1>4, <1>5, <1>6 DEF Pending
<1>8. /\ InFlight(<<>> \o ps, puts[d], held[d]) /\ InFlight(<<Listen>> \o ps, puts[d], held[d])
      /\ Listen \in Range(<<Listen>> \o ps) /\ <<>> \o ps = ps
      /\ ps \in Seq(Put)
    <2>1. /\ InFlight(<<>> \o ps, puts[d], held[d]) /\ InFlight(<<Listen>> \o ps, puts[d], held[d])
          /\ Listen \in Range(<<Listen>> \o ps) /\ ps \in Seq(Put)
        BY <1>4, <1>7, InFlightConnect
    <2> QED BY <2>1, ConcatEmptySeq
<1>9. Fifo(d)'
    <2>1. InFlight(up'[d], puts[d], held[d] + 0)
        <3>1. held[d] + 0 = held[d]
            BY <1>4
        <3>2. CASE opened[d]
            BY <1>2, <1>6, <1>8, <3>1, <3>2
        <3>3. CASE ~opened[d]
            BY <1>2, <1>6, <1>8, <3>1, <3>3
        <3> QED BY <3>2, <3>3
    <2>2. held[d] + 0 <= Len(puts[d])
        BY <1>4, <1>5
    <2> QED BY <1>2, <1>3, <2>1, <2>2, AnswersEmpty DEF Fifo
<1>10. ~opened[d] => ~AwaitsListen(d)'
    <2> SUFFICES ASSUME ~opened[d] PROVE ~AwaitsListen(d)'
        OBVIOUS
    <2>1. up'[d] = ps
        BY <1>2, <1>6, <1>8
    <2>2. DOMAIN ps = 1..Len(ps) /\ \A i \in 1..Len(ps) : ps[i] \in Put
        BY <1>8, LenProperties, ElementOfSeq
    <2>3. Listen \notin Range(ps)
        BY <2>2, PutCases DEF Range
    <2> QED BY <1>2, <1>3, <2>1, <2>3, RangeEmpty DEF AwaitsListen
<1>11. ~Heard(d)'
    BY <1>2, <1>6, <1>8 DEF Heard
<1>12. Adds(d)'
    <2>1. Len(<<>>) = 0
        OBVIOUS
    <2> QED BY <1>2, <1>3, <2>1 DEF Adds, AddsAfter
<1> QED BY <1>2, <1>9, <1>10, <1>11, <1>12 DEF Channels, Asked, KnowsFeed

\* What is received was at the head; a complete feed makes the cache known.
LEMMA ReceivedChannels ==
    ASSUME BaseInv, NEW d \in Device, down[d] # <<>>, down' = [down EXCEPT ![d] = Tail(@)],
           UNCHANGED <<up, online, opened, said>>,
           Whole(Head(down[d])) => cache'[d] \in SUBSET said,
           cache[d] \in SUBSET said => cache'[d] \in SUBSET said
    PROVE  Asked(d)' /\ Adds(d)' /\ KnowsFeed(d)'
<1>1. Asked(d) /\ Adds(d) /\ KnowsFeed(d) /\ down[d] \in Seq(Message)
    BY DEF BaseInv, Types
<1>2. down'[d] = Tail(down[d])
    BY DEF BaseInv, Types
<1>3. Range(Tail(down[d])) \subseteq Range(down[d])
    BY <1>1, RangeTail
<1>4. Asked(d)'
    BY <1>1, <1>2, <1>3 DEF Asked, AwaitsListen
<1> DEFINE known == cache[d] \in SUBSET said
           later == cache'[d] \in SUBSET said
<1>5. PICK k \in BOOLEAN, l \in BOOLEAN : (k <=> known) /\ (l <=> later)
    <2>1. \A p \in BOOLEAN : \E k \in BOOLEAN : k <=> p
        OBVIOUS
    <2> QED BY <2>1
<1>6. AddsAfter(down[d], k) /\ (Heard(d) => Knows(down[d], k))
    BY <1>1, <1>5 DEF Adds, KnowsFeed, AddsAfter, Knows
<1>7. AddsAfter(Tail(down[d]), l)
    BY <1>1, <1>5, <1>6, AddsTail
<1>8. Heard(d) => Knows(Tail(down[d]), l)
    BY <1>1, <1>5, <1>6, KnowsTail
<1>9. AddsAfter(Tail(down[d]), later)
    BY <1>5, <1>7 DEF AddsAfter
<1>10. Heard(d) => Knows(Tail(down[d]), later)
    BY <1>5, <1>8 DEF Knows
<1>11. Heard(d)' = Heard(d)
    BY DEF Heard
<1> QED BY <1>2, <1>4, <1>9, <1>10, <1>11 DEF Adds, KnowsFeed

LEMMA RecvInitChannels ==
    ASSUME BaseInv, NEW d \in Device, [Next]_vars, RecvInit(d)
    PROVE  Channels(d)'
<1>1. Types /\ Posted /\ Fifo(d)
    BY DEF BaseInv
<1>2. /\ down[d] # <<>> /\ Head(down[d]).kind = "init"
      /\ down' = [down EXCEPT ![d] = Tail(@)] /\ cache'[d] = Head(down[d]).feed
      /\ puts'[d] = Pending(d) /\ held'[d] = 0
      /\ UNCHANGED <<up, online, opened, said>>
    BY <1>1 DEF Types, RecvInit, Receive, screen, history
<1>3. /\ puts[d] \in Seq(Put) /\ held[d] \in Nat /\ Len(puts[d]) \in Nat
      /\ up[d] \in Seq(Request) /\ down[d] \in Seq(Message)
    BY <1>1, LenProperties DEF Types
<1>4. cache'[d] \in SUBSET said
    <2>1. Head(down[d]) \in MessagesOf(said)
        BY <1>1, <1>2, HeadTailProperties DEF Posted
    <2> QED BY <1>2, <2>1, MessageOfCases
<1>5. PICK n \in Nat : /\ Answers(down[d], n) /\ held[d] + n <= Len(puts[d])
                       /\ online[d] => InFlight(up[d], puts[d], held[d] + n)
    BY <1>1 DEF Fifo
<1>6. Answers(down'[d], n)
    <2>1. down'[d] = Tail(down[d])
        BY <1>1, <1>2 DEF Types
    <2> QED BY <1>2, <1>3, <1>5, <2>1, AnswersTail
<1>7. PICK ps : ps = Pending(d)
    OBVIOUS
<1>8. /\ ps \in Seq(Put) /\ Len(ps) + held[d] = Len(puts[d]) /\ Len(ps) \in Nat
      /\ \A i \in 1..Len(ps) : ps[i] = puts[d][held[d] + i]
    <2>1. ps = SubSeq(puts[d], held[d] + 1, Len(puts[d])) /\ held[d] <= Len(puts[d])
        BY <1>3, <1>5, <1>7 DEF Pending
    <2>2. ps \in Seq(Put) /\ Len(ps) + held[d] = Len(puts[d])
        BY <1>3, <2>1, PendingOfSeq
    <2> QED BY <1>3, <2>1, <2>2, PendingOfSeq, LenProperties
<1>9. Fifo(d)'
    <2>1. PICK a : a = held[d] + n
        OBVIOUS
    <2>2. a \in 0..Len(puts[d]) /\ held[d] \in 0..a /\ a - held[d] = 0 + n
        BY <1>3, <1>5, <2>1
    <2>3. online[d] => InFlight(up[d], ps, 0 + n)
        <3> SUFFICES ASSUME online[d] PROVE InFlight(up[d], ps, 0 + n)
            OBVIOUS
        <3>1. InFlight(up[d], puts[d], a)
            BY <1>5, <2>1
        <3>2. InFlight(up[d], ps, a - held[d])
            BY <1>3, <1>8, <2>2, <3>1, InFlightDrop
        <3> QED BY <2>2, <3>2
    <2>4. 0 + n <= Len(ps)
        BY <1>3, <1>5, <1>8
    <2> QED BY <1>2, <1>6, <1>7, <2>3, <2>4 DEF Fifo
<1> QED BY <1>2, <1>4, <1>9, ReceivedChannels DEF Channels

LEMMA RecvDataChannels ==
    ASSUME BaseInv, NEW d \in Device, [Next]_vars, RecvData(d)
    PROVE  Channels(d)'
<1>1. Types /\ Posted /\ Fifo(d) /\ Adds(d)
    BY DEF BaseInv
<1>2. PICK r : r = Head(down[d])
    OBVIOUS
<1>3. /\ down[d] # <<>> /\ r.kind \in {"feed", "add"}
      /\ down' = [down EXCEPT ![d] = Tail(@)]
      /\ cache'[d] = IF r.kind = "feed" THEN r.feed ELSE With(cache[d], r.post)
      /\ UNCHANGED <<up, puts, held, online, opened, said>>
    BY <1>1, <1>2 DEF Types, RecvData, Receive, screen, history
<1>4. r \in MessagesOf(said)
    BY <1>1, <1>2, <1>3, HeadTailProperties DEF Posted
<1>5. cache'[d] \in SUBSET said
    <2>1. CASE r.kind = "feed"
        BY <1>3, <1>4, <2>1, MessageOfCases
    <2>2. CASE r.kind = "add"
        <3>1. cache[d] \in SUBSET said
            BY <1>1, <1>2, <1>3, <2>2, AddHasFeed
        <3>2. r.post \in said
            BY <1>4, <2>2, MessageOfCases
        <3> QED BY <1>3, <2>2, <3>1, <3>2 DEF With
    <2> QED BY <1>3, <2>1, <2>2
<1>6. PICK n \in Nat : /\ Answers(down[d], n) /\ held[d] + n <= Len(puts[d])
                       /\ online[d] => InFlight(up[d], puts[d], held[d] + n)
    BY <1>1 DEF Fifo
<1>7. Answers(down'[d], n)
    <2>1. down'[d] = Tail(down[d]) /\ down[d] \in Seq(Message)
        BY <1>1, <1>3 DEF Types
    <2> QED BY <1>2, <1>3, <1>6, <2>1, AnswersTail
<1>8. Fifo(d)'
    BY <1>3, <1>6, <1>7 DEF Fifo
<1> QED BY <1>3, <1>5, <1>8, ReceivedChannels DEF Channels

LEMMA RecvAckChannels ==
    ASSUME BaseInv, NEW d \in Device, [Next]_vars, RecvAck(d)
    PROVE  Channels(d)'
<1>1. Types /\ Fifo(d)
    BY DEF BaseInv
<1>2. /\ down[d] # <<>> /\ Head(down[d]).kind = "ack"
      /\ down' = [down EXCEPT ![d] = Tail(@)]
      /\ UNCHANGED <<up, cache, online, opened, said>>
    <2>1. Receive(d, "ack") /\ UNCHANGED <<up, cache, online, screen, said>>
        BY DEF RecvAck
    <2> QED BY <2>1 DEF Receive, screen
<1>3. \/ held'[d] = held[d] + 1 /\ puts' = puts
      \/ held' = held /\ puts'[d] = Tail(puts[d])
    <2>1. \/ held' = [held EXCEPT ![d] = @ + 1] /\ puts' = puts
          \/ held' = held /\ puts' = [puts EXCEPT ![d] = Tail(@)]
        BY DEF RecvAck
    <2> QED BY <1>1, <2>1 DEF Types
<1>4. /\ puts[d] \in Seq(Put) /\ held[d] \in Nat /\ Len(puts[d]) \in Nat
      /\ up[d] \in Seq(Request) /\ down[d] \in Seq(Message)
    BY <1>1, LenProperties DEF Types
<1>5. PICK n \in Nat : /\ Answers(down[d], n) /\ held[d] + n <= Len(puts[d])
                       /\ online[d] => InFlight(up[d], puts[d], held[d] + n)
    BY <1>1 DEF Fifo
<1>6. n > 0 /\ Answers(down'[d], n - 1)
    <2>1. down'[d] = Tail(down[d])
        BY <1>1, <1>2 DEF Types
    <2> QED BY <1>2, <1>4, <1>5, <2>1, AnswersTail
<1>7. PICK k \in Nat : k = n - 1 /\ n = k + 1
    BY <1>6
<1>8. Fifo(d)'
    <2>1. CASE held'[d] = held[d] + 1 /\ puts' = puts
        <3>1. held'[d] + k = held[d] + n
            BY <1>4, <1>7, <2>1
        <3> QED BY <1>2, <1>5, <1>6, <1>7, <2>1, <3>1 DEF Fifo
    <2>2. CASE held' = held /\ puts'[d] = Tail(puts[d])
        <3>1. puts[d] # <<>>
            BY <1>1, <1>2, AckHasPut
        <3>2. PICK ps \in Seq(Put) : ps = Tail(puts[d])
            BY <1>4, <3>1, HeadTailProperties
        <3>3. /\ Len(ps) + 1 = Len(puts[d]) /\ \A i \in 1..Len(ps) : ps[i] = puts[d][1 + i]
            <4>1. Len(ps) = Len(puts[d]) - 1 /\ \A i \in 1..Len(ps) : ps[i] = puts[d][i + 1]
                BY <1>4, <3>1, <3>2, HeadTailProperties
            <4> QED BY <1>4, <4>1
        <3>4. PICK a \in Nat : a = held[d] + n
            BY <1>4
        <3>5. a \in 0..Len(puts[d]) /\ 1 \in 0..a /\ a - 1 = held[d] + k /\ held[d] + k <= Len(ps)
            BY <1>4, <1>5, <1>7, <3>3, <3>4
        <3>6. online[d] => InFlight(up[d], ps, held[d] + k)
            <4> SUFFICES ASSUME online[d] PROVE InFlight(up[d], ps, a - 1)
                BY <3>5
            <4>1. InFlight(up[d], puts[d], a)
                BY <1>5, <3>4
            <4> QED BY <1>4, <3>3, <3>5, <4>1, InFlightDrop
        <3> QED BY <1>2, <1>6, <1>7, <2>2, <3>2, <3>5, <3>6 DEF Fifo
    <2> QED BY <1>3, <2>1, <2>2
<1>9. ~Whole(Head(down[d]))
    BY <1>2 DEF Whole
<1> QED BY <1>2, <1>8, <1>9, ReceivedChannels DEF Channels

LEMMA ServeListenChannels ==
    ASSUME BaseInv, NEW d \in Device, [Next]_vars, ServeListen(d)
    PROVE  Channels(d)'
<1>1. Types /\ Posted /\ Fifo(d) /\ Adds(d) /\ Asked(d)
    BY DEF BaseInv
<1>2. PICK m : m = [kind |-> "init", feed |-> feed]
    OBVIOUS
<1>3. m \in Message /\ m.kind = "init" /\ Whole(m)
    BY <1>1, <1>2 DEF Types, Message, MessagesOf, Whole
<1>4. /\ up[d] # <<>> /\ Head(up[d]) = Listen /\ up'[d] = Tail(up[d])
      /\ down'[d] = Append(down[d], m)
      /\ UNCHANGED <<puts, held, cache, online, opened, said>>
    BY <1>1, <1>2 DEF Types, ServeListen, client, screen, history
<1>5. /\ puts[d] \in Seq(Put) /\ held[d] \in Nat /\ Len(puts[d]) \in Nat
      /\ up[d] \in Seq(Request) /\ down[d] \in Seq(Message)
    BY <1>1, LenProperties DEF Types
<1>6. PICK n \in Nat : /\ Answers(down[d], n) /\ held[d] + n <= Len(puts[d])
                       /\ online[d] => InFlight(up[d], puts[d], held[d] + n)
    BY <1>1 DEF Fifo
<1>7. Answers(down'[d], n)
    <2>1. Answers(Append(down[d], m), IF m.kind = "ack" THEN n + 1 ELSE n)
        BY <1>3, <1>5, <1>6, AnswersAppend
    <2> QED BY <1>3, <1>4, <2>1
<1>8. Fifo(d)'
    <2>1. held[d] + n \in 0..Len(puts[d])
        BY <1>5, <1>6
    <2>2. online[d] => InFlight(up'[d], puts[d], held[d] + n)
        BY <1>4, <1>5, <1>6, <2>1, InFlightServe
    <2> QED BY <1>4, <1>6, <1>7, <2>2 DEF Fifo
<1>9. Knows(down'[d], cache[d] \in SUBSET said)
    BY <1>3, <1>4, <1>5, KnowsAppend
<1>10. AddsAfter(down'[d], cache[d] \in SUBSET said)
    <2>1. m.kind # "add"
        BY <1>3
    <2> QED BY <1>1, <1>3, <1>4, <1>5, <2>1, AddsAppend DEF Adds
<1>11. opened[d]
    <2>1. Listen \in Range(up[d])
        BY <1>4, <1>5, RangeTail
    <2> QED BY <1>1, <2>1 DEF Asked, AwaitsListen
<1> QED BY <1>4, <1>8, <1>9, <1>10, <1>11 DEF Channels, Asked, Adds, KnowsFeed

LEMMA ServePutChannels ==
    ASSUME BaseInv, NEW d \in Device, [Next]_vars, ServePut(d)
    PROVE  Channels(d)'
<1>1. Types /\ Posted /\ Fifo(d) /\ Adds(d) /\ Asked(d)
    BY DEF BaseInv
<1>2. PICK r \in Put : r = Head(up[d])
    BY <1>1, ServedDown
<1>3. PICK t : t = Told(d, News(r))
    OBVIOUS
<1>4. /\ up[d] # <<>> /\ r # Listen /\ up'[d] = Tail(up[d])
      /\ UNCHANGED <<puts, held, cache, online, opened, said>>
    <2>1. /\ up[d] # <<>> /\ up' = [up EXCEPT ![d] = Tail(@)]
          /\ UNCHANGED <<client, screen, online, said>>
        BY DEF ServePut
    <2> QED BY <1>1, <2>1, PutCases DEF Types, client, screen
<1>5. down'[d] = Append(t, Ack)
    BY <1>1, <1>2, <1>3, ServedDown
<1>6. /\ puts[d] \in Seq(Put) /\ held[d] \in Nat /\ Len(puts[d]) \in Nat
      /\ up[d] \in Seq(Request) /\ down[d] \in Seq(Message)
    BY <1>1, LenProperties DEF Types
<1>7. PICK n \in Nat : /\ Answers(down[d], n) /\ held[d] + n <= Len(puts[d])
                       /\ online[d] => InFlight(up[d], puts[d], held[d] + n)
    BY <1>1 DEF Fifo
<1>8. online[d]
    BY <1>4 DEF BaseInv, Resting
<1>9. /\ t \in Seq(Message) /\ Answers(t, n) /\ AddsAfter(t, cache[d] \in SUBSET said)
      /\ Heard(d) => Knows(t, cache[d] \in SUBSET said)
      /\ \A m \in Range(t) : m.kind = "init" => m \in Range(down[d])
    BY <1>3, <1>7, ToldStep
<1>10. PICK a \in Message : a = Ack /\ a.kind = "ack"
    BY AckType
<1>11. Answers(down'[d], n + 1)
    <2>1. Answers(Append(t, a), IF a.kind = "ack" THEN n + 1 ELSE n)
        BY <1>9, AnswersAppend
    <2> QED BY <1>5, <1>10, <2>1
<1>12. Fifo(d)'
    <2>1. PICK b \in Nat : b = held[d] + n
        BY <1>6
    <2>2. b \in 0..Len(puts[d]) /\ InFlight(up[d], puts[d], b)
        BY <1>6, <1>7, <1>8, <2>1
    <2>3. b + 1 \in 1..Len(puts[d]) /\ InFlight(Tail(up[d]), puts[d], b + 1)
        BY <1>2, <1>4, <1>6, <2>2, InFlightServe
    <2>4. b + 1 = held[d] + (n + 1) /\ b + 1 <= Len(puts[d])
        BY <1>6, <2>1, <2>3
    <2> QED BY <1>4, <1>11, <2>3, <2>4 DEF Fifo
<1>13. AddsAfter(down'[d], cache[d] \in SUBSET said)
    <2>1. a.kind # "add"
        BY <1>10
    <2> QED BY <1>5, <1>9, <1>10, <2>1, AddsAppend
<1>14. Listen \in Range(up'[d]) <=> Listen \in Range(up[d])
    BY <1>2, <1>4, <1>6, RangeTail
<1>15. Heard(d)' => Knows(down'[d], cache[d] \in SUBSET said)
    <2>1. Heard(d)' => Heard(d)
        BY <1>4, <1>14 DEF Heard
    <2>2. Heard(d) => Knows(Append(t, a), cache[d] \in SUBSET said)
        BY <1>9, KnowsAppend
    <2> QED BY <1>5, <1>10, <2>1, <2>2
<1>16. Asked(d)'
    <2>1. Range(down'[d]) = Range(t) \cup {a}
        BY <1>5, <1>9, <1>10, RangeAppend
    <2>2. AwaitsListen(d)' => AwaitsListen(d)
        BY <1>9, <1>10, <1>14, <2>1 DEF AwaitsListen
    <2> QED BY <1>1, <1>4, <2>2 DEF Asked
<1> QED BY <1>4, <1>12, <1>13, <1>15, <1>16 DEF Channels, Adds, KnowsFeed

LEMMA OwnChannels ==
    ASSUME BaseInv, NEW d \in Device, DeviceStep(d), [Next]_vars
    PROVE  Channels(d)'
<1>1. Types
    BY DEF BaseInv
<1>2. CASE Enter(d)
    <2>1. Asked(d) /\ Fifo(d) /\ Adds(d) /\ KnowsFeed(d)
        BY DEF BaseInv
    <2>2. UNCHANGED <<online, up, down, puts, held, cache, opened, said>>
        BY <1>2 DEF Enter, wire, client, history
    <2> QED BY <2>1, <2>2
            DEF Channels, Asked, AwaitsListen, Fifo, Adds, KnowsFeed, Heard
<1>3. CASE Submits(d)
    <2>1. /\ puts' = [puts EXCEPT ![d] = Append(@, Found)]
          /\ up' = IF online[d] THEN [up EXCEPT ![d] = Append(@, Found)] ELSE up
          /\ UNCHANGED <<down, held, cache, online, opened>>
        BY <1>3 DEF Submits, SubmitNewTeam, SetValue
    <2>2. Found \in Put
        BY DEF Put, PutsOf
    <2> QED BY <2>1, <2>2, WriteChannels
<1>4. CASE \E key \in PushIds(d) : AddMessage(d, key)
    <2>1. PICK key \in PushIds(d) : AddMessage(d, key)
        BY <1>4
    <2>2. PICK m \in Post : /\ puts' = [puts EXCEPT ![d] = Append(@, PutPost(m))]
                            /\ up' = IF online[d] THEN [up EXCEPT ![d] = Append(@, PutPost(m))]
                                     ELSE up
        <3>1. PICK p \in Post : p = NewPost(d, key)
            BY <2>1, AddsCount DEF BaseInv
        <3>2. \E m : /\ m = NewPost(d, key)
                     /\ puts' = [puts EXCEPT ![d] = Append(@, PutPost(m))]
                     /\ up' = IF online[d] THEN [up EXCEPT ![d] = Append(@, PutPost(m))] ELSE up
            BY <2>1, AddsPost
        <3> QED BY <3>1, <3>2
    <2>3. UNCHANGED <<down, held, cache, online, opened>>
        BY <2>1, AddsOnly
    <2>4. PutPost(m) \in Put
        BY DEF Put, PutsOf
    <2> QED BY <2>2, <2>3, <2>4, WriteChannels
<1> QED BY <1>2, <1>3, <1>4, FetchChannels, DropChannels, ConnectChannels, RecvInitChannels,
           RecvDataChannels, RecvAckChannels, ServeListenChannels, ServePutChannels
        DEF DeviceStep, Step, Background

LEMMA BaseInvInit == Init => BaseInv
<1> SUFFICES ASSUME Init PROVE BaseInv
    OBVIOUS
<1>1. Posted /\ Counted
    BY PostedInit, CountedInit
<1>2. \A S : <<>> \in Seq(S)
    BY EmptySeq
<1>3. Types
    <2>1. now \in 0..MaxTime /\ 0 \in Skew
        BY FeedAssumption DEF Init
    <2>2. {} \in SUBSET Post /\ NoPush \in PushId \cup {NoPush}
        OBVIOUS
    <2> QED BY <1>2, <2>1, <2>2 DEF Init, Types
<1>4. NotYet /\ \A d \in Device : Resting(d)
    BY DEF Init, NotYet, Resting
<1>5. ASSUME NEW d \in Device PROVE Asked(d) /\ Fifo(d) /\ Adds(d) /\ KnowsFeed(d)
    <2>1. up[d] = <<>> /\ down[d] = <<>> /\ puts[d] = <<>> /\ held[d] = 0 /\ ~online[d]
        BY DEF Init
    <2>2. Len(<<>>) = 0 /\ 0 + 0 <= 0
        OBVIOUS
    <2>3. Asked(d) /\ KnowsFeed(d)
        BY <2>1, RangeEmpty DEF Asked, AwaitsListen, KnowsFeed, Heard
    <2>4. Adds(d)
        BY <2>1, <2>2 DEF Adds, AddsAfter
    <2>5. Fifo(d)
        BY <2>1, <2>2, AnswersEmpty DEF Fifo
    <2> QED BY <2>3, <2>4, <2>5
<1> QED BY <1>1, <1>3, <1>4, <1>5 DEF BaseInv

LEMMA BaseInvStep == BaseInv /\ [Next]_vars => BaseInv'
<1> SUFFICES ASSUME BaseInv, [Next]_vars PROVE BaseInv'
    OBVIOUS
<1>1. ASSUME NEW d \in Device, DeviceStep(d) PROVE BaseInv'
    <2>1. Types' /\ Posted' /\ Counted'
        BY <1>1, TypesStep, PostedStep, CountedStep
    <2>2. NotYet' /\ \A x \in Device : Resting(x)'
        BY <1>1, RestingStep
    <2>3. \A x \in Device : Asked(x)' /\ Fifo(x)' /\ Adds(x)' /\ KnowsFeed(x)'
        BY <1>1, OwnChannels, OthersChannels DEF Channels
    <2> QED BY <2>1, <2>2, <2>3 DEF BaseInv
<1>2. CASE Tick \/ UNCHANGED vars
    <2>1. /\ UNCHANGED <<skew, lastPush, founded, feed, made, online, up, down, puts, held>>
          /\ UNCHANGED <<cache, member, opened, era, said, answered, atRisk>>
        BY <1>2 DEF Tick, vars, clock, server, wire, client, screen, history
    <2>2. now' \in 0..MaxTime
        <3>1. now \in 0..MaxTime /\ MaxTime \in Nat
            BY FeedAssumption DEF BaseInv, Types
        <3>2. CASE Tick
            BY <3>1, <3>2 DEF Tick
        <3>3. CASE UNCHANGED vars
            BY <3>1, <3>3 DEF vars, clock
        <3> QED BY <1>2, <3>2, <3>3
    <2>3. Types'
        BY <2>1, <2>2 DEF BaseInv, Types
    <2>4. Posted' /\ NotYet' /\ Counted'
        BY <2>1 DEF BaseInv, Posted, NotYet, Counted, Mine
    <2>5. ASSUME NEW d \in Device
          PROVE  Resting(d)' /\ Asked(d)' /\ Fifo(d)' /\ Adds(d)' /\ KnowsFeed(d)'
        <3>1. Resting(d) /\ Asked(d) /\ Fifo(d) /\ Adds(d) /\ KnowsFeed(d)
            BY DEF BaseInv
        <3> QED BY <2>1, <3>1
                DEF Resting, Asked, AwaitsListen, Fifo, Adds, KnowsFeed, Heard
    <2> QED BY <2>3, <2>4, <2>5 DEF BaseInv
<1> QED BY <1>1, <1>2, NextCases

LEMMA BaseInvAlways == Spec => []BaseInv
    BY BaseInvInit, BaseInvStep, PTL DEF Spec

\* The model's values are of their types, and there are never more answers
\* held back than writes pending: what RecvAck and RecvInit count on.
THEOREM TypeCorrect == Spec => []TypeOK
<1>1. BaseInv => TypeOK
    <2> SUFFICES ASSUME BaseInv PROVE TypeOK
        OBVIOUS
    <2>1. Types
        BY DEF BaseInv
    <2>2. ASSUME NEW d \in Device
          PROVE  /\ \A i \in DOMAIN puts[d] : IsPut(puts[d][i])
                 /\ \A i \in DOMAIN up[d] : up[d][i] = Listen \/ IsPut(up[d][i])
                 /\ \A i \in DOMAIN down[d] : down[d][i].kind \in {"init", "feed", "add", "ack"}
                 /\ held[d] \in 0..Len(puts[d])
                 /\ cache[d] = Unknown \/ IsFeed(cache[d])
        <3>1. /\ puts[d] \in Seq(Put) /\ up[d] \in Seq(Request) /\ down[d] \in Seq(Message)
              /\ held[d] \in Nat
            BY <2>1 DEF Types
        <3>2. \A i \in DOMAIN puts[d] : IsPut(puts[d][i])
            BY <3>1, ElementOfSeq, LenProperties, PutCases
        <3>3. \A i \in DOMAIN up[d] : up[d][i] = Listen \/ IsPut(up[d][i])
            BY <3>1, ElementOfSeq, LenProperties, PutCases, RequestIsPut
        <3>4. \A i \in DOMAIN down[d] : down[d][i].kind \in {"init", "feed", "add", "ack"}
            BY <3>1, ElementOfSeq, LenProperties, MessageCases
        <3>5. held[d] \in 0..Len(puts[d])
            <4>1. PICK n \in Nat : held[d] + n <= Len(puts[d])
                BY DEF BaseInv, Fifo
            <4>2. Len(puts[d]) \in Nat
                BY <3>1, LenProperties
            <4> QED BY <3>1, <4>1, <4>2
        <3>6. cache[d] = Unknown \/ IsFeed(cache[d])
            BY <2>1 DEF Types, IsFeed
        <3> QED BY <3>2, <3>3, <3>4, <3>5, <3>6
    <2>3. /\ now \in 0..MaxTime /\ skew \in [Device -> Skew]
          /\ founded \in BOOLEAN /\ IsFeed(feed) /\ made \in BOOLEAN
          /\ IsFeed(said) /\ answered \cup atRisk \subseteq said
        BY <2>1 DEF Types, IsFeed
    <2>4. /\ {member, opened, online} \subseteq [Device -> BOOLEAN]
          /\ \A d \in Device : lastPush[d] \in PushId \cup {NoPush}
        BY <2>1 DEF Types
    <2> QED BY <2>2, <2>3, <2>4 DEF TypeOK
<1> QED BY <1>1, BaseInvAlways, PTL

-----------------------------------------------------------------------------
(* No key comes twice.                                                     *)

SameStart(a, b) == a.time = b.time /\ a.draw = b.draw

\* A device counts up from the last key there is with its start, and no
\* other device does from one with that start.
KeysApart ==
    /\ \A a, b \in said : a.key = b.key => a = b
    /\ \A d \in Device : lastPush[d] # NoPush =>
        /\ \A m \in said : SameStart(m.key, lastPush[d]) => m.key.inc <= lastPush[d].inc
        /\ \A x \in Device : x # d /\ lastPush[x] # NoPush => ~SameStart(lastPush[x], lastPush[d])

LEMMA SaidKey ==
    ASSUME Types, NEW m \in said
    PROVE  /\ m \in Post /\ m.key \in PushId /\ m.key.time \in Int /\ m.key.inc \in Nat
           /\ m.author \in Device /\ m.nth \in Nat /\ m.era \in Nat
<1>1. m \in Post
    BY DEF Types
<1>2. m.key \in PushId /\ m.author \in Device /\ m.nth \in 1..MaxPosts /\ m.era \in Nat
    BY <1>1 DEF Post
<1> QED BY <1>1, <1>2, FeedAssumption DEF PushId

\* An id that is taken is apart from all there are.
LEMMA TakenApart ==
    ASSUME Types, Counted, KeysApart, NEW d \in Device, NEW key \in PushIds(d),
           Cardinality(said) < MaxPosts \/ lastPush[d] = NoPush
    PROVE  /\ \A m \in said : SameStart(m.key, key) => m.key.inc < key.inc
           /\ \A x \in Device : x # d /\ lastPush[x] # NoPush => ~SameStart(lastPush[x], key)
<1>1. CASE /\ lastPush[d] # NoPush /\ lastPush[d].time = key.time
           /\ key.draw = lastPush[d].draw /\ key.inc = lastPush[d].inc + 1
    <2>1. ASSUME NEW m \in said, SameStart(m.key, key) PROVE m.key.inc < key.inc
        <3>1. m.key.inc <= lastPush[d].inc
            BY <1>1, <2>1 DEF KeysApart, SameStart
        <3>2. m.key.inc \in Nat
            BY SaidKey
        <3>3. lastPush[d].inc \in Nat
            BY <1>1, FeedAssumption DEF Types, PushId
        <3> QED BY <1>1, <3>1, <3>2, <3>3
    <2>2. \A x \in Device : x # d /\ lastPush[x] # NoPush => ~SameStart(lastPush[x], key)
        BY <1>1 DEF KeysApart, SameStart
    <2> QED BY <2>1, <2>2
<1>2. CASE /\ \A m \in said : m.key.time = key.time => m.key.draw # key.draw
           /\ \A x \in Device : lastPush[x].time = key.time => lastPush[x].draw # key.draw
    BY <1>2 DEF SameStart
<1> QED BY <1>1, <1>2, PushIdType

\* Taking one keeps the keys apart.
LEMMA TakeApart ==
    ASSUME Types, Counted, KeysApart, NEW d \in Device, NEW key \in PushIds(d),
           Cardinality(said) < MaxPosts \/ lastPush[d] = NoPush,
           lastPush' = [lastPush EXCEPT ![d] = key],
           said' = said \/ \E m \in Post : m.key = key /\ said' = said \cup {m}
    PROVE  KeysApart'
<1>1. /\ \A m \in said : SameStart(m.key, key) => m.key.inc < key.inc
      /\ \A x \in Device : x # d /\ lastPush[x] # NoPush => ~SameStart(lastPush[x], key)
    BY TakenApart
<1>2. lastPush'[d] = key /\ \A x \in Device : x # d => lastPush'[x] = lastPush[x]
    BY DEF Types
<1>3. key.inc \in Nat
    BY PushIdType, FeedAssumption DEF PushId
<1>4. \A m \in said' : m \in said \/ m.key = key
    OBVIOUS
<1>5. \A m \in said : m.key.inc \in Nat
    BY SaidKey
<1>6. \A m \in said : m.key # key
    BY <1>1, <1>3 DEF SameStart
<1>7. ASSUME NEW a \in said', NEW b \in said', a.key = b.key PROVE a = b
    BY <1>6, <1>7 DEF KeysApart
<1>8. ASSUME NEW x \in Device, lastPush'[x] # NoPush, NEW m \in said',
             SameStart(m.key, lastPush'[x])
      PROVE  m.key.inc <= lastPush'[x].inc
    <2>1. CASE x = d
        <3>1. CASE m.key = key
            BY <1>2, <1>3, <2>1, <3>1
        <3>2. CASE m \in said
            <4>1. m.key.inc < key.inc
                BY <1>1, <1>2, <1>8, <2>1, <3>2
            <4> QED BY <1>2, <1>3, <1>5, <2>1, <3>2, <4>1
        <3> QED BY <1>4, <3>1, <3>2
    <2>2. CASE x # d
        <3>1. lastPush'[x] = lastPush[x]
            BY <1>2, <2>2
        <3>2. m.key # key
            BY <1>1, <1>8, <2>2, <3>1 DEF SameStart
        <3> QED BY <1>4, <1>8, <3>1, <3>2 DEF KeysApart
    <2> QED BY <2>1, <2>2
<1>9. ASSUME NEW x \in Device, NEW y \in Device, x # y, lastPush'[x] # NoPush,
             lastPush'[y] # NoPush
      PROVE  ~SameStart(lastPush'[x], lastPush'[y])
    BY <1>1, <1>2, <1>9 DEF KeysApart, SameStart
<1> QED BY <1>7, <1>8, <1>9 DEF KeysApart

\* Only a post and the creation of the team take one.
LEMMA TakesNone ==
    ASSUME Types, NEW d \in Device,
           \/ Enter(d) \/ FetchMessages(d) \/ Disconnect(d) \/ Background(d)
    PROVE  UNCHANGED <<said, lastPush, made>>
<1>1. CASE Enter(d) \/ FetchMessages(d) \/ Disconnect(d)
    BY <1>1 DEF Enter, FetchMessages, Disconnect, clock, history
<1>2. CASE Connect(d) \/ RecvInit(d) \/ RecvData(d) \/ ServeListen(d)
    BY <1>2 DEF Connect, RecvInit, RecvData, ServeListen, clock, history
<1>3. CASE RecvAck(d)
    <2>1. UNCHANGED <<said, clock, made>>
        BY <1>3 DEF RecvAck
    <2> QED BY <2>1 DEF clock
<1>4. CASE ServePut(d)
    <2>1. UNCHANGED <<said, clock, made>>
        BY <1>4 DEF ServePut
    <2> QED BY <2>1 DEF clock
<1> QED BY <1>1, <1>2, <1>3, <1>4 DEF Background

LEMMA ApartStep ==
    ASSUME BaseInv, KeysApart, NEW d \in Device, DeviceStep(d), [Next]_vars
    PROVE  KeysApart'
<1>1. Types /\ Counted /\ Resting(d)
    BY DEF BaseInv
<1>2. CASE \E key \in PushIds(d) : AddMessage(d, key)
    <2>1. PICK key \in PushIds(d) : AddMessage(d, key)
        BY <1>2
    <2>2. \E m \in Post : m.key = key /\ said' = said \cup {m}
        BY <1>1, <2>1, AddsCount
    <2>3. Cardinality(said) < MaxPosts /\ lastPush' = [lastPush EXCEPT ![d] = key]
        BY <2>1, AddsOnly
    <2> QED BY <1>1, <2>2, <2>3, TakeApart
<1>3. CASE Submits(d)
    <2>1. PICK key \in PushIds(d) : /\ ~made /\ lastPush' = [lastPush EXCEPT ![d] = key]
                                    /\ said' = said
        BY <1>3 DEF Submits, SubmitNewTeam, TakePushId, history
    <2>2. lastPush[d] = NoPush
        BY <1>1, <2>1 DEF Resting
    <2> QED BY <1>1, <2>1, <2>2, TakeApart
<1>4. CASE Kill(d)
    <2>1. said' = said /\ lastPush' = [lastPush EXCEPT ![d] = NoPush]
        BY <1>4 DEF Kill, history
    <2>2. \A x \in Device : lastPush'[x] # NoPush => lastPush'[x] = lastPush[x]
        BY <1>1, <2>1 DEF Types
    <2> QED BY <2>1, <2>2 DEF KeysApart
<1>5. CASE Enter(d) \/ FetchMessages(d) \/ Disconnect(d) \/ Background(d)
    BY <1>1, <1>5, TakesNone DEF KeysApart
<1> QED BY <1>2, <1>3, <1>4, <1>5 DEF DeviceStep, Step

-----------------------------------------------------------------------------
(* What is kept of the answered posts.                                     *)

LEMMA LeastNat ==
    ASSUME NEW T, T \subseteq Nat, T # {}
    PROVE  \E x \in T : \A y \in T : x <= y
<1>1. PICK x \in T : \A y \in T : ~ (<<y, x>> \in OpToRel(<, Nat))
    BY NatLessThanWellFounded, WFMin
<1>2. ASSUME NEW y \in T PROVE x <= y
    <2> SUFFICES ASSUME y < x PROVE FALSE
        OBVIOUS
    <2>1. <<y, x>> \in Nat \X Nat /\ <<y, x>>[1] < <<y, x>>[2]
        OBVIOUS
    <2>2. <<y, x>> \in OpToRel(<, Nat)
        BY <2>1 DEF OpToRel
    <2> QED BY <1>1, <2>2
<1> QED BY <1>2

LEMMA AnswersUnique ==
    ASSUME NEW msgs \in Seq(Message), NEW n, NEW t, Answers(msgs, n), Answers(msgs, t)
    PROVE  n = t
<1>1. PICK b, c : Counts(b, n, msgs) /\ Counts(c, t, msgs)
    BY DEF Answers
<1>2. PICK k \in Nat : k = Len(msgs)
    BY LenProperties
<1>3. /\ b[0] = 0 /\ b[k] = n /\ c[0] = 0 /\ c[k] = t
      /\ \A i \in 1..k : /\ b[i] = b[i - 1] + (IF msgs[i].kind = "ack" THEN 1 ELSE 0)
                         /\ c[i] = c[i - 1] + (IF msgs[i].kind = "ack" THEN 1 ELSE 0)
    BY <1>1, <1>2 DEF Counts
<1> SUFFICES ASSUME n # t PROVE FALSE
    OBVIOUS
<1>4. PICK i \in {j \in 0..k : b[j] # c[j]} : \A j \in {y \in 0..k : b[y] # c[y]} : i <= j
    <2>1. k \in {j \in 0..k : b[j] # c[j]} /\ {j \in 0..k : b[j] # c[j]} \subseteq Nat
        BY <1>3
    <2> QED BY <2>1, LeastNat
<1>5. i # 0
    BY <1>3, <1>4
<1>6. i - 1 \in 0..k /\ ~ (i <= i - 1) /\ i \in 1..k
    BY <1>4, <1>5
<1>7. b[i - 1] = c[i - 1]
    BY <1>4, <1>6
<1> QED BY <1>3, <1>4, <1>6, <1>7

\* As no key comes twice, a put takes nothing away.
LEMMA WithAdds ==
    ASSUME KeysApart, NEW f \in SUBSET said, NEW m \in said
    PROVE  With(f, m) = f \cup {m}
    BY DEF With, KeysApart

\* The creation of the team has no answer yet.
FoundPends == Len(puts[Founder]) >= 1 /\ puts[Founder][1] = Found /\ held[Founder] = 0
FoundFirst(d) == \A i \in 1..Len(puts[d]) : puts[d][i] = Found => d = Founder /\ i = 1

Safe(m) == m \in feed \/ (m.author # Founder /\ m \in atRisk)

\* What the answers on their way are of is safe.
Handled(d) ==
    \A n \in Nat : Answers(down[d], n) =>
        \A k \in 1..Len(puts[d]) : k <= held[d] + n /\ puts[d][k] # Found => Safe(puts[d][k].post)

KeptInv ==
    /\ KeysApart
    /\ \A d \in Device : FoundFirst(d) /\ Handled(d)
    /\ \A m \in answered : Safe(m)
    /\ FoundPends => \A m \in said : IF m.author = Founder THEN m \notin answered
                                     ELSE m \in feed => m \in atRisk

\* The creation is sent only before it is answered.
LEMMA FoundIsPending ==
    ASSUME BaseInv, KeptInv, NEW d \in Device, up[d] # <<>>, Head(up[d]) = Found
    PROVE  /\ d = Founder /\ FoundPends
           /\ \A n \in Nat : Answers(down[d], n) => n = 0
<1>1. Types /\ Fifo(d) /\ Resting(d)
    BY DEF BaseInv
<1>2. PICK n \in Nat : /\ Answers(down[d], n) /\ held[d] + n <= Len(puts[d])
                       /\ online[d] => InFlight(up[d], puts[d], held[d] + n)
    BY <1>1 DEF Fifo
<1>3. /\ puts[d] \in Seq(Put) /\ held[d] \in Nat /\ Len(puts[d]) \in Nat
      /\ up[d] \in Seq(Request) /\ down[d] \in Seq(Message)
    BY <1>1, LenProperties DEF Types
<1>4. online[d] /\ Found # Listen
    BY <1>1, PutPostKind DEF Resting
<1>5. PICK a \in Nat : a = held[d] + n
    BY <1>3
<1>6. a \in 0..Len(puts[d]) /\ InFlight(up[d], puts[d], a)
    BY <1>2, <1>3, <1>4, <1>5
<1>7. a + 1 \in 1..Len(puts[d]) /\ Found = puts[d][a + 1]
    BY <1>3, <1>4, <1>6, InFlightServe
<1>8. d = Founder /\ a + 1 = 1
    BY <1>7 DEF KeptInv, FoundFirst
<1>9. held[d] = 0 /\ n = 0
    <2>1. PICK h \in Nat : h = held[d]
        BY <1>3
    <2>2. a = h + n /\ a = 0
        BY <1>5, <1>8, <2>1
    <2>3. h = 0 /\ n = 0
        BY <2>2
    <2> QED BY <2>1, <2>3
<1>10. FoundPends
    BY <1>3, <1>7, <1>8, <1>9 DEF FoundPends
<1> QED BY <1>2, <1>3, <1>8, <1>9, <1>10, AnswersUnique

\* What a step makes of the pending writes of its device.
Shift(ps, qs, s) ==
    /\ Len(ps) + s = Len(qs)
    /\ \A k \in 1..Len(ps) : ps[k] = qs[s + k]
Shifts(d, s) == Shift(puts'[d], puts[d], s)

LEMMA PutsSame ==
    ASSUME Types, NEW d \in Device, puts'[d] = puts[d]
    PROVE  Shifts(d, 0)
<1>1. PICK l \in Nat : l = Len(puts[d])
    BY LenProperties DEF Types
<1> QED BY <1>1 DEF Shifts, Shift

LEMMA RecvInitShifts ==
    ASSUME BaseInv, NEW d \in Device, RecvInit(d)
    PROVE  Shifts(d, held[d]) /\ held'[d] = 0
<1>1. Types /\ Fifo(d)
    BY DEF BaseInv
<1>2. /\ puts[d] \in Seq(Put) /\ held[d] \in Nat /\ Len(puts[d]) \in Nat
    BY <1>1, LenProperties DEF Types
<1>3. held[d] <= Len(puts[d])
    <2>1. PICK n \in Nat : held[d] + n <= Len(puts[d])
        BY <1>1 DEF Fifo
    <2> QED BY <1>2, <2>1
<1>4. PICK ps : ps = Pending(d) /\ ps = SubSeq(puts[d], held[d] + 1, Len(puts[d]))
    BY DEF Pending
<1>5. puts'[d] = ps /\ held'[d] = 0
    BY <1>1, <1>4 DEF RecvInit, Types
<1>6. Len(ps) + held[d] = Len(puts[d]) /\ \A i \in 1..Len(ps) : ps[i] = puts[d][held[d] + i]
    <2>1. PICK qs \in Seq(Put), h \in Nat : qs = puts[d] /\ h = held[d]
        BY <1>2
    <2>2. ps = SubSeq(qs, h + 1, Len(qs)) /\ h <= Len(qs)
        BY <1>3, <1>4, <2>1
    <2>3. Len(ps) + h = Len(qs) /\ \A i \in 1..Len(ps) : ps[i] = qs[h + i]
        BY <2>2, PendingOfSeq
    <2> QED BY <2>1, <2>3
<1>7. Shift(ps, puts[d], held[d])
    BY <1>6 DEF Shift
<1> QED BY <1>5, <1>7 DEF Shifts

LEMMA RecvAckShifts ==
    ASSUME BaseInv, NEW d \in Device, RecvAck(d)
    PROVE  \/ Shifts(d, 0) /\ held'[d] = held[d] + 1
           \/ Shifts(d, 1) /\ held'[d] = held[d]
<1>1. Types /\ Fifo(d)
    BY DEF BaseInv
<1>2. down[d] # <<>> /\ Head(down[d]).kind = "ack"
    <2>1. Receive(d, "ack")
        BY DEF RecvAck
    <2> QED BY <2>1 DEF Receive
<1>3. \/ held' = [held EXCEPT ![d] = @ + 1] /\ puts' = puts
      \/ held' = held /\ puts' = [puts EXCEPT ![d] = Tail(@)]
    BY DEF RecvAck
<1>4. puts[d] \in Seq(Put) /\ puts[d] # <<>> /\ Len(puts[d]) \in Nat
    BY <1>1, <1>2, AckHasPut, LenProperties DEF Types
<1>5. CASE held' = [held EXCEPT ![d] = @ + 1] /\ puts' = puts
    BY <1>1, <1>5, PutsSame DEF Types
<1>6. CASE held' = held /\ puts' = [puts EXCEPT ![d] = Tail(@)]
    <2>1. PICK ps \in Seq(Put) : ps = Tail(puts[d])
        BY <1>4, HeadTailProperties
    <2>2. Len(ps) = Len(puts[d]) - 1 /\ \A i \in 1..Len(ps) : ps[i] = puts[d][i + 1]
        BY <1>4, <2>1, HeadTailProperties
    <2>3. puts'[d] = ps
        BY <1>1, <1>6, <2>1 DEF Types
    <2>4. Len(ps) + 1 = Len(puts[d]) /\ \A i \in 1..Len(ps) : ps[i] = puts[d][1 + i]
        BY <1>4, <2>2
    <2>5. Shift(ps, puts[d], 1)
        BY <2>4 DEF Shift
    <2> QED BY <1>6, <2>3, <2>5 DEF Shifts
<1> QED BY <1>3, <1>5, <1>6

LEMMA PutsStep ==
    ASSUME BaseInv, NEW d \in Device, DeviceStep(d)
    PROVE  \/ Submits(d) /\ puts[d] = <<>> /\ puts'[d] = Append(puts[d], Found)
           \/ /\ \E key \in PushIds(d) : AddMessage(d, key)
              /\ \E m \in Post : puts'[d] = Append(puts[d], PutPost(m))
              /\ held'[d] = held[d]
           \/ Kill(d) /\ puts'[d] = <<>>
           \/ RecvInit(d) /\ Shifts(d, held[d]) /\ held'[d] = 0
           \/ RecvAck(d) /\ Shifts(d, 0) /\ held'[d] = held[d] + 1
           \/ RecvAck(d) /\ Shifts(d, 1) /\ held'[d] = held[d]
           \/ Shifts(d, 0) /\ held'[d] = held[d] /\ puts'[d] = puts[d]
<1>1. Types /\ Resting(d) /\ Counted
    BY DEF BaseInv
<1>2. CASE Submits(d)
    <2>1. ~made /\ puts' = [puts EXCEPT ![d] = Append(@, Found)]
        BY <1>2 DEF Submits, SubmitNewTeam, SetValue
    <2>2. puts[d] = <<>>
        BY <1>1, <2>1 DEF Resting
    <2> QED BY <1>1, <1>2, <2>1, <2>2 DEF Types
<1>3. CASE \E key \in PushIds(d) : AddMessage(d, key)
    <2>1. PICK key \in PushIds(d) : AddMessage(d, key)
        BY <1>3
    <2>2. PICK m \in Post : m = NewPost(d, key)
        BY <1>1, <2>1, AddsCount
    <2>3. puts' = [puts EXCEPT ![d] = Append(@, PutPost(m))]
        <3>1. \E p : p = NewPost(d, key) /\ puts' = [puts EXCEPT ![d] = Append(@, PutPost(p))]
            BY <2>1, AddsPost
        <3> QED BY <2>2, <3>1
    <2>4. held' = held
        BY <2>1, AddsOnly
    <2> QED BY <1>1, <1>3, <2>3, <2>4 DEF Types
<1>4. CASE Kill(d)
    BY <1>1, <1>4 DEF Kill, Types
<1>5. CASE RecvInit(d)
    BY <1>5, RecvInitShifts
<1>6. CASE RecvAck(d)
    BY <1>6, RecvAckShifts
<1>7. CASE Enter(d) \/ FetchMessages(d) \/ Disconnect(d) \/ Connect(d) \/ RecvData(d) \/ ServeListen(d)
    <2>1. UNCHANGED <<puts, held>>
        BY <1>7 DEF Enter, FetchMessages, Disconnect, Connect, RecvData, ServeListen, client
    <2> QED BY <1>1, <2>1, PutsSame
<1>8. CASE ServePut(d)
    <2>1. UNCHANGED client
        BY <1>8 DEF ServePut
    <2> QED BY <1>1, <2>1, PutsSame DEF client
<1> QED BY <1>2, <1>3, <1>4, <1>5, <1>6, <1>7, <1>8 DEF DeviceStep, Step, Background

\* After a step the creation of the team is pending and unanswered only if it
\* was before or is called for now.
LEMMA FoundStep ==
    ASSUME BaseInv, KeptInv, NEW d \in Device, DeviceStep(d)
    PROVE  /\ FoundFirst(d)'
           /\ FoundPends' => FoundPends \/ Submits(d)
<1>1. Types /\ FoundFirst(d) /\ Founder \in Device
    BY FeedAssumption DEF BaseInv, KeptInv
<1>2. d # Founder => puts'[Founder] = puts[Founder] /\ held'[Founder] = held[Founder]
    BY <1>1, OthersStay
<1>3. d # Founder => (FoundPends' => FoundPends)
    BY <1>2 DEF FoundPends
<1>4. PICK qs \in Seq(Put), h \in Nat, l \in Nat : qs = puts[d] /\ h = held[d] /\ l = Len(qs)
    BY <1>1, LenProperties DEF Types
<1>5. \A i \in 1..l : qs[i] = Found => d = Founder /\ i = 1
    BY <1>1, <1>4 DEF FoundFirst
<1>6. CASE Submits(d) /\ puts[d] = <<>> /\ puts'[d] = Append(puts[d], Found)
    <2>1. d = Founder
        BY <1>6 DEF Submits
    <2>2. puts'[d] = <<Found>>
        BY <1>6
    <2>3. Len(<<Found>>) = 1
        OBVIOUS
    <2> QED BY <1>6, <2>1, <2>2, <2>3 DEF FoundFirst
<1>7. CASE \E m \in Post : puts'[d] = Append(puts[d], PutPost(m)) /\ held'[d] = held[d]
    <2>1. PICK m \in Post : puts'[d] = Append(puts[d], PutPost(m)) /\ held'[d] = held[d]
        BY <1>7
    <2>2. PICK r \in Put : r = PutPost(m) /\ r # Found
        BY PutPostKind DEF Put, PutsOf
    <2>3. PICK ps \in Seq(Put) : ps = Append(qs, r)
        BY AppendProperties
    <2>4. Len(ps) = l + 1 /\ ps[l + 1] = r /\ \A i \in 1..l : ps[i] = qs[i]
        BY <1>4, <2>3, AppendProperties
    <2>5. \A i \in 1..(l + 1) : ps[i] = Found => i \in 1..l /\ qs[i] = Found
        BY <2>2, <2>4
    <2>6. puts'[d] = ps /\ held'[d] = h
        BY <1>4, <2>1, <2>2, <2>3
    <2>7. FoundFirst(d)'
        BY <1>5, <2>4, <2>5, <2>6 DEF FoundFirst
    <2>8. d = Founder => (FoundPends' => FoundPends)
        <3>1. l = 0 => ps[1] # Found
            BY <2>2, <2>4
        <3>2. l # 0 => l >= 1 /\ ps[1] = qs[1]
            BY <2>4
        <3> QED BY <1>4, <2>6, <3>1, <3>2 DEF FoundPends
    <2> QED BY <1>3, <2>7, <2>8
<1>8. CASE puts'[d] = <<>>
    <2>1. Len(<<>>) = 0
        OBVIOUS
    <2>2. FoundFirst(d)'
        BY <1>8, <2>1 DEF FoundFirst
    <2>3. d = Founder => ~FoundPends'
        BY <1>8, <2>1 DEF FoundPends
    <2> QED BY <1>3, <2>2, <2>3
<1>9. CASE \/ Shifts(d, held[d]) /\ held'[d] = 0
           \/ Shifts(d, 0) /\ held'[d] \in {held[d], held[d] + 1}
           \/ Shifts(d, 1) /\ held'[d] = held[d]
    <2>1. PICK s \in Nat : /\ Shifts(d, s) 
                           /\ s = 0 => held'[d] \in {h, h + 1, 0} 
                           /\ s = 0 /\ held'[d] = 0 => h = 0
        <3>1. CASE Shifts(d, held[d]) /\ held'[d] = 0
            BY <1>4, <3>1
        <3>2. CASE Shifts(d, 0) /\ held'[d] \in {held[d], held[d] + 1}
            <4>1. h + 1 # 0
                OBVIOUS
            <4> QED BY <1>4, <3>2, <4>1
        <3>3. CASE Shifts(d, 1) /\ held'[d] = held[d]
            BY <1>4, <3>3
        <3> QED BY <1>9, <3>1, <3>2, <3>3
    <2>2. PICK ps : ps = puts'[d]
        OBVIOUS
    <2>3. Len(ps) + s = l /\ \A k \in 1..Len(ps) : ps[k] = qs[s + k]
        BY <1>4, <2>1, <2>2 DEF Shifts, Shift
    <2>4. PICK t \in Nat : t = Len(ps)
        <3>1. ps \in Seq(Put)
            <4>1. Types'
                BY TypesStep DEF DeviceStep, Next, Submits
            <4> QED BY <1>1, <2>2, <4>1 DEF Types
        <3> QED BY <3>1, LenProperties
    <2>5. \A k \in 1..t : ps[k] = Found => s + k \in 1..l /\ qs[s + k] = Found
        BY <2>3, <2>4
    <2>6. \A k \in 1..t : ps[k] = Found => d = Founder /\ k = 1 /\ s = 0
        <3> SUFFICES ASSUME NEW k \in 1..t, ps[k] = Found
                     PROVE  d = Founder /\ k = 1 /\ s = 0
            OBVIOUS
        <3>1. d = Founder /\ s + k = 1
            BY <1>5, <2>5
        <3> QED BY <3>1
    <2>7. FoundFirst(d)'
        BY <2>2, <2>4, <2>6 DEF FoundFirst
    <2>8. d = Founder => (FoundPends' => FoundPends)
        <3> SUFFICES ASSUME d = Founder, t >= 1, ps[1] = Found, held'[d] = 0
                     PROVE  FoundPends
            BY <2>2, <2>4 DEF FoundPends
        <3>1. 1 \in 1..t
            OBVIOUS
        <3>2. s = 0 /\ h = 0
            BY <2>1, <2>6, <3>1
        <3>3. qs[1] = Found /\ l >= 1
            BY <2>3, <2>4, <3>1, <3>2
        <3> QED BY <1>4, <3>2, <3>3 DEF FoundPends
    <2> QED BY <1>3, <2>7, <2>8
<1> QED BY <1>6, <1>7, <1>8, <1>9, PutsStep

\* What a step makes of the feed.
LEMMA FeedStays ==
    ASSUME NEW d \in Device, DeviceStep(d), ~ServePut(d)
    PROVE  UNCHANGED <<feed, atRisk>>
<1>1. CASE Submits(d)
    BY <1>1 DEF Submits, SubmitNewTeam, server, history
<1>2. CASE \E key \in PushIds(d) : AddMessage(d, key)
    BY <1>2, AddsOnly
<1>3. CASE Enter(d) \/ FetchMessages(d) \/ Disconnect(d) \/ Kill(d)
    BY <1>3 DEF Enter, FetchMessages, Disconnect, Kill, server, history
<1>4. CASE Connect(d) \/ RecvInit(d) \/ RecvData(d) \/ ServeListen(d)
    BY <1>4 DEF Connect, RecvInit, RecvData, ServeListen, server, history
<1>5. CASE RecvAck(d)
    <2>1. UNCHANGED <<server, atRisk>>
        BY <1>5 DEF RecvAck
    <2> QED BY <2>1 DEF server
<1> QED BY <1>1, <1>2, <1>3, <1>4, <1>5 DEF DeviceStep, Step, Background

LEMMA FoundInPending ==
    ASSUME Types, FoundPends
    PROVE  Found \in Range(Pending(Founder))
<1>1. PICK qs \in Seq(Put) : qs = puts[Founder]
    BY FeedAssumption DEF Types
<1>2. PICK l \in Nat : l = Len(qs)
    BY LenProperties
<1>3. l >= 1 /\ qs[1] = Found /\ held[Founder] = 0
    BY <1>1, <1>2 DEF FoundPends
<1>4. PICK ps : ps = SubSeq(qs, 0 + 1, Len(qs))
    OBVIOUS
<1>5. /\ ps \in Seq(Put)
      /\ 0 <= Len(qs) => Len(ps) + 0 = Len(qs)
      /\ \A i \in 1..Len(ps) : ps[i] = qs[0 + i]
    <2>1. 0 \in Nat
        OBVIOUS
    <2> QED BY <1>4, <2>1, PendingOfSeq
<1>6. PICK t \in Nat : t = Len(ps)
    BY <1>5, LenProperties
<1>7. t = l
    BY <1>2, <1>5, <1>6
<1>8. 1 \in DOMAIN ps /\ ps[1] = Found
    <2>1. 1 \in 1..t /\ 0 + 1 = 1
        BY <1>3, <1>7
    <2> QED BY <1>3, <1>5, <1>6, <2>1, LenProperties
<1>9. ps = Pending(Founder)
    BY <1>1, <1>3, <1>4 DEF Pending
<1> QED BY <1>8, <1>9 DEF Range

LEMMA ServePutFeed ==
    ASSUME BaseInv, KeptInv, NEW d \in Device, ServePut(d)
    PROVE  \/ /\ Head(up[d]) = Found /\ d = Founder /\ FoundPends
              /\ feed' = {} /\ atRisk' = atRisk
           \/ /\ Head(up[d]) # Found /\ Head(up[d]).post \in said
              /\ feed' = feed \cup {Head(up[d]).post}
              /\ IF FoundPends THEN atRisk' = atRisk \cup {Head(up[d]).post}
                 ELSE atRisk' \in {atRisk, atRisk \cup {Head(up[d]).post}}
<1>1. Types /\ Posted /\ KeysApart
    BY DEF BaseInv, KeptInv
<1>2. PICK r : r = Head(up[d])
    OBVIOUS
<1>3. /\ up[d] # <<>> /\ r # Listen /\ feed' = Apply(feed, r)
      /\ atRisk' = IF r.kind = "post" /\ Found \in Range(Pending(Founder))
                     THEN atRisk \cup {r.post} ELSE atRisk
    <2>1. /\ up[d] # <<>> /\ Head(up[d]) # Listen /\ feed' = Apply(feed, Head(up[d]))
          /\ atRisk' = IF Head(up[d]).kind = "post" /\ Found \in Range(Pending(Founder))
                         THEN atRisk \cup {Head(up[d]).post} ELSE atRisk
        BY DEF ServePut
    <2> QED BY <1>2, <2>1
<1>4. r \in RequestsOf(said)
    <2>1. PICK us \in Seq(RequestsOf(said)) : us = up[d]
        BY <1>1 DEF Posted
    <2> QED BY <1>2, <1>3, <2>1, HeadTailProperties
<1>5. CASE r = Found
    <2>1. r.kind = "found"
        BY <1>5 DEF Found
    <2>2. feed' = {} /\ atRisk' = atRisk
        BY <1>3, <2>1 DEF Apply
    <2> QED BY <1>2, <1>3, <1>5, <2>2, FoundIsPending
<1>6. CASE r # Found
    <2>1. r.kind = "post" /\ r.post \in said
        BY <1>3, <1>4, <1>6, RequestCases
    <2>2. feed \in SUBSET said
        BY <1>1 DEF Posted
    <2>3. feed' = With(feed, r.post)
        BY <1>3, <2>1 DEF Apply
    <2>4. feed' = feed \cup {r.post}
        BY <1>1, <2>1, <2>2, <2>3, WithAdds
    <2>5. FoundPends => Found \in Range(Pending(Founder))
        BY <1>1, FoundInPending
    <2> QED BY <1>2, <1>3, <1>6, <2>1, <2>4, <2>5
<1> QED BY <1>5, <1>6

SafeNext(m) == m \in feed' \/ (m.author # Founder /\ m \in atRisk')

\* Answered, or with an answer on its way.
Firm(m) ==
    \/ m \in answered
    \/ \E x \in Device : \E n \in Nat : \E k \in 1..Len(puts[x]) :
            /\ Answers(down[x], n) /\ k <= held[x] + n
            /\ puts[x][k] # Found /\ m = puts[x][k].post

LEMMA PutIsOwn ==
    ASSUME Posted, NEW x \in Device, NEW k \in 1..Len(puts[x]), puts[x][k] # Found
    PROVE  puts[x][k].post \in said /\ puts[x][k].post.author = x
<1>1. PICK r \in PutsOf(Mine(x)) : r = puts[x][k]
    BY ElementOfSeq DEF Posted
<1>2. r \in RequestsOf(Mine(x)) /\ r # Listen
    BY CarriedBy
<1>3. r.post \in Mine(x)
    BY <1>1, <1>2, RequestCases
<1> QED BY <1>1, <1>3 DEF Mine

LEMMA FirmStays ==
    ASSUME BaseInv, KeptInv, NEW d \in Device, DeviceStep(d), NEW m, Firm(m)
    PROVE  SafeNext(m)
<1>1. Types /\ Posted
    BY DEF BaseInv
<1>2. m \in said /\ Safe(m)
    <2>1. CASE m \in answered
        BY <1>1, <2>1 DEF Types, KeptInv
    <2>2. CASE \E x \in Device : \E n \in Nat : \E k \in 1..Len(puts[x]) :
                    /\ Answers(down[x], n) /\ k <= held[x] + n
                    /\ puts[x][k] # Found /\ m = puts[x][k].post
        <3>1. PICK x \in Device, n \in Nat, k \in Nat :
                    /\ k \in 1..Len(puts[x]) /\ Answers(down[x], n) /\ k <= held[x] + n
                    /\ puts[x][k] # Found /\ m = puts[x][k].post
            BY <2>2
        <3>2. Safe(m)
            BY <3>1 DEF KeptInv, Handled
        <3> QED BY <1>1, <3>1, <3>2, PutIsOwn
    <2> QED BY <2>1, <2>2 DEF Firm
<1>3. CASE ~ServePut(d)
    BY <1>2, <1>3, FeedStays DEF Safe, SafeNext
<1>4. CASE /\ ServePut(d) /\ Head(up[d]) = Found /\ d = Founder /\ FoundPends
           /\ feed' = {} /\ atRisk' = atRisk
    <2>1. m.author # Founder
        <3>1. CASE m \in answered
            BY <1>2, <1>4, <3>1 DEF KeptInv
        <3>2. CASE \E x \in Device : \E n \in Nat : \E k \in 1..Len(puts[x]) :
                    /\ Answers(down[x], n) /\ k <= held[x] + n
                    /\ puts[x][k] # Found /\ m = puts[x][k].post
            <4>1. PICK x \in Device, n \in Nat, k \in Nat :
                        /\ k \in 1..Len(puts[x]) /\ Answers(down[x], n) /\ k <= held[x] + n
                        /\ puts[x][k] # Found /\ m = puts[x][k].post
                BY <3>2
            <4>2. m.author = x
                BY <1>1, <4>1, PutIsOwn
            <4>3. x # Founder
                <5> SUFFICES ASSUME x = Founder PROVE FALSE
                    OBVIOUS
                <5>1. up[d] # <<>>
                    BY <1>4 DEF ServePut
                <5>2. n = 0 /\ held[x] = 0
                    BY <1>4, <4>1, <5>1, FoundIsPending DEF FoundPends
                <5> QED BY <4>1, <5>2
            <4> QED BY <4>2, <4>3
        <3> QED BY <3>1, <3>2 DEF Firm
    <2>2. m \in atRisk
        BY <1>2, <1>4, <2>1 DEF KeptInv, Safe
    <2> QED BY <1>4, <2>1, <2>2 DEF SafeNext
<1>5. CASE /\ ServePut(d) /\ Head(up[d]) # Found
           /\ feed' = feed \cup {Head(up[d]).post} /\ atRisk \subseteq atRisk'
    BY <1>2, <1>5 DEF Safe, SafeNext
<1> QED BY <1>3, <1>4, <1>5, ServePutFeed

LEMMA HandledFrom ==
    ASSUME BaseInv, KeptInv, NEW d \in Device, DeviceStep(d), [Next]_vars, NEW x \in Device,
           NEW n \in Nat, Answers(down[x], n), NEW t \in Nat, Answers(down'[x], t),
           \A k \in 1..Len(puts'[x]) : k <= held'[x] + t /\ puts'[x][k] # Found =>
                \/ SafeNext(puts'[x][k].post)
                \/ \E j \in 1..Len(puts[x]) : j <= held[x] + n /\ puts[x][j] = puts'[x][k]
    PROVE  Handled(x)'
<1>1. down'[x] \in Seq(Message)
    BY TypesStep DEF Types
<1> SUFFICES ASSUME NEW v \in Nat, Answers(down'[x], v), NEW k \in 1..Len(puts'[x]),
                    k <= held'[x] + v, puts'[x][k] # Found
             PROVE  SafeNext(puts'[x][k].post)
    BY DEF Handled, Safe, SafeNext
<1>2. v = t
    BY <1>1, AnswersUnique
<1>3. CASE \E j \in 1..Len(puts[x]) : j <= held[x] + n /\ puts[x][j] = puts'[x][k]
    <2>1. PICK j \in 1..Len(puts[x]) : j <= held[x] + n /\ puts[x][j] = puts'[x][k]
        BY <1>3
    <2>0. PICK m : m = puts'[x][k].post
        OBVIOUS
    <2>2. Firm(m)
        BY <2>1, <2>0 DEF Firm
    <2>3. SafeNext(m)
        BY <2>2, FirmStays
    <2> QED BY <2>0, <2>3
<1> QED BY <1>2, <1>3

LEMMA AnswersMove ==
    ASSUME BaseInv, NEW d \in Device, DeviceStep(d), NEW n \in Nat, Answers(down[d], n)
    PROVE  /\ Disconnect(d) \/ Kill(d) => Answers(down'[d], 0)
           /\ RecvAck(d) => n > 0 /\ Answers(down'[d], n - 1)
           /\ ServePut(d) => Answers(down'[d], n + 1)
           /\ (\E key \in PushIds(d) : AddMessage(d, key)) => Answers(down'[d], n)
           /\ RecvInit(d) => Answers(down'[d], n)
           /\ \/ Disconnect(d) \/ Kill(d) \/ RecvAck(d) \/ ServePut(d)
              \/ Answers(down'[d], n)
<1>1. Types /\ down[d] \in Seq(Message)
    BY DEF BaseInv, Types
<1>2. ASSUME Disconnect(d) \/ Kill(d) PROVE Answers(down'[d], 0)
    <2>1. down'[d] = <<>>
        BY <1>1, <1>2 DEF Disconnect, Kill, Drop, Types
    <2> QED BY <1>2, <2>1, AnswersEmpty
<1>3. ASSUME RecvAck(d) PROVE n > 0 /\ Answers(down'[d], n - 1)
    <2>1. Receive(d, "ack")
        BY <1>3 DEF RecvAck
    <2>2. down[d] # <<>> /\ Head(down[d]).kind = "ack" /\ down'[d] = Tail(down[d])
        BY <1>1, <2>1 DEF Receive, Types
    <2> QED BY <1>1, <1>3, <2>2, AnswersTail
<1>4. ASSUME ServePut(d) PROVE Answers(down'[d], n + 1)
    <2>1. PICK r \in Put : r = Head(up[d]) /\ down'[d] = Append(Told(d, News(r)), Ack)
        BY <1>1, <1>4, ServedDown
    <2>2. PICK t \in Seq(Message) : t = Told(d, News(r)) /\ Answers(t, n)
        BY ToldStep
    <2>3. Answers(Append(t, Ack), IF Ack.kind = "ack" THEN n + 1 ELSE n)
        BY <2>2, AckType, AnswersAppend
    <2> QED BY <1>4, <2>1, <2>2, <2>3, AckType
<1>5. ASSUME \/ Submits(d) \/ Enter(d) \/ FetchMessages(d) \/ Connect(d)
             \/ \E key \in PushIds(d) : AddMessage(d, key)
             \/ RecvInit(d) \/ RecvData(d) \/ ServeListen(d)
      PROVE  Answers(down'[d], n)
    <2>1. CASE Submits(d) \/ Enter(d) \/ FetchMessages(d) \/ Connect(d)
        <3>1. down' = down
            BY <2>1 DEF Submits, SubmitNewTeam, Enter, FetchMessages, Connect, wire
        <3> QED BY <3>1
    <2>2. CASE \E key \in PushIds(d) : AddMessage(d, key)
        <3>1. down' = down
            BY <2>2, AddsOnly
        <3> QED BY <3>1
    <2>3. CASE RecvInit(d) \/ RecvData(d)
        <3>1. /\ down[d] # <<>> /\ Head(down[d]).kind # "ack" /\ down'[d] = Tail(down[d])
            BY <1>1, <2>3 DEF RecvInit, RecvData, Receive, Types
        <3> QED BY <1>1, <3>1, AnswersTail
    <2>4. CASE ServeListen(d)
        <3>1. PICK m : m = [kind |-> "init", feed |-> feed] /\ down'[d] = Append(down[d], m)
            BY <1>1, <2>4 DEF ServeListen, Types
        <3>2. m \in Message /\ m.kind # "ack"
            BY <1>1, <3>1 DEF Types, Message, MessagesOf
        <3>3. Answers(Append(down[d], m), IF m.kind = "ack" THEN n + 1 ELSE n)
            BY <1>1, <3>2, AnswersAppend
        <3> QED BY <3>1, <3>2, <3>3
    <2> QED BY <1>5, <2>1, <2>2, <2>3, <2>4
<1> QED BY <1>2, <1>3, <1>4, <1>5 DEF DeviceStep, Step, Background

LEMMA HandledOthers ==
    ASSUME BaseInv, KeptInv, NEW d \in Device, DeviceStep(d), [Next]_vars,
           NEW x \in Device, x # d
    PROVE  Handled(x)'
<1>1. Types /\ Fifo(x)
    BY DEF BaseInv
<1>2. PICK n \in Nat : Answers(down[x], n)
    BY <1>1 DEF Fifo
<1>3. puts'[x] = puts[x] /\ held'[x] = held[x]
    BY <1>1, OthersStay
<1>4. Answers(down'[x], n)
    <2>1. CASE down'[x] = down[x]
        BY <1>2, <2>1
    <2>2. CASE ServePut(d) /\ down'[x] = Told(x, News(Head(up[d])))
        <3>1. Head(up[d]) \in Put
            BY <1>1, <2>2, ServedDown
        <3> QED BY <1>2, <2>2, <3>1, ToldStep
    <2> QED BY <1>1, <2>1, <2>2, OthersStay
<1> QED BY <1>2, <1>3, <1>4, HandledFrom

LEMMA HandledOwn ==
    ASSUME BaseInv, KeptInv, NEW d \in Device, DeviceStep(d), [Next]_vars
    PROVE  Handled(d)'
<1>1. Types /\ Fifo(d) /\ Resting(d)
    BY DEF BaseInv
<1>2. PICK n \in Nat : /\ Answers(down[d], n) /\ held[d] + n <= Len(puts[d])
                       /\ online[d] => InFlight(up[d], puts[d], held[d] + n)
    BY <1>1 DEF Fifo
<1>3. PICK qs \in Seq(Put), h \in Nat, l \in Nat : qs = puts[d] /\ h = held[d] /\ l = Len(qs)
    BY <1>1, LenProperties DEF Types
<1>4. PICK ps : ps = puts'[d]
    OBVIOUS
<1>5. ASSUME NEW t \in Nat, Answers(down'[d], t),
             \A k \in 1..Len(ps) : k <= held'[d] + t /\ ps[k] # Found =>
                  SafeNext(ps[k].post) \/ \E j \in 1..l : j <= h + n /\ qs[j] = ps[k]
      PROVE  Handled(d)'
    BY <1>2, <1>3, <1>4, <1>5, HandledFrom
<1>6. CASE Submits(d) /\ puts[d] = <<>> /\ puts'[d] = Append(puts[d], Found)
    <2>1. ps = <<Found>> /\ Len(<<Found>>) = 1 /\ <<Found>>[1] = Found
        BY <1>4, <1>6
    <2> QED BY <1>4, <2>1 DEF Handled
<1>7. CASE /\ \E key \in PushIds(d) : AddMessage(d, key)
           /\ \E m \in Post : puts'[d] = Append(puts[d], PutPost(m))
           /\ held'[d] = held[d]
    <2>1. PICK m \in Post : puts'[d] = Append(puts[d], PutPost(m))
        BY <1>7
    <2>2. PICK r \in Put : r = PutPost(m)
        BY DEF Put, PutsOf
    <2>3. Len(ps) = l + 1 /\ \A i \in 1..l : ps[i] = qs[i]
        BY <1>3, <1>4, <2>1, <2>2, AppendProperties
    <2>4. Answers(down'[d], n)
        BY <1>2, <1>7, AnswersMove
    <2>5. ASSUME NEW k \in 1..Len(ps), k <= held'[d] + n
          PROVE  \E j \in 1..l : j <= h + n /\ qs[j] = ps[k]
        <3>1. k \in 1..l /\ k <= h + n
            BY <1>2, <1>3, <1>7, <2>3, <2>5
        <3> QED BY <2>3, <3>1
    <2> QED BY <1>5, <2>4, <2>5
<1>8. CASE puts'[d] = <<>>
    <2>1. Len(<<>>) = 0
        OBVIOUS
    <2> QED BY <1>8, <2>1 DEF Handled
<1>9. ASSUME NEW s \in Nat, Shifts(d, s), NEW t \in Nat, Answers(down'[d], t), NEW g \in Nat,
             g = held'[d], s + g + t <= h + n
      PROVE  Handled(d)'
    <2>1. Len(ps) + s = l /\ \A k \in 1..Len(ps) : ps[k] = qs[s + k]
        BY <1>3, <1>4, <1>9 DEF Shifts, Shift
    <2>2. ASSUME NEW k \in 1..Len(ps), k <= g + t
          PROVE  \E j \in 1..l : j <= h + n /\ qs[j] = ps[k]
        <3>1. Len(ps) \in Nat
            <4>1. Types'
                BY TypesStep
            <4> QED BY <1>4, <4>1, LenProperties DEF Types
        <3>2. PICK e \in Nat : e = Len(ps) /\ k \in 1..e /\ e + s = l
            BY <2>1, <2>2, <3>1
        <3>3. PICK j \in Nat : j = s + k
            BY <3>2
        <3>4. j \in 1..l
            BY <3>2, <3>3
        <3>5. s + k <= s + g + t
            BY <2>2, <3>2
        <3>6. j <= h + n
            <4>1. PICK y \in Nat, z \in Nat : y = s + g + t /\ z = h + n
                BY <1>3, <1>9
            <4>2. y <= z /\ j <= y
                BY <1>9, <3>3, <3>5, <4>1
            <4>3. j <= z
                BY <4>2
            <4> QED BY <4>1, <4>3
        <3>7. ps[k] = qs[j]
            BY <2>1, <3>3
        <3> QED BY <3>4, <3>6, <3>7
    <2> QED BY <1>5, <1>9, <2>2
<1>10. CASE RecvInit(d) /\ Shifts(d, held[d]) /\ held'[d] = 0
    <2>1. Answers(down'[d], n)
        BY <1>2, <1>10, AnswersMove
    <2> QED BY <1>3, <1>9, <1>10, <2>1
<1>11. CASE RecvAck(d) /\ Shifts(d, 0) /\ held'[d] = held[d] + 1
    <2>1. PICK t \in Nat : n = t + 1 /\ Answers(down'[d], t)
        <3>1. n > 0 /\ Answers(down'[d], n - 1)
            BY <1>2, <1>11, AnswersMove
        <3>2. n - 1 \in Nat /\ n = (n - 1) + 1
            BY <3>1
        <3> QED BY <3>1, <3>2
    <2>2. 0 + (h + 1) + t <= h + n
        BY <2>1
    <2> QED BY <1>3, <1>9, <1>11, <2>1, <2>2
<1>12. CASE RecvAck(d) /\ Shifts(d, 1) /\ held'[d] = held[d]
    <2>1. PICK t \in Nat : n = t + 1 /\ Answers(down'[d], t)
        <3>1. n > 0 /\ Answers(down'[d], n - 1)
            BY <1>2, <1>12, AnswersMove
        <3>2. n - 1 \in Nat /\ n = (n - 1) + 1
            BY <3>1
        <3> QED BY <3>1, <3>2
    <2>2. 1 + h + t <= h + n
        BY <2>1
    <2> QED BY <1>3, <1>9, <1>12, <2>1, <2>2
<1>13. CASE Shifts(d, 0) /\ held'[d] = held[d] /\ puts'[d] = puts[d]
    <2>1. CASE Disconnect(d) \/ Kill(d)
        <3>1. Answers(down'[d], 0)
            BY <1>2, <2>1, AnswersMove
        <3>2. 0 + h + 0 <= h + n
            OBVIOUS
        <3> QED BY <1>3, <1>9, <1>13, <3>1, <3>2
    <2>2. CASE Answers(down'[d], n)
        <3>1. 0 + h + n <= h + n
            OBVIOUS
        <3> QED BY <1>3, <1>9, <1>13, <2>2, <3>1
    <2>3. CASE RecvAck(d)
        <3>1. n > 0 /\ Answers(down'[d], n - 1)
            BY <1>2, <2>3, AnswersMove
        <3>2. n - 1 \in Nat /\ 0 + h + (n - 1) <= h + n
            BY <3>1
        <3> QED BY <1>3, <1>9, <1>13, <3>1, <3>2
    <2>4. CASE ServePut(d)
        <3>1. Answers(down'[d], n + 1)
            BY <1>2, <2>4, AnswersMove
        <3>2. PICK a \in Nat : a = h + n
            OBVIOUS
        <3>3. /\ up[d] \in Seq(Request) /\ up[d] # <<>> /\ Head(up[d]) # Listen
            BY <1>1, <2>4 DEF Types, ServePut
        <3>4. a \in 0..l /\ InFlight(up[d], qs, a)
            BY <1>1, <1>2, <1>3, <3>2, <3>3 DEF Resting
        <3>5. Head(up[d]) = qs[a + 1]
            BY <1>3, <3>3, <3>4, InFlightServe
        <3>6. qs[a + 1] # Found => SafeNext(qs[a + 1].post)
            BY <2>4, <3>5, ServePutFeed DEF SafeNext
        <3>7. ps = qs /\ held'[d] = h
            BY <1>3, <1>4, <1>13
        <3>8. ASSUME NEW k \in 1..Len(ps), k <= held'[d] + (n + 1), ps[k] # Found
              PROVE  SafeNext(ps[k].post) \/ \E j \in 1..l : j <= h + n /\ qs[j] = ps[k]
            <4>1. k \in 1..l /\ (k = a + 1 \/ k <= h + n)
                <5>1. k \in 1..l
                    BY <1>3, <3>7, <3>8
                <5>2. k <= h + (n + 1)
                    BY <3>7, <3>8
                <5> QED BY <3>2, <5>1, <5>2
            <4>2. CASE k = a + 1
                BY <3>6, <3>7, <3>8, <4>2
            <4>3. CASE k <= h + n
                BY <3>7, <4>1, <4>3
            <4> QED BY <4>1, <4>2, <4>3
        <3>9. n + 1 \in Nat
            OBVIOUS
        <3> QED BY <1>5, <3>1, <3>8, <3>9
    <2> QED BY <1>2, <2>1, <2>2, <2>3, <2>4, AnswersMove
<1> QED BY <1>6, <1>7, <1>8, <1>10, <1>11, <1>12, <1>13, PutsStep

LEMMA KeptStep ==
    ASSUME BaseInv, KeptInv, NEW d \in Device, DeviceStep(d), [Next]_vars
    PROVE  KeptInv'
<1>1. Types /\ Posted /\ NotYet /\ Fifo(d)
    BY DEF BaseInv
<1>2. KeysApart'
    BY ApartStep DEF KeptInv
<1>3. ASSUME NEW x \in Device PROVE FoundFirst(x)' /\ Handled(x)'
    <2>1. CASE x = d
        BY <2>1, FoundStep, HandledOwn
    <2>2. CASE x # d
        <3>1. puts'[x] = puts[x]
            BY <1>1, <2>2, OthersStay
        <3>2. FoundFirst(x)'
            BY <3>1 DEF KeptInv, FoundFirst
        <3> QED BY <2>2, <3>2, HandledOthers
    <2> QED BY <2>1, <2>2
<1>4. \/ answered' = answered
      \/ /\ RecvAck(d)
         /\ answered' = answered \cup IF puts[d][held[d] + 1] = Found THEN {}
                                      ELSE {puts[d][held[d] + 1].post}
    <2>1. CASE RecvAck(d)
        BY <2>1, AckAnswers
    <2>2. CASE \E key \in PushIds(d) : AddMessage(d, key)
        BY <2>2, AddsOnly
    <2>3. CASE Submits(d) \/ Enter(d) \/ FetchMessages(d) \/ Disconnect(d) \/ Kill(d)
        BY <2>3 DEF Submits, SubmitNewTeam, Enter, FetchMessages, Disconnect, Kill, history
    <2>4. CASE Connect(d) \/ RecvInit(d) \/ RecvData(d) \/ ServeListen(d)
        BY <2>4 DEF Connect, RecvInit, RecvData, ServeListen, history
    <2>5. CASE ServePut(d)
        <3>1. answered' = answered
            BY <2>5 DEF ServePut
        <3> QED BY <3>1
    <2> QED BY <2>1, <2>2, <2>3, <2>4, <2>5 DEF DeviceStep, Step, Background
<1>5. ASSUME NEW m \in answered' PROVE Safe(m)'
    <2>1. Firm(m)
        <3>1. CASE m \in answered
            BY <3>1 DEF Firm
        <3>2. CASE m \notin answered
            <4>1. RecvAck(d) /\ puts[d][held[d] + 1] # Found /\ m = puts[d][held[d] + 1].post
                BY <1>4, <1>5, <3>2
            <4>2. PICK n \in Nat : Answers(down[d], n)
                BY <1>1 DEF Fifo
            <4>3. n > 0
                BY <4>1, <4>2, AnswersMove
            <4>4. held[d] + 1 \in 1..Len(puts[d]) /\ held[d] \in Nat
                BY <1>1, <4>1, AckAnswers DEF Types
            <4>5. held[d] + 1 <= held[d] + n
                BY <4>3, <4>4
            <4> QED BY <4>1, <4>2, <4>4, <4>5 DEF Firm
        <3> QED BY <3>1, <3>2
    <2>2. SafeNext(m)
        BY <2>1, FirmStays
    <2> QED BY <2>2 DEF Safe, SafeNext
<1>6. ASSUME FoundPends', NEW m \in said'
      PROVE  IF m.author = Founder THEN m \notin answered' ELSE m \in feed' => m \in atRisk'
    <2>1. CASE Submits(d)
        <3>1. ~made /\ UNCHANGED <<said, feed, answered>>
            BY <2>1 DEF Submits, SubmitNewTeam, server, history
        <3> QED BY <1>1, <1>6, <3>1 DEF NotYet
    <2>2. CASE ~Submits(d)
        <3>1. FoundPends
            BY <1>6, <2>2, FoundStep
        <3>2. ASSUME m.author = Founder PROVE m \notin answered'
            <4>1. m \notin answered
                <5>1. m \in said => m \notin answered
                    BY <3>1, <3>2 DEF KeptInv
                <5> QED BY <1>1, <5>1 DEF Types
            <4>2. ASSUME RecvAck(d), puts[d][held[d] + 1] # Found, m = puts[d][held[d] + 1].post
                  PROVE  FALSE
                <5>1. held[d] + 1 \in 1..Len(puts[d])
                    BY <4>2, AckAnswers
                <5>2. d = Founder
                    BY <1>1, <3>2, <4>2, <5>1, PutIsOwn
                <5> QED BY <3>1, <4>2, <5>2 DEF FoundPends
            <4> QED BY <1>4, <4>1, <4>2
        <3>3. ASSUME m.author # Founder, m \in feed' PROVE m \in atRisk'
            <4>1. m \in feed => m \in atRisk
                <5>1. m \in feed => m \in said
                    BY <1>1 DEF Posted
                <5> QED BY <3>1, <3>3, <5>1 DEF KeptInv
            <4>2. CASE ServePut(d)
                BY <3>1, <3>3, <4>1, <4>2, ServePutFeed
            <4>3. CASE ~ServePut(d)
                BY <3>3, <4>1, <4>3, FeedStays
            <4> QED BY <4>2, <4>3
        <3> QED BY <3>2, <3>3
    <2> QED BY <2>1, <2>2
<1> QED BY <1>2, <1>3, <1>5, <1>6 DEF KeptInv

LEMMA KeptInit == Init => KeptInv
<1> SUFFICES ASSUME Init PROVE KeptInv
    OBVIOUS
<1>1. /\ said = {} /\ answered = {} /\ \A d \in Device : lastPush[d] = NoPush /\ puts[d] = <<>>
    BY DEF Init
<1>2. Len(<<>>) = 0 /\ Founder \in Device
    BY FeedAssumption
<1>3. KeysApart
    BY <1>1 DEF KeysApart
<1>4. \A d \in Device : FoundFirst(d) /\ Handled(d)
    BY <1>1, <1>2 DEF FoundFirst, Handled
<1> QED BY <1>1, <1>3, <1>4 DEF KeptInv

LEMMA KeptNext ==
    ASSUME BaseInv, KeptInv, [Next]_vars
    PROVE  KeptInv'
<1>1. CASE \E d \in Device : DeviceStep(d)
    BY <1>1, KeptStep
<1>2. CASE Tick \/ UNCHANGED vars
    <2>1. UNCHANGED <<lastPush, feed, down, puts, held, said, answered, atRisk>>
        BY <1>2 DEF Tick, vars, clock, server, wire, client, history
    <2>2. KeysApart' /\ (FoundPends' => FoundPends)
        BY <2>1 DEF KeptInv, KeysApart, FoundPends
    <2>3. \A d \in Device : FoundFirst(d)' /\ Handled(d)'
        BY <2>1 DEF KeptInv, FoundFirst, Handled, Safe
    <2> QED BY <2>1, <2>2, <2>3 DEF KeptInv, Safe
<1> QED BY <1>1, <1>2, NextCases

\* A post whose author has the answer is in the feed, or another device's
\* that was there before the founder had the answer to the creation.
THEOREM PostsKeptCorrect == Spec => []PostsKept
<1>1. KeptInv => PostsKept
    BY DEF KeptInv, PostsKept, Safe
<1> QED BY <1>1, KeptInit, KeptNext, BaseInvAlways, PTL DEF Spec

-----------------------------------------------------------------------------
(* What the cache becomes once all that is under way has arrived.          *)

Taken(c, m) ==
    IF Whole(m) THEN m.feed ELSE IF m.kind = "add" THEN With(c, m.post) ELSE c

\* From the j-th message on, which is a complete feed unless j is 0.
Plays(s, j, msgs, c, f) ==
    /\ IF j = 0 THEN s[0] = c ELSE Whole(msgs[j]) /\ s[j] = msgs[j].feed
    /\ s[Len(msgs)] = f
    /\ \A i \in (j + 1)..Len(msgs) : s[i] = Taken(s[i - 1], msgs[i])
Replay(msgs, c, f) == \E j \in 0..Len(msgs) : \E s : Plays(s, j, msgs, c, f)

LEMMA ReplayNone ==
    ASSUME NEW c, NEW f, Replay(<<>>, c, f)
    PROVE  c = f
<1>1. Len(<<>>) = 0
    OBVIOUS
<1>2. PICK s : Plays(s, 0, <<>>, c, f)
    BY <1>1 DEF Replay
<1> QED BY <1>1, <1>2 DEF Plays

LEMMA ReplayAppend ==
    ASSUME NEW msgs \in Seq(Message), NEW m \in Message, NEW c, NEW f, Replay(msgs, c, f)
    PROVE  Replay(Append(msgs, m), c, Taken(f, m))
<1>1. PICK l \in Nat : l = Len(msgs)
    BY LenProperties
<1>2. PICK q \in Seq(Message) : q = Append(msgs, m)
    BY AppendProperties
<1>3. Len(q) = l + 1 /\ q[l + 1] = m /\ \A i \in 1..l : q[i] = msgs[i]
    BY <1>1, <1>2, AppendProperties
<1>4. PICK j \in 0..l : \E s : Plays(s, j, msgs, c, f)
    BY <1>1 DEF Replay
<1>5. PICK s : Plays(s, j, msgs, c, f)
    BY <1>4
<1>6. /\ IF j = 0 THEN s[0] = c ELSE Whole(msgs[j]) /\ s[j] = msgs[j].feed
      /\ s[l] = f /\ \A i \in (j + 1)..l : s[i] = Taken(s[i - 1], msgs[i])
    BY <1>1, <1>5 DEF Plays
<1>7. PICK g : g = Taken(f, m)
    OBVIOUS
<1> DEFINE b == [i \in 0..(l + 1) |-> IF i = l + 1 THEN g ELSE s[i]]
<1>8. b[l + 1] = g /\ \A i \in 0..l : b[i] = s[i]
    OBVIOUS
<1> HIDE DEF b
<1>9. IF j = 0 THEN b[0] = c ELSE Whole(q[j]) /\ b[j] = q[j].feed
    <2>1. CASE j = 0
        BY <1>6, <1>8, <2>1
    <2>2. CASE j # 0
        <3>1. j \in 1..l
            BY <2>2
        <3> QED BY <1>3, <1>6, <1>8, <2>2, <3>1
    <2> QED BY <2>1, <2>2
<1>10. ASSUME NEW i \in (j + 1)..(l + 1) PROVE b[i] = Taken(b[i - 1], q[i])
    <2>1. CASE i = l + 1
        <3>1. i - 1 = l /\ l \in 0..l
            BY <2>1
        <3> QED BY <1>3, <1>6, <1>7, <1>8, <2>1, <3>1
    <2>2. CASE i \in (j + 1)..l
        <3>1. i \in 1..l /\ i - 1 \in 0..l /\ i \in 0..l
            BY <2>2
        <3> QED BY <1>3, <1>6, <1>8, <2>2, <3>1
    <2> QED BY <2>1, <2>2
<1>11. Plays(b, j, q, c, g) /\ j \in 0..(l + 1)
    BY <1>3, <1>8, <1>9, <1>10 DEF Plays
<1> QED BY <1>2, <1>3, <1>7, <1>11 DEF Replay

LEMMA ReplayWhole ==
    ASSUME NEW msgs \in Seq(Message), NEW m \in Message, NEW c, Whole(m)
    PROVE  Replay(Append(msgs, m), c, m.feed)
<1>1. PICK l \in Nat : l = Len(msgs)
    BY LenProperties
<1>2. PICK q \in Seq(Message) : q = Append(msgs, m)
    BY AppendProperties
<1>3. Len(q) = l + 1 /\ q[l + 1] = m
    BY <1>1, <1>2, AppendProperties
<1> DEFINE b == [i \in 0..(l + 1) |-> m.feed]
<1>4. b[l + 1] = m.feed
    OBVIOUS
<1> HIDE DEF b
<1>5. Plays(b, l + 1, q, c, m.feed)
    <2>1. l + 1 # 0 /\ \A i \in ((l + 1) + 1)..(l + 1) : FALSE
        OBVIOUS
    <2> QED BY <1>3, <1>4, <2>1 DEF Plays
<1>6. l + 1 \in 0..(l + 1)
    OBVIOUS
<1> QED BY <1>2, <1>3, <1>5, <1>6 DEF Replay

LEMMA ReplayTail ==
    ASSUME NEW msgs \in Seq(Message), msgs # <<>>, NEW c, NEW f, Replay(msgs, c, f)
    PROVE  Replay(Tail(msgs), Taken(c, Head(msgs)), f)
<1>1. PICK l \in Nat : Len(msgs) = l + 1
    <2>1. Len(msgs) \in Nat \ {0}
        BY EmptySeq
    <2>2. Len(msgs) - 1 \in Nat /\ Len(msgs) = (Len(msgs) - 1) + 1
        BY <2>1
    <2> QED BY <2>2
<1>2. PICK q \in Seq(Message) : q = Tail(msgs)
    BY HeadTailProperties
<1>3. Len(q) = l /\ (\A i \in 1..l : q[i] = msgs[i + 1]) /\ Head(msgs) = msgs[1]
    BY <1>1, <1>2, HeadTailProperties
<1>4. PICK j \in 0..(l + 1) : \E s : Plays(s, j, msgs, c, f)
    BY <1>1 DEF Replay
<1>5. PICK s : Plays(s, j, msgs, c, f)
    BY <1>4
<1>6. /\ IF j = 0 THEN s[0] = c ELSE Whole(msgs[j]) /\ s[j] = msgs[j].feed
      /\ s[l + 1] = f /\ \A i \in (j + 1)..(l + 1) : s[i] = Taken(s[i - 1], msgs[i])
    BY <1>1, <1>5 DEF Plays
<1>7. PICK g : g = Taken(c, Head(msgs))
    OBVIOUS
<1> DEFINE b == [i \in 0..l |-> s[i + 1]]
<1>8. \A i \in 0..l : b[i] = s[i + 1]
    OBVIOUS
<1> HIDE DEF b
<1>9. ASSUME NEW i \in 1..l, i + 1 \in (j + 1)..(l + 1) PROVE b[i] = Taken(b[i - 1], q[i])
    <2>1. i - 1 \in 0..l /\ i \in 0..l /\ (i - 1) + 1 = i /\ (i + 1) - 1 = i
        OBVIOUS
    <2> QED BY <1>3, <1>6, <1>8, <1>9, <2>1
<1>10. b[l] = f
    BY <1>6, <1>8
<1>11. CASE j \in {0, 1}
    <2>1. s[1] = g
        <3>1. CASE j = 0
            <4>1. 1 \in (j + 1)..(l + 1) /\ 1 - 1 = 0
                BY <3>1
            <4> QED BY <1>3, <1>6, <1>7, <3>1, <4>1
        <3>2. CASE j = 1
            BY <1>3, <1>6, <1>7, <3>2 DEF Taken
        <3> QED BY <1>11, <3>1, <3>2
    <2>2. b[0] = g
        BY <1>8, <2>1
    <2>3. \A i \in (0 + 1)..l : b[i] = Taken(b[i - 1], q[i])
        <3> SUFFICES ASSUME NEW i \in 1..l PROVE b[i] = Taken(b[i - 1], q[i])
            OBVIOUS
        <3>1. i + 1 \in (j + 1)..(l + 1)
            BY <1>11
        <3> QED BY <1>9, <3>1
    <2>4. Plays(b, 0, q, g, f) /\ 0 \in 0..l
        BY <1>3, <1>10, <2>2, <2>3 DEF Plays
    <2> QED BY <1>2, <1>3, <1>7, <2>4 DEF Replay
<1>12. CASE j \notin {0, 1}
    <2>1. PICK t \in 1..l : j = t + 1
        <3>1. j - 1 \in 1..l /\ j = (j - 1) + 1
            BY <1>12
        <3> QED BY <3>1
    <2>2. Whole(q[t]) /\ b[t] = q[t].feed
        BY <1>3, <1>6, <1>8, <2>1
    <2>3. \A i \in (t + 1)..l : b[i] = Taken(b[i - 1], q[i])
        <3> SUFFICES ASSUME NEW i \in (t + 1)..l PROVE b[i] = Taken(b[i - 1], q[i])
            OBVIOUS
        <3>1. i \in 1..l /\ i + 1 \in (j + 1)..(l + 1)
            BY <2>1
        <3> QED BY <1>9, <3>1
    <2>4. Plays(b, t, q, g, f) /\ t \in 0..l
        BY <1>3, <1>10, <2>2, <2>3 DEF Plays
    <2> QED BY <1>2, <1>3, <1>7, <2>4 DEF Replay
<1> QED BY <1>11, <1>12

LEMMA TakenNews ==
    ASSUME NEW r \in Put, NEW f
    PROVE  Taken(f, News(r)) = Apply(f, r) /\ Taken(f, Ack) = f
<1>1. Taken(f, Ack) = f
    BY DEF Taken, Whole, Ack
<1>2. CASE r = Found
    <2>1. r.kind = "found"
        BY <1>2 DEF Found
    <2> QED BY <1>1, <1>2, <2>1 DEF Taken, News, Apply, Whole
<1>3. CASE r # Found
    <2>1. r.kind = "post"
        BY <1>3, PutCases
    <2> QED BY <1>1, <1>3, <2>1 DEF Taken, News, Apply, Whole
<1> QED BY <1>2, <1>3

\* An answer waits only for that of a listen, and who listens is told all.
HeldWaits(d) == held[d] # 0 => opened[d] /\ (online[d] => AwaitsListen(d))
CatchesUp(d) == Heard(d) => Replay(down[d], cache[d], feed)

SettleInv == \A d \in Device : HeldWaits(d) /\ CatchesUp(d)

\* What keeps a listen on its way.
LEMMA AwaitsKept ==
    ASSUME BaseInv, NEW d \in Device, DeviceStep(d), NEW x \in Device, AwaitsListen(x),
           x # d \/ ~(Disconnect(d) \/ Kill(d) \/ Connect(d) \/ RecvInit(d))
    PROVE  AwaitsListen(x)'
<1>1. Types /\ up[x] \in Seq(Request) /\ down[x] \in Seq(Message)
    BY DEF BaseInv, Types
<1>2. CASE x # d
    <2>1. up'[x] = up[x] /\ (\/ down'[x] = down[x]
                             \/ ServePut(d) /\ down'[x] = Told(x, News(Head(up[d]))))
        BY <1>1, <1>2, OthersStay
    <2>2. Range(down[x]) \subseteq Range(down'[x])
        <3>1. CASE down'[x] = down[x]
            BY <3>1
        <3>2. CASE ServePut(d) /\ down'[x] = Told(x, News(Head(up[d])))
            <4>1. News(Head(up[d])) \in Message
                BY <1>1, <3>2, ServedDown, NewsType
            <4> QED BY <1>1, <3>2, <4>1, RangeAppend DEF Told
        <3> QED BY <2>1, <3>1, <3>2
    <2> QED BY <2>1, <2>2 DEF AwaitsListen
<1>3. ASSUME x = d, Range(up[d]) \subseteq Range(up'[d]), Range(down[d]) \subseteq Range(down'[d])
      PROVE  AwaitsListen(x)'
    BY <1>3 DEF AwaitsListen
<1>4. CASE x = d /\ Submits(d)
    <2>1. /\ down' = down
          /\ up' = IF online[d] THEN [up EXCEPT ![d] = Append(@, Found)] ELSE up
        BY <1>4 DEF Submits, SubmitNewTeam, SetValue
    <2>2. up'[d] = IF online[d] THEN Append(up[d], Found) ELSE up[d]
        BY <1>1, <2>1 DEF Types
    <2>3. Found \in Request
        BY CarriedBy DEF Request
    <2> QED BY <1>1, <1>3, <1>4, <2>1, <2>2, <2>3, RangeAppend
<1>5. CASE x = d /\ \E key \in PushIds(d) : AddMessage(d, key)
    <2>1. PICK key \in PushIds(d) : AddMessage(d, key)
        BY <1>5
    <2>2. PICK m \in Post : m = NewPost(d, key)
        BY <2>1, AddsCount DEF BaseInv
    <2>3. up' = IF online[d] THEN [up EXCEPT ![d] = Append(@, PutPost(m))] ELSE up
        <3>1. \E p : /\ p = NewPost(d, key)
                     /\ up' = IF online[d] THEN [up EXCEPT ![d] = Append(@, PutPost(p))] ELSE up
            BY <2>1, AddsPost
        <3> QED BY <2>2, <3>1
    <2>4. PutPost(m) \in Request
        BY CarriedBy DEF Request, RequestsOf
    <2>5. up'[d] = IF online[d] THEN Append(up[d], PutPost(m)) ELSE up[d]
        BY <1>1, <2>3 DEF Types
    <2>6. down' = down
        BY <2>1, AddsOnly
    <2> QED BY <1>1, <1>3, <1>5, <2>4, <2>5, <2>6, RangeAppend
<1>6. CASE x = d /\ Enter(d)
    BY <1>3, <1>6 DEF Enter, wire
<1>7. CASE x = d /\ FetchMessages(d)
    <2>1. down' = down /\ up'[d] = IF online[d] THEN Append(up[d], Listen) ELSE up[d]
        BY <1>1, <1>7 DEF FetchMessages, Types
    <2>2. Listen \in Request
        BY RequestIsPut
    <2> QED BY <1>1, <1>3, <1>7, <2>1, <2>2, RangeAppend
<1>8. CASE x = d /\ (RecvData(d) \/ RecvAck(d))
    <2>1. \/ Receive(d, "feed") \/ Receive(d, "add") \/ Receive(d, "ack")
        BY <1>8 DEF RecvData, RecvAck
    <2>2. /\ down[d] # <<>> /\ Head(down[d]).kind # "init" /\ down'[d] = Tail(down[d])
        BY <1>1, <2>1 DEF Receive, Types
    <2>3. up' = up
        BY <1>8 DEF RecvData, RecvAck
    <2>4. Range(down[d]) = {Head(down[d])} \cup Range(down'[d])
        BY <1>1, <1>8, <2>2, RangeTail
    <2> QED BY <1>8, <2>2, <2>3, <2>4 DEF AwaitsListen
<1>9. CASE x = d /\ ServeListen(d)
    <2>1. PICK m : m = [kind |-> "init", feed |-> feed] /\ down'[d] = Append(down[d], m)
        BY <1>1, <1>9 DEF ServeListen, Types
    <2>2. m \in Message /\ m.kind = "init"
        BY <1>1, <2>1 DEF Types, Message, MessagesOf
    <2>3. m \in Range(down'[d])
        BY <1>1, <1>9, <2>1, <2>2, RangeAppend
    <2> QED BY <1>9, <2>2, <2>3 DEF AwaitsListen
<1>10. CASE x = d /\ ServePut(d)
    <2>1. PICK r \in Put : r = Head(up[d]) /\ down'[d] = Append(Told(d, News(r)), Ack)
        BY <1>1, <1>10, ServedDown
    <2>2. PICK m \in Message : m = News(r)
        BY NewsType
    <2>3. PICK t \in Seq(Message) : t = Told(d, m)
        BY <1>1, <1>10, <2>1, <2>2, ServedDown
    <2>4. Range(down[d]) \subseteq Range(t)
        BY <1>1, <1>10, <2>2, <2>3, RangeAppend DEF Told
    <2>5. Range(t) \subseteq Range(down'[d])
        BY <2>1, <2>2, <2>3, AckType, RangeAppend
    <2>6. /\ up[d] # <<>> /\ Head(up[d]) # Listen /\ up'[d] = Tail(up[d])
        <3>1. up[d] # <<>> /\ Head(up[d]) # Listen /\ up' = [up EXCEPT ![d] = Tail(@)]
            BY <1>10 DEF ServePut
        <3> QED BY <1>1, <3>1 DEF Types
    <2>7. Range(up[d]) = {Head(up[d])} \cup Range(up'[d])
        BY <1>1, <1>10, <2>6, RangeTail
    <2> QED BY <1>10, <2>4, <2>5, <2>6, <2>7 DEF AwaitsListen
<1> QED BY <1>2, <1>4, <1>5, <1>6, <1>7, <1>8, <1>9, <1>10 DEF DeviceStep, Step, Background

LEMMA HeldStep ==
    ASSUME BaseInv, SettleInv, NEW d \in Device, DeviceStep(d), NEW x \in Device
    PROVE  HeldWaits(x)'
<1>1. Types /\ Fifo(d) /\ Resting(d) /\ HeldWaits(x)
    BY DEF BaseInv, SettleInv
<1>2. CASE x # d
    <2>1. held'[x] = held[x] /\ opened'[x] = opened[x] /\ online'[x] = online[x]
        BY <1>1, <1>2, OthersStay
    <2>2. AwaitsListen(x) => AwaitsListen(x)'
        BY <1>2, AwaitsKept
    <2> QED BY <1>1, <2>1, <2>2 DEF HeldWaits
<1>3. ASSUME x = d, held'[d] # 0 => held[d] # 0, opened'[d] = opened[d], online'[d] = online[d],
             ~(Disconnect(d) \/ Kill(d) \/ Connect(d) \/ RecvInit(d))
      PROVE  HeldWaits(x)'
    <2>1. AwaitsListen(x) => AwaitsListen(x)'
        BY <1>3, AwaitsKept
    <2> QED BY <1>1, <1>3, <2>1 DEF HeldWaits
<1>4. CASE x = d /\ Kill(d)
    BY <1>1, <1>4 DEF Kill, Types, HeldWaits
<1>5. CASE x = d /\ Disconnect(d)
    <2>1. ~online'[d] /\ UNCHANGED <<held, opened>>
        BY <1>1, <1>5 DEF Disconnect, Drop, client, screen, Types
    <2> QED BY <1>1, <1>5, <2>1 DEF HeldWaits
<1>6. CASE x = d /\ RecvInit(d)
    BY <1>1, <1>6 DEF RecvInit, Types, HeldWaits
<1>7. CASE x = d /\ Connect(d)
    <2>1. /\ up'[d] = (IF opened[d] THEN <<Listen>> ELSE <<>>) \o Pending(d)
          /\ UNCHANGED <<held, opened>>
        BY <1>1, <1>7 DEF Types, Connect, client, screen
    <2>2. PICK qs \in Seq(Put), h \in Nat : qs = puts[d] /\ h = held[d]
        BY <1>1 DEF Types
    <2>3. h \in 0..Len(qs)
        <3>1. PICK n \in Nat : h + n <= Len(qs)
            BY <1>1, <2>2 DEF Fifo
        <3> QED BY <3>1, LenProperties
    <2>4. PICK ps : ps = Pending(d) /\ ps = SubSeq(qs, h + 1, Len(qs))
        BY <2>2 DEF Pending
    <2>5. Listen \in Range(<<Listen>> \o ps)
        BY <2>3, <2>4, InFlightConnect
    <2>6. opened[d] => AwaitsListen(d)'
        BY <2>1, <2>4, <2>5 DEF AwaitsListen
    <2> QED BY <1>1, <1>7, <2>1, <2>6 DEF HeldWaits
<1>8. CASE x = d /\ FetchMessages(d)
    <2>1. ~opened[d] /\ held' = held
        BY <1>8 DEF FetchMessages, client
    <2> QED BY <1>1, <1>8, <2>1 DEF HeldWaits
<1>9. CASE x = d /\ RecvAck(d)
    <2>1. UNCHANGED <<online, opened>>
        <3>1. UNCHANGED <<online, screen>>
            BY <1>9 DEF RecvAck
        <3> QED BY <3>1 DEF screen
    <2>2. AwaitsListen(d) => AwaitsListen(d)' \/ Disconnect(d) \/ Kill(d) \/ Connect(d) \/ RecvInit(d)
        BY <1>9, AwaitsKept
    <2>3. CASE AwaitsListen(d)
        <3>1. opened[d]
            BY <2>3 DEF BaseInv, Asked
        <3> QED BY <1>4, <1>5, <1>6, <1>7, <1>9, <2>1, <2>2, <2>3, <3>1 DEF HeldWaits
    <2>4. CASE ~AwaitsListen(d)
        <3>1. held' = held
            BY <1>9, <2>4 DEF RecvAck
        <3>2. down[d] # <<>>
            <4>1. Receive(d, "ack")
                BY <1>9 DEF RecvAck
            <4> QED BY <4>1 DEF Receive
        <3>3. online[d]
            BY <1>1, <3>2 DEF Resting
        <3> QED BY <1>1, <1>9, <2>4, <3>1, <3>3 DEF HeldWaits
    <2> QED BY <2>3, <2>4
<1>10. ASSUME x = d, UNCHANGED <<held, opened, online>> PROVE HeldWaits(x)'
    BY <1>3, <1>4, <1>5, <1>6, <1>7, <1>10
<1>11. CASE x = d /\ (Submits(d) \/ Enter(d))
    <2>1. UNCHANGED <<held, opened, online>>
        BY <1>11 DEF Submits, SubmitNewTeam, Enter, wire, client
    <2> QED BY <1>10, <1>11, <2>1
<1>12. CASE x = d /\ \E key \in PushIds(d) : AddMessage(d, key)
    <2>1. UNCHANGED <<held, opened, online>>
        BY <1>12, AddsOnly
    <2> QED BY <1>10, <1>12, <2>1
<1>13. CASE x = d /\ (RecvData(d) \/ ServeListen(d))
    <2>1. UNCHANGED <<held, opened, online>>
        BY <1>13 DEF RecvData, ServeListen, client, screen
    <2> QED BY <1>10, <1>13, <2>1
<1>14. CASE x = d /\ ServePut(d)
    <2>1. UNCHANGED <<client, online, screen>>
        BY <1>14 DEF ServePut
    <2>2. UNCHANGED <<held, opened, online>>
        BY <2>1 DEF client, screen
    <2> QED BY <1>10, <1>14, <2>2
<1> QED BY <1>2, <1>4, <1>5, <1>6, <1>7, <1>8, <1>9, <1>11, <1>12, <1>13, <1>14
        DEF DeviceStep, Step, Background

\* What is received is what the cache takes.
LEMMA ReceivedCatchesUp ==
    ASSUME Types, NEW d \in Device, CatchesUp(d), down[d] # <<>>,
           down' = [down EXCEPT ![d] = Tail(@)], cache'[d] = Taken(cache[d], Head(down[d])),
           UNCHANGED <<up, online, opened, feed>>
    PROVE  CatchesUp(d)'
<1>1. down[d] \in Seq(Message) /\ down'[d] = Tail(down[d]) /\ Heard(d)' = Heard(d)
    BY DEF Types, Heard
<1>2. Heard(d) => Replay(Tail(down[d]), cache'[d], feed)
    BY <1>1, ReplayTail DEF CatchesUp
<1> QED BY <1>1, <1>2 DEF CatchesUp

LEMMA CatchesUpStep ==
    ASSUME BaseInv, KeptInv, SettleInv, NEW d \in Device, DeviceStep(d), NEW x \in Device
    PROVE  CatchesUp(x)'
<1>1. Types /\ CatchesUp(x) /\ down[x] \in Seq(Message)
    BY DEF BaseInv, SettleInv, Types
<1>2. ASSUME Heard(x)' => Heard(x), down'[x] = down[x], cache'[x] = cache[x], feed' = feed
      PROVE  CatchesUp(x)'
    BY <1>1, <1>2 DEF CatchesUp
<1>3. CASE ServePut(d)
    <2>1. PICK r \in Put : r = Head(up[d])
        BY <1>1, <1>3, ServedDown
    <2>2. PICK n \in Message : n = News(r)
        BY NewsType
    <2>3. UNCHANGED <<cache, opened, online>>
        <3>1. UNCHANGED <<client, online, screen>>
            BY <1>3 DEF ServePut
        <3> QED BY <3>1 DEF client, screen
    <2>4. feed' = Taken(feed, n)
        <3>1. feed' = Apply(feed, Head(up[d]))
            BY <1>3 DEF ServePut
        <3> QED BY <2>1, <2>2, <3>1, TakenNews
    <2>5. Heard(x)' => Heard(x)
        <3>1. x # d => up'[x] = up[x]
            BY <1>1, OthersStay
        <3>2. up' = [up EXCEPT ![d] = Tail(@)] /\ up[d] # <<>> /\ Head(up[d]) = r /\ r # Listen
            BY <1>3, <2>1 DEF ServePut
        <3>3. up[d] \in Seq(Request) /\ up'[d] = Tail(up[d])
            BY <1>1, <3>2 DEF Types
        <3>4. Range(up[d]) = {r} \cup Range(up'[d])
            BY <3>2, <3>3, RangeTail
        <3> QED BY <2>3, <3>1, <3>2, <3>4 DEF Heard
    <2>6. Heard(x) => Replay(Told(x, n), cache[x], feed')
        BY <1>1, <2>4, ReplayAppend DEF CatchesUp, Told
    <2>7. CASE x # d
        <3>1. down'[x] = Told(x, n)
            BY <1>1, <1>3, <2>1, <2>2, <2>7, ServedDown
        <3> QED BY <2>3, <2>5, <2>6, <3>1 DEF CatchesUp
    <2>8. CASE x = d
        <3>1. PICK t \in Seq(Message) : t = Told(d, n)
            BY <1>1, <1>3, <2>1, <2>2, ServedDown
        <3>2. down'[d] = Append(t, Ack)
            BY <1>1, <1>3, <2>1, <2>2, <3>1, ServedDown
        <3>3. Heard(d) => Replay(Append(t, Ack), cache[d], Taken(feed', Ack))
            BY <2>6, <2>8, <3>1, AckType, ReplayAppend
        <3>4. Taken(feed', Ack) = feed'
            BY TakenNews
        <3> QED BY <2>3, <2>5, <2>8, <3>2, <3>3, <3>4 DEF CatchesUp
    <2> QED BY <2>7, <2>8
<1>4. ASSUME ~ServePut(d) PROVE feed' = feed
    BY <1>4, FeedStays
<1>5. CASE x # d /\ ~ServePut(d)
    <2>1. /\ down'[x] = down[x] /\ cache'[x] = cache[x] /\ up'[x] = up[x]
          /\ opened'[x] = opened[x] /\ online'[x] = online[x]
        BY <1>1, <1>5, OthersStay
    <2>2. Heard(x)' => Heard(x)
        BY <2>1 DEF Heard
    <2> QED BY <1>2, <1>4, <1>5, <2>1, <2>2
<1>6. CASE x = d /\ (Disconnect(d) \/ Kill(d))
    BY <1>1, <1>6 DEF Disconnect, Kill, Drop, Types, Heard, CatchesUp
<1>7. CASE x = d /\ Connect(d)
    <2>1. KnowsFeed(d) /\ Resting(d) /\ Fifo(d)
        BY DEF BaseInv
    <2>2. /\ up'[d] = (IF opened[d] THEN <<Listen>> ELSE <<>>) \o Pending(d)
          /\ opened' = opened
        BY <1>1, <1>7 DEF Types, Connect, screen
    <2>3. PICK qs \in Seq(Put), h \in Nat : qs = puts[d] /\ h = held[d]
        BY <1>1 DEF Types
    <2>4. h \in 0..Len(qs)
        <3>1. PICK n \in Nat : h + n <= Len(qs)
            BY <2>1, <2>3 DEF Fifo
        <3> QED BY <3>1, LenProperties
    <2>5. PICK ps : ps = Pending(d) /\ ps = SubSeq(qs, h + 1, Len(qs))
        BY <2>3 DEF Pending
    <2>6. Listen \in Range(<<Listen>> \o ps)
        BY <2>4, <2>5, InFlightConnect
    <2>7. ~Heard(d)'
        BY <2>2, <2>5, <2>6 DEF Heard
    <2> QED BY <1>7, <2>7 DEF CatchesUp
<1>8. CASE x = d /\ FetchMessages(d)
    <2>1. up'[d] = IF online[d] THEN Append(up[d], Listen) ELSE up[d]
        BY <1>1, <1>8 DEF FetchMessages, Types
    <2>2. online' = online
        BY <1>8 DEF FetchMessages
    <2>3. up[d] \in Seq(Request) /\ Listen \in Request
        BY <1>1, RequestIsPut DEF Types
    <2>4. ~Heard(d)'
        BY <2>1, <2>2, <2>3, RangeAppend DEF Heard
    <2> QED BY <1>8, <2>4 DEF CatchesUp
<1>9. CASE x = d /\ RecvInit(d)
    <2>1. /\ down[d] # <<>> /\ Head(down[d]).kind = "init"
          /\ down' = [down EXCEPT ![d] = Tail(@)] /\ cache'[d] = Head(down[d]).feed
          /\ UNCHANGED <<up, online, opened, feed>>
        BY <1>1, <1>9 DEF Types, RecvInit, Receive, screen, server
    <2>2. cache'[d] = Taken(cache[d], Head(down[d]))
        BY <2>1 DEF Taken, Whole
    <2> QED BY <1>1, <1>9, <2>1, <2>2, ReceivedCatchesUp
<1>10. CASE x = d /\ RecvData(d)
    <2>1. PICK r : r = Head(down[d])
        OBVIOUS
    <2>2. /\ down[d] # <<>> /\ r.kind \in {"feed", "add"}
          /\ down' = [down EXCEPT ![d] = Tail(@)]
          /\ cache'[d] = IF r.kind = "feed" THEN r.feed ELSE With(cache[d], r.post)
          /\ UNCHANGED <<up, online, opened, feed>>
        BY <1>1, <1>10, <2>1 DEF Types, RecvData, Receive, screen, server
    <2>3. cache'[d] = Taken(cache[d], Head(down[d]))
        BY <2>1, <2>2 DEF Taken, Whole
    <2> QED BY <1>1, <1>10, <2>2, <2>3, ReceivedCatchesUp
<1>11. CASE x = d /\ RecvAck(d)
    <2>1. /\ down[d] # <<>> /\ Head(down[d]).kind = "ack"
          /\ down' = [down EXCEPT ![d] = Tail(@)]
          /\ UNCHANGED <<up, online, opened, feed, cache>>
        <3>1. Receive(d, "ack") /\ UNCHANGED <<up, cache, online, screen, server>>
            BY <1>11 DEF RecvAck
        <3> QED BY <3>1 DEF Receive, screen, server
    <2>2. cache'[d] = Taken(cache[d], Head(down[d]))
        BY <2>1 DEF Taken, Whole
    <2> QED BY <1>1, <1>11, <2>1, <2>2, ReceivedCatchesUp
<1>12. CASE x = d /\ ServeListen(d)
    <2>1. PICK m : m = [kind |-> "init", feed |-> feed] /\ down'[d] = Append(down[d], m)
        BY <1>1, <1>12 DEF ServeListen, Types
    <2>2. m \in Message /\ Whole(m) /\ m.feed = feed
        BY <1>1, <2>1 DEF Types, Message, MessagesOf, Whole
    <2>3. UNCHANGED <<cache, feed>>
        BY <1>12 DEF ServeListen, client, server
    <2>4. Replay(Append(down[d], m), cache[d], m.feed)
        BY <1>1, <1>12, <2>2, ReplayWhole
    <2> QED BY <1>12, <2>1, <2>2, <2>3, <2>4 DEF CatchesUp
<1>13. CASE x = d /\ Enter(d)
    BY <1>2, <1>13 DEF Enter, server, wire, client, Heard
<1>14. ASSUME x = d, NEW r \in Request,
             up' = IF online[d] THEN [up EXCEPT ![d] = Append(@, r)] ELSE up,
             UNCHANGED <<down, cache, online, opened, feed>>
       PROVE CatchesUp(x)'
    <2>1. up'[d] = IF online[d] THEN Append(up[d], r) ELSE up[d]
        BY <1>1, <1>14 DEF Types
    <2>2. Range(up[d]) \subseteq Range(up'[d])
        BY <1>1, <2>1, RangeAppend DEF Types
    <2>3. Heard(x)' => Heard(x)
        BY <1>14, <2>2 DEF Heard
    <2> QED BY <1>2, <1>14, <2>3
<1>15. CASE x = d /\ Submits(d)
    <2>1. /\ up' = IF online[d] THEN [up EXCEPT ![d] = Append(@, Found)] ELSE up
          /\ UNCHANGED <<down, cache, online, opened, feed>>
        BY <1>15 DEF Submits, SubmitNewTeam, SetValue, server
    <2>2. Found \in Request
        BY CarriedBy DEF Request
    <2> QED BY <1>14, <1>15, <2>1, <2>2
<1>16. CASE x = d /\ \E key \in PushIds(d) : AddMessage(d, key)
    <2>1. PICK key \in PushIds(d) : AddMessage(d, key)
        BY <1>16
    <2>2. PICK m \in Post : m = NewPost(d, key)
        BY <2>1, AddsCount DEF BaseInv
    <2>3. up' = IF online[d] THEN [up EXCEPT ![d] = Append(@, PutPost(m))] ELSE up
        <3>1. \E p : /\ p = NewPost(d, key)
                     /\ up' = IF online[d] THEN [up EXCEPT ![d] = Append(@, PutPost(p))] ELSE up
            BY <2>1, AddsPost
        <3> QED BY <2>2, <3>1
    <2>4. PutPost(m) \in Request
        BY CarriedBy DEF Request, RequestsOf
    <2>5. UNCHANGED <<down, cache, online, opened, feed>>
        BY <2>1, AddsOnly
    <2> QED BY <1>14, <1>16, <2>3, <2>4, <2>5
<1> QED BY <1>3, <1>5, <1>6, <1>7, <1>8, <1>9, <1>10, <1>11, <1>12, <1>13, <1>15, <1>16
        DEF DeviceStep, Step, Background

-----------------------------------------------------------------------------
(* A set of posts with distinct keys has one order on the screen.          *)

LEMMA KeyOrder ==
    ASSUME NEW a \in PushId, NEW b \in PushId, NEW c \in PushId
    PROVE  /\ ~Before(a, a)
           /\ Before(a, b) /\ Before(b, c) => Before(a, c)
           /\ a # b => Before(a, b) \/ Before(b, a)
<1>1. ASSUME NEW k \in PushId
      PROVE  /\ k.time \in Int /\ k.draw \in Nat /\ k.inc \in Nat
             /\ k = [time |-> k.time, draw |-> k.draw, inc |-> k.inc]
    <2>1. k.time \in Int /\ k.draw \in Draw /\ k.inc \in 0..MaxPosts
        BY DEF PushId
    <2>2. k = [time |-> k.time, draw |-> k.draw, inc |-> k.inc]
        BY DEF PushId
    <2>3. k.draw \in Nat
        <3>1. Draw \subseteq Nat \ {0}
            BY FeedAssumption
        <3> QED BY <2>1, <3>1
    <2>4. k.inc \in Nat
        BY <2>1, FeedAssumption
    <2> QED BY <2>1, <2>2, <2>3, <2>4
<1>2. ~Before(a, a)
    BY <1>1 DEF Before
<1>3. Before(a, b) /\ Before(b, c) => Before(a, c)
    BY <1>1 DEF Before
<1>4. a # b => Before(a, b) \/ Before(b, a)
    <2>1. a # b => a.time # b.time \/ a.draw # b.draw \/ a.inc # b.inc
        BY <1>1
    <2> QED BY <1>1, <2>1 DEF Before
<1> QED BY <1>2, <1>3, <1>4

LEMMA BeforeOrder ==
    ASSUME Types, NEW a \in said, NEW b \in said, NEW c \in said
    PROVE  /\ ~Before(a.key, a.key)
           /\ Before(a.key, b.key) /\ Before(b.key, c.key) => Before(a.key, c.key)
           /\ a.key # b.key => Before(a.key, b.key) \/ Before(b.key, a.key)
    BY SaidKey, KeyOrder

NewestFirstIn(s) == \A i, j \in DOMAIN s : i < j => Before(s[j].key, s[i].key)

\* An enumeration that takes each element once takes them all.
LEMMA EnumeratesAll ==
    ASSUME NEW S, IsFiniteSet(S), NEW s \in SetToSeqs(S)
    PROVE  DOMAIN s = 1..Cardinality(S) /\ Range(s) = S
<1>1. PICK n \in Nat : n = Cardinality(S)
    BY FS_CardinalityType
<1>2. s \in [1..n -> S] /\ \A i, j \in 1..n : i # j => s[i] # s[j]
    BY <1>1 DEF SetToSeqs
<1>3. s \in Injection(1..n, S)
    BY <1>2 DEF Injection, IsInjective
<1>4. IsFiniteSet(1..n) /\ Cardinality(1..n) = n
    BY FS_Interval
<1>5. s \in Surjection(1..n, S)
    BY <1>1, <1>3, <1>4, FS_Injection
<1>6. \A x \in S : \E i \in 1..n : s[i] = x
    BY <1>5 DEF Surjection
<1> QED BY <1>1, <1>2, <1>6 DEF Range

Later(S, m) == {x \in S : Before(m.key, x.key)}

\* The place of a post is told by how many have later keys.
LEMMA OneOrder ==
    ASSUME Types, KeysApart, NEW S \in SUBSET said, IsFiniteSet(S)
    PROVE  \E s \in SetToSeqs(S) : NewestFirstIn(s)
<1>1. PICK n \in Nat : n = Cardinality(S)
    BY FS_CardinalityType
<1>2. ASSUME NEW m \in S PROVE IsFiniteSet(Later(S, m)) /\ Cardinality(Later(S, m)) \in 0..(n - 1)
    <2>1. IsFiniteSet(S \ {m}) /\ Cardinality(S \ {m}) = n - 1
        BY <1>1, FS_RemoveElement
    <2>2. m \notin Later(S, m)
        BY BeforeOrder DEF Later
    <2>3. Later(S, m) \in SUBSET (S \ {m})
        BY <2>2 DEF Later
    <2>4. PICK L \in SUBSET (S \ {m}) : L = Later(S, m)
        BY <2>3
    <2>5. IsFiniteSet(L) /\ Cardinality(L) <= n - 1 /\ Cardinality(L) \in Nat
        BY <2>1, FS_Subset, FS_CardinalityType
    <2> QED BY <2>4, <2>5
<1>3. ASSUME NEW a \in S, NEW b \in S, Before(a.key, b.key)
      PROVE  Cardinality(Later(S, b)) < Cardinality(Later(S, a))
    <2>1. Later(S, b) \in SUBSET Later(S, a)
        BY <1>3, BeforeOrder DEF Later
    <2>2. b \in Later(S, a) /\ b \notin Later(S, b)
        BY <1>3, BeforeOrder DEF Later
    <2>3. PICK A, B : A = Later(S, a) /\ B = Later(S, b)
        OBVIOUS
    <2>4. IsFiniteSet(A) /\ B \in SUBSET A /\ B # A
        BY <1>2, <2>1, <2>2, <2>3
    <2>5. Cardinality(B) <= Cardinality(A) /\ Cardinality(B) # Cardinality(A)
        BY <2>4, FS_Subset
    <2>6. Cardinality(A) \in Int /\ Cardinality(B) \in Int
        BY <1>2, <2>3
    <2> QED BY <2>3, <2>5, <2>6
<1> DEFINE place == [m \in S |-> Cardinality(Later(S, m)) + 1]
<1>4. place \in [S -> 1..n]
    <2>1. \A m \in S : Cardinality(Later(S, m)) + 1 \in 1..n
        BY <1>2
    <2> QED BY <2>1
<1>5. \A a, b \in S : Before(a.key, b.key) => place[b] < place[a]
    <2>1. \A a, b \in S : Cardinality(Later(S, a)) \in Int /\ Cardinality(Later(S, b)) \in Int
        BY <1>2
    <2> QED BY <1>3, <2>1
<1> HIDE DEF place
<1>6. place \in Injection(S, 1..n)
    <2>1. ASSUME NEW a \in S, NEW b \in S, a # b PROVE place[a] # place[b]
        <3>1. a.key # b.key
            BY <2>1 DEF KeysApart
        <3>2. Before(a.key, b.key) \/ Before(b.key, a.key)
            BY <3>1, BeforeOrder
        <3>3. place[a] \in Int /\ place[b] \in Int
            BY <1>4
        <3> QED BY <1>5, <3>2, <3>3
    <2> QED BY <1>4, <2>1 DEF Injection, IsInjective
<1>7. place \in Surjection(S, 1..n)
    <2>1. IsFiniteSet(1..n) /\ Cardinality(1..n) = n
        BY FS_Interval
    <2> QED BY <1>1, <1>6, <2>1, FS_Injection
<1> DEFINE s == [i \in 1..n |-> CHOOSE m \in S : place[m] = i]
<1>8. \A i \in 1..n : s[i] \in S /\ place[s[i]] = i
    BY <1>7 DEF Surjection
<1>9. s \in [1..n -> S] /\ DOMAIN s = 1..n
    BY <1>8
<1> HIDE DEF s
<1>10. s \in SetToSeqs(S)
    BY <1>1, <1>8, <1>9 DEF SetToSeqs
<1>11. NewestFirstIn(s)
    <2> SUFFICES ASSUME NEW i \in 1..n, NEW j \in 1..n, i < j PROVE Before(s[j].key, s[i].key)
        BY <1>9 DEF NewestFirstIn
    <2>1. s[i] \in S /\ s[j] \in S /\ place[s[i]] = i /\ place[s[j]] = j
        BY <1>8
    <2>2. s[i].key # s[j].key
        BY <2>1 DEF KeysApart
    <2>3. ~Before(s[i].key, s[j].key)
        BY <1>5, <2>1
    <2> QED BY <2>1, <2>2, <2>3, BeforeOrder
<1> QED BY <1>10, <1>11

LEMMA FoldsNone ==
    ASSUME NEW base
    PROVE  FoldLeft(Apply, base, <<>>) = base
<1>1. DOMAIN <<>> = {}
    OBVIOUS
<1> DEFINE body(it) == [s \in SUBSET DOMAIN <<>> |->
                            IF s = {} THEN base ELSE Apply(it[s \ {Max(s)}], <<>>[Max(s)])]
           it == CHOOSE f : f = body(f)
<1>2. \A f : body(f) = [s \in SUBSET {} |-> base]
    BY <1>1
<1>3. it = [s \in SUBSET {} |-> base]
    BY <1>2
<1>4. it[{}] = base
    BY <1>3
<1>5. FoldLeft(Apply, base, <<>>) = it[DOMAIN <<>>]
    BY DEF FoldLeft, MapThenFoldSet
<1> QED BY <1>1, <1>4, <1>5

-----------------------------------------------------------------------------
\* Once nothing is under way on a connection nothing is pending, and the open
\* tab shows the feed of the server.  What stands for an unknown feed is none.
THEOREM SettledFeedsCorrect ==
    ASSUME Unknown \notin SUBSET Post
    PROVE  Spec => []SettledFeeds
<1>1. Init => KeptInv /\ SettleInv
    <2> SUFFICES ASSUME Init PROVE KeptInv /\ SettleInv
        OBVIOUS
    <2>1. KeptInv
        BY KeptInit
    <2>2. \A d \in Device : held[d] = 0 /\ ~online[d]
        BY DEF Init
    <2> QED BY <2>1, <2>2 DEF SettleInv, HeldWaits, CatchesUp, Heard
<1>2. BaseInv /\ KeptInv /\ SettleInv /\ [Next]_vars => KeptInv' /\ SettleInv'
    <2> SUFFICES ASSUME BaseInv, KeptInv, SettleInv, [Next]_vars PROVE KeptInv' /\ SettleInv'
        OBVIOUS
    <2>1. KeptInv'
        BY KeptNext
    <2>2. CASE \E d \in Device : DeviceStep(d)
        <3>1. \A x \in Device : HeldWaits(x)' /\ CatchesUp(x)'
            BY <2>2, HeldStep, CatchesUpStep
        <3> QED BY <2>1, <3>1 DEF SettleInv
    <2>3. CASE Tick \/ UNCHANGED vars
        <3>1. UNCHANGED <<feed, up, down, online, held, cache, opened>>
            BY <2>3 DEF Tick, vars, server, wire, client, screen
        <3>2. \A x \in Device : HeldWaits(x)' /\ CatchesUp(x)'
            BY <3>1 DEF SettleInv, HeldWaits, CatchesUp, AwaitsListen, Heard
        <3> QED BY <2>1, <3>2 DEF SettleInv
    <2> QED BY <2>2, <2>3, NextCases
<1>3. BaseInv /\ KeptInv /\ SettleInv => SettledFeeds
    <2> SUFFICES ASSUME BaseInv, KeptInv, SettleInv, NEW d \in Device,
                        online[d], up[d] = <<>>, down[d] = <<>>
                 PROVE  /\ puts[d] = <<>> /\ held[d] = 0
                        /\ opened[d] => Range(Messages(d)) = feed
        BY DEF SettledFeeds
    <2>1. Types /\ Posted /\ Counted /\ Fifo(d) /\ KeysApart /\ HeldWaits(d) /\ CatchesUp(d)
        BY DEF BaseInv, KeptInv, SettleInv
    <2>2. ~AwaitsListen(d)
        BY RangeEmpty DEF AwaitsListen
    <2>3. held[d] = 0
        BY <2>1, <2>2 DEF HeldWaits
    <2>4. puts[d] = <<>>
        <3>1. PICK n : n \in Nat /\ Answers(<<>>, n) /\ InFlight(<<>>, puts[d], held[d] + n)
            BY <2>1 DEF Fifo
        <3>2. n = 0
            BY <3>1, AnswersOfNone
        <3>3. PICK qs \in Seq(Put) : qs = puts[d]
            BY <2>1 DEF Types
        <3>4. InFlight(<<>>, qs, 0)
            BY <2>3, <3>1, <3>2, <3>3
        <3>5. Len(qs) = 0
            BY <3>4, InFlightNone
        <3> QED BY <3>3, <3>5, EmptySeq
    <2>5. ASSUME opened[d] PROVE Range(Messages(d)) = feed
        <3>1. Heard(d)
            BY <2>5, RangeEmpty DEF Heard
        <3>2. cache[d] = feed
            BY <2>1, <3>1, ReplayNone DEF CatchesUp
        <3>3. feed # Unknown
            BY <2>1 DEF Types
        <3>4. View(d) = feed
            BY <2>4, <3>2, <3>3, FoldsNone DEF View
        <3>5. IsFiniteSet(feed) /\ feed \in SUBSET said
            BY <2>1, FS_Subset DEF Counted, Posted
        <3>6. \E s \in SetToSeqs(feed) : NewestFirstIn(s)
            BY <2>1, <3>5, OneOrder
        <3>7. Messages(d) = CHOOSE s \in SetToSeqs(feed) : NewestFirstIn(s)
            BY <2>5, <3>3, <3>4 DEF Messages, NewestFirstIn
        <3>8. Messages(d) \in SetToSeqs(feed)
            BY <3>6, <3>7
        <3> QED BY <3>5, <3>8, EnumeratesAll
    <2> QED BY <2>3, <2>4, <2>5
<1> QED BY <1>1, <1>2, <1>3, BaseInvAlways, PTL DEF Spec

-----------------------------------------------------------------------------
(* The posts of one device under one connection are in the order of their  *)
(* keys.                                                                   *)

\* The keys of an era go up, and the clock they are read off does not fall
\* behind the last of them.
LastOfEra(d) ==
    \A m \in Mine(d) :
        /\ m.era <= era[d]
        /\ m.era = era[d] => /\ lastPush[d] # NoPush
                             /\ m.key = lastPush[d] \/ Before(m.key, lastPush[d])
                             /\ lastPush[d].time <= now + skew[d]

OrderInv ==
    /\ \A a, b \in said : a.author = b.author /\ a.nth = b.nth => a = b
    /\ \A a, b \in said : a.author = b.author /\ a.era = b.era /\ a.nth < b.nth =>
            Before(a.key, b.key)
    /\ \A d \in Device : LastOfEra(d)

LEMMA ClockType ==
    ASSUME Types, NEW d \in Device
    PROVE  /\ now \in Int /\ skew[d] \in Int /\ era[d] \in Nat
           /\ lastPush[d] # NoPush => lastPush[d] \in PushId /\ lastPush[d].time \in Int
                                      /\ lastPush[d].inc \in Nat
<1>1. now \in Int
    <2>1. now \in 0..MaxTime /\ MaxTime \in Nat
        BY FeedAssumption DEF Types
    <2> QED BY <2>1
<1>2. skew[d] \in Int
    <2>1. skew[d] \in Skew /\ Skew \subseteq Int
        BY FeedAssumption DEF Types
    <2> QED BY <2>1
<1>3. lastPush[d] # NoPush => lastPush[d] \in PushId
    BY DEF Types
<1>4. \A k \in PushId : k.time \in Int /\ k.inc \in Nat
    BY FeedAssumption DEF PushId
<1> QED BY <1>1, <1>2, <1>3, <1>4 DEF Types

\* An id that is taken is after the last one of the era.
LEMMA TakenAfter ==
    ASSUME Types, Counted, NEW d \in Device, NEW key \in PushIds(d),
           Cardinality(said) < MaxPosts, lastPush[d] # NoPush,
           lastPush[d].time <= now + skew[d]
    PROVE  Before(lastPush[d], key)
<1>1. PICK p \in PushId : p = lastPush[d] /\ p.time \in Int /\ p.inc \in Nat
    BY ClockType
<1>2. key.time = now + skew[d] /\ now + skew[d] \in Int
    BY PushIdType, ClockType
<1>3. CASE p.time = key.time /\ key.draw = p.draw /\ key.inc = p.inc + 1
    BY <1>1, <1>3 DEF Before
<1>4. CASE p.time # key.time
    BY <1>1, <1>2, <1>4 DEF Before
<1> QED BY <1>1, <1>3, <1>4, PushIdType

LEMMA OrderAdds ==
    ASSUME BaseInv, OrderInv, NEW d \in Device, NEW key \in PushIds(d), AddMessage(d, key)
    PROVE  OrderInv'
<1>1. Types /\ Counted
    BY DEF BaseInv
<1>2. /\ Cardinality(said) < MaxPosts /\ lastPush' = [lastPush EXCEPT ![d] = key]
      /\ UNCHANGED <<now, skew, era>>
    BY AddsOnly
<1>3. PICK m \in Post : /\ m.key = key /\ m.author = d /\ m.era = era[d]
                        /\ m.nth = Cardinality(Mine(d)) + 1 /\ said' = said \cup {m}
                        /\ Mine(d)' = Mine(d) \cup {m} /\ \A x : x # d => Mine(x)' = Mine(x)
    BY <1>1, AddsCount
<1>4. lastPush'[d] = key /\ \A x \in Device : x # d => lastPush'[x] = lastPush[x]
    BY <1>1, <1>2 DEF Types
<1>5. /\ key \in PushId /\ key # NoPush /\ key.time = now + skew[d]
      /\ now + skew[d] \in Int
    BY <1>1, <1>2, PushIdType, ClockType
<1>6. ASSUME NEW a \in said, a.author = d
      PROVE  /\ a.nth < m.nth /\ a \in Mine(d) /\ a.era <= era[d]
             /\ a.era = era[d] => Before(a.key, key)
    <2>1. a.nth <= Cardinality(Mine(d))
        BY <1>1, <1>6 DEF Counted
    <2>2. a.nth \in Nat /\ a.key \in PushId /\ Cardinality(Mine(d)) \in Nat
        BY <1>1, SaidKey, MineFinite
    <2>3. a \in Mine(d)
        BY <1>6 DEF Mine
    <2>4. LastOfEra(d)
        BY DEF OrderInv
    <2>5. ASSUME a.era = era[d] PROVE Before(a.key, key)
        <3>1. /\ lastPush[d] # NoPush /\ lastPush[d].time <= now + skew[d]
              /\ a.key = lastPush[d] \/ Before(a.key, lastPush[d])
            BY <2>3, <2>4, <2>5 DEF LastOfEra
        <3>2. Before(lastPush[d], key) /\ lastPush[d] \in PushId
            BY <1>1, <1>2, <3>1, TakenAfter, ClockType
        <3> QED BY <1>5, <2>2, <3>1, <3>2, KeyOrder
    <2> QED BY <1>3, <2>1, <2>2, <2>3, <2>4, <2>5 DEF LastOfEra
<1>7. \A a \in said : a.nth \in Nat
    BY <1>1, SaidKey
<1>8. m.nth \in Nat
    BY <1>1, <1>3, MineFinite
<1>9. ASSUME NEW a \in said', NEW b \in said', a.author = b.author, a.nth = b.nth PROVE a = b
    <2>1. CASE a \in said /\ b \in said
        BY <1>9, <2>1 DEF OrderInv
    <2>2. CASE a = m /\ b \in said
        BY <1>3, <1>6, <1>7, <1>8, <1>9, <2>2
    <2>3. CASE b = m /\ a \in said
        BY <1>3, <1>6, <1>7, <1>8, <1>9, <2>3
    <2> QED BY <1>3, <2>1, <2>2, <2>3
<1>10. ASSUME NEW a \in said', NEW b \in said', a.author = b.author, a.era = b.era, a.nth < b.nth
       PROVE  Before(a.key, b.key)
    <2>1. CASE a \in said /\ b \in said
        BY <1>10, <2>1 DEF OrderInv
    <2>2. CASE a = m /\ b \in said
        BY <1>3, <1>6, <1>7, <1>8, <1>10, <2>2
    <2>3. CASE b = m /\ a \in said
        BY <1>3, <1>6, <1>10, <2>3
    <2>4. CASE a = m /\ b = m
        BY <1>8, <1>10, <2>4
    <2> QED BY <1>3, <2>1, <2>2, <2>3, <2>4
<1>11. ASSUME NEW x \in Device PROVE LastOfEra(x)'
    <2>1. CASE x = d
        <3>1. era[d] \in Nat
            BY <1>1, ClockType
        <3>2. ASSUME NEW a \in Mine(d)'
              PROVE  a.era <= era[d] /\ (a.era = era[d] => a.key = key \/ Before(a.key, key))
            <4>1. CASE a \in Mine(d)
                BY <1>6, <4>1 DEF Mine
            <4>2. CASE a = m
                BY <1>3, <3>1, <4>2
            <4> QED BY <1>3, <3>2, <4>1, <4>2
        <3> QED BY <1>2, <1>4, <1>5, <2>1, <3>2 DEF LastOfEra
    <2>2. CASE x # d
        <3>1. LastOfEra(x) /\ Mine(x)' = Mine(x) /\ lastPush'[x] = lastPush[x]
            BY <1>3, <1>4, <2>2 DEF OrderInv
        <3> QED BY <1>2, <3>1 DEF LastOfEra
    <2> QED BY <2>1, <2>2
<1> QED BY <1>9, <1>10, <1>11 DEF OrderInv

LEMMA OrderInit == Init => OrderInv
    BY DEF Init, OrderInv, LastOfEra, Mine

\* A new era: all there are of the device are of earlier ones.
LEMMA OrderNewEra ==
    ASSUME BaseInv, OrderInv, NEW d \in Device, Kill(d) \/ Connect(d)
    PROVE  OrderInv'
<1>1. Types /\ DeviceStep(d)
    BY DEF BaseInv, DeviceStep, Step, Background
<1>2. now' = now /\ said' = said
    BY DEF Kill, Connect, history
<1>3. era' = [era EXCEPT ![d] = IF Mine(d) = {} THEN @ ELSE @ + 1]
    BY DEF Kill, Connect, NewEra
<1>4. ASSUME NEW x \in Device PROVE LastOfEra(x)'
    <2>1. LastOfEra(x) /\ Mine(x)' = Mine(x)
        BY <1>2 DEF OrderInv, Mine
    <2>2. CASE x = d
        <3>1. ASSUME NEW m \in Mine(d) PROVE m.era <= era'[d] /\ m.era # era'[d]
            <4>1. era'[d] = era[d] + 1 /\ era[d] \in Nat
                BY <1>1, <1>3 DEF Types
            <4>2. m.era \in Nat /\ m.era <= era[d]
                BY <1>1, <2>1, <2>2, SaidKey DEF LastOfEra, Mine
            <4>3. PICK i \in Nat, j \in Nat : i = m.era /\ j = era[d]
                BY <4>1, <4>2
            <4>4. i <= j + 1 /\ i # j + 1
                BY <4>2, <4>3
            <4> QED BY <4>1, <4>3, <4>4
        <3> QED BY <2>1, <2>2, <3>1 DEF LastOfEra
    <2>3. CASE x # d
        <3>1. skew'[x] = skew[x] /\ lastPush'[x] = lastPush[x] /\ era'[x] = era[x]
            BY <1>1, <2>3, OthersStay
        <3> QED BY <1>2, <2>1, <3>1 DEF LastOfEra
    <2> QED BY <2>2, <2>3
<1> QED BY <1>2, <1>4 DEF OrderInv

LEMMA OrderNext ==
    ASSUME BaseInv, OrderInv, [Next]_vars
    PROVE  OrderInv'
<1>1. Types /\ NotYet
    BY DEF BaseInv
<1>2. ASSUME UNCHANGED <<now, skew, lastPush, era, said>> PROVE OrderInv'
    BY <1>2 DEF OrderInv, LastOfEra, Mine
<1>3. CASE Tick
    <2>1. now' = now + 1 /\ UNCHANGED <<skew, lastPush, era, said>>
        BY <1>3 DEF Tick, history
    <2>2. ASSUME NEW d \in Device PROVE LastOfEra(d)'
        <3>1. LastOfEra(d) /\ Mine(d)' = Mine(d)
            BY <2>1 DEF OrderInv, Mine
        <3>2. ASSUME lastPush[d] # NoPush, lastPush[d].time <= now + skew[d]
              PROVE  lastPush[d].time <= (now + 1) + skew[d]
            BY <1>1, <3>2, ClockType
        <3> QED BY <2>1, <3>1, <3>2 DEF LastOfEra
    <2> QED BY <2>1, <2>2 DEF OrderInv
<1>4. CASE UNCHANGED vars
    BY <1>2, <1>4 DEF vars, clock, history
<1>5. ASSUME NEW d \in Device, Submits(d) PROVE OrderInv'
    <2>1. said = {} /\ said' = {}
        BY <1>1, <1>5 DEF Submits, SubmitNewTeam, history, NotYet
    <2> QED BY <2>1 DEF OrderInv, LastOfEra, Mine
<1>6. ASSUME NEW d \in Device, \E key \in PushIds(d) : AddMessage(d, key) PROVE OrderInv'
    BY <1>6, OrderAdds
<1>7. ASSUME NEW d \in Device, Kill(d) \/ Connect(d) PROVE OrderInv'
    BY <1>7, OrderNewEra
<1>8. ASSUME NEW d \in Device,
             \/ Enter(d) \/ FetchMessages(d) \/ Disconnect(d)
             \/ RecvInit(d) \/ RecvData(d) \/ ServeListen(d)
      PROVE  OrderInv'
    <2>1. UNCHANGED <<clock, history>>
        BY <1>8 DEF Enter, FetchMessages, Disconnect, RecvInit, RecvData, ServeListen
    <2> QED BY <1>2, <2>1 DEF clock, history
<1>9. ASSUME NEW d \in Device, RecvAck(d) \/ ServePut(d) PROVE OrderInv'
    <2>1. UNCHANGED <<clock, said>>
        <3>1. CASE RecvAck(d)
            BY <3>1 DEF RecvAck
        <3>2. CASE ServePut(d)
            BY <3>2 DEF ServePut
        <3> QED BY <1>9, <3>1, <3>2
    <2> QED BY <1>2, <2>1 DEF clock
<1> QED BY <1>3, <1>4, <1>5, <1>6, <1>7, <1>8, <1>9, NextCases DEF DeviceStep, Step, Background

-----------------------------------------------------------------------------
(* The view is made of what was posted.                                    *)

\* What FoldLeft computes over the first k elements.
Folds(g, k, base, qs) ==
    g = [s \in SUBSET (1..k) |-> IF s = {} THEN base
                                 ELSE Apply(g[s \ {Max(s)}], qs[Max(s)])]

LEMMA MaxOfPrefix ==
    ASSUME NEW k \in Nat, NEW s \in SUBSET (1..(k + 1))
    PROVE  /\ k + 1 \in s => Max(s) = k + 1 /\ s \ {k + 1} \in SUBSET (1..k)
           /\ k + 1 \notin s => s \in SUBSET (1..k)
<1>1. ASSUME k + 1 \in s PROVE Max(s) = k + 1
    <2>1. k + 1 \in s /\ \A y \in s : k + 1 >= y
        BY <1>1
    <2>2. Max(s) \in s /\ \A y \in s : Max(s) >= y
        BY <2>1 DEF Max
    <2>3. PICK x \in 1..(k + 1) : x = Max(s) /\ x \in s
        BY <2>2
    <2>4. x >= k + 1
        BY <1>1, <2>2, <2>3
    <2> QED BY <2>3, <2>4
<1>2. \A i \in s : i = k + 1 \/ i \in 1..k
    OBVIOUS
<1> QED BY <1>1, <1>2

\* There is a function that folds, whatever the length.
LEMMA FoldsExist ==
    ASSUME NEW base, NEW qs, NEW n \in Nat
    PROVE  \E g : Folds(g, n, base, qs)
<1> DEFINE Fails == {k \in Nat : ~ \E g : Folds(g, k, base, qs)}
<1> SUFFICES ASSUME n \in Fails PROVE FALSE
    OBVIOUS
<1>1. PICK t \in Fails : \A y \in Fails : t <= y
    BY LeastNat
<1>2. t # 0
    <2>1. 1..0 = {} /\ SUBSET {} = {{}}
        OBVIOUS
    <2>2. Folds([s \in SUBSET (1..0) |-> base], 0, base, qs)
        BY <2>1 DEF Folds
    <2> QED BY <1>1, <2>2
<1>3. PICK k \in Nat : t = k + 1
    <2>1. t - 1 \in Nat /\ t = (t - 1) + 1
        BY <1>1, <1>2
    <2> QED BY <2>1
<1>4. k \notin Fails
    BY <1>1, <1>3
<1>5. PICK g : Folds(g, k, base, qs)
    BY <1>4
<1> DEFINE h == [s \in SUBSET (1..(k + 1)) |->
                    IF k + 1 \in s THEN Apply(g[s \ {k + 1}], qs[k + 1]) ELSE g[s]]
<1>6. ASSUME NEW s \in SUBSET (1..(k + 1))
      PROVE  h[s] = IF s = {} THEN base ELSE Apply(h[s \ {Max(s)}], qs[Max(s)])
    <2>1. CASE k + 1 \in s
        <3>1. Max(s) = k + 1 /\ s \ {k + 1} \in SUBSET (1..k) /\ s # {}
            BY <2>1, MaxOfPrefix
        <3>2. s \ {k + 1} \in SUBSET (1..(k + 1)) /\ k + 1 \notin s \ {k + 1}
            OBVIOUS
        <3>3. h[s \ {k + 1}] = g[s \ {k + 1}]
            BY <3>2
        <3>4. h[s] = Apply(g[s \ {k + 1}], qs[k + 1])
            BY <2>1
        <3> QED BY <3>1, <3>3, <3>4
    <2>2. CASE k + 1 \notin s
        <3>1. s \in SUBSET (1..k)
            BY <2>2, MaxOfPrefix
        <3>2. s \ {Max(s)} \in SUBSET (1..(k + 1)) /\ k + 1 \notin s \ {Max(s)}
            BY <2>2
        <3>3. h[s] = g[s] /\ h[s \ {Max(s)}] = g[s \ {Max(s)}]
            BY <2>2, <3>2
        <3>4. g[s] = IF s = {} THEN base ELSE Apply(g[s \ {Max(s)}], qs[Max(s)])
            BY <1>5, <3>1 DEF Folds
        <3> QED BY <3>3, <3>4
    <2> QED BY <2>1, <2>2
<1>7. h = [s \in SUBSET (1..(k + 1)) |-> h[s]]
    OBVIOUS
<1> HIDE DEF h
<1>8. Folds(h, k + 1, base, qs)
    BY <1>6, <1>7 DEF Folds
<1> QED BY <1>1, <1>3, <1>8

LEMMA FoldsWithin ==
    ASSUME NEW S, NEW base \in SUBSET S, NEW qs \in Seq(PutsOf(S))
    PROVE  FoldLeft(Apply, base, qs) \in SUBSET S
<1>1. PICK n \in Nat : n = Len(qs) /\ DOMAIN qs = 1..n
    BY LenProperties
<1>2. PICK g : g = CHOOSE f : Folds(f, n, base, qs)
    OBVIOUS
<1>3. Folds(g, n, base, qs)
    BY <1>2, FoldsExist
<1>4. FoldLeft(Apply, base, qs) = g[1..n]
    BY <1>1, <1>2 DEF FoldLeft, MapThenFoldSet, Folds
<1> DEFINE Fails == {k \in Nat : k <= n /\ g[1..k] \notin SUBSET S}
<1>5. ASSUME n \in Fails PROVE FALSE
    <2>1. PICK t \in Fails : \A y \in Fails : t <= y
        BY <1>5, LeastNat
    <2>2. \A s \in SUBSET (1..n) :
                g[s] = IF s = {} THEN base ELSE Apply(g[s \ {Max(s)}], qs[Max(s)])
        BY <1>3 DEF Folds
    <2>3. t # 0
        <3>1. 1..0 = {} /\ {} \in SUBSET (1..n)
            OBVIOUS
        <3> QED BY <2>1, <2>2, <3>1
    <2>4. PICK k \in Nat : t = k + 1
        <3>1. t - 1 \in Nat /\ t = (t - 1) + 1
            BY <2>1, <2>3
        <3> QED BY <3>1
    <2>5. g[1..k] \in SUBSET S
        BY <2>1, <2>4
    <2>6. Max(1..(k + 1)) = k + 1
        BY MaxOfPrefix
    <2>7. /\ 1..(k + 1) \in SUBSET (1..n) /\ 1..(k + 1) # {} /\ k + 1 \in 1..n
          /\ (1..(k + 1)) \ {k + 1} = 1..k
        BY <2>1, <2>4
    <2>8. g[1..(k + 1)] = Apply(g[1..k], qs[k + 1])
        BY <2>2, <2>6, <2>7
    <2>9. qs[k + 1] \in PutsOf(S)
        BY <1>1, <2>7, ElementOfSeq
    <2>10. Apply(g[1..k], qs[k + 1]) \in SUBSET S
        <3>1. CASE qs[k + 1] = Found
            <4>1. qs[k + 1].kind = "found"
                BY <3>1 DEF Found
            <4> QED BY <4>1 DEF Apply
        <3>2. CASE qs[k + 1] # Found
            <4>1. PICK m \in S : qs[k + 1] = PutPost(m)
                BY <2>9, <3>2 DEF PutsOf
            <4>2. qs[k + 1].kind = "post" /\ qs[k + 1].post = m
                BY <4>1, PutPostKind
            <4> QED BY <2>5, <4>2 DEF Apply, With
        <3> QED BY <3>1, <3>2
    <2> QED BY <2>1, <2>4, <2>8, <2>10
<1> QED BY <1>4, <1>5

-----------------------------------------------------------------------------
\* On every screen the posts of one device under one connection stand the
\* newest first.
THEOREM NewestFirstCorrect == Spec => []NewestFirst
<1>1. Init => KeptInv /\ OrderInv
    BY KeptInit, OrderInit
<1>2. BaseInv /\ KeptInv /\ OrderInv /\ [Next]_vars => KeptInv' /\ OrderInv'
    BY KeptNext, OrderNext
<1>3. BaseInv /\ KeptInv /\ OrderInv => NewestFirst
    <2> SUFFICES ASSUME BaseInv, KeptInv, OrderInv, NEW d \in Device
                 PROVE  \A i, j \in DOMAIN Messages(d) :
                            LET a == Messages(d)[i]
                                b == Messages(d)[j]
                            IN  (i < j /\ a.author = b.author /\ a.era = b.era) => a.nth > b.nth
        BY DEF NewestFirst
    <2>1. Types /\ Posted /\ Counted /\ KeysApart
        BY DEF BaseInv, KeptInv
    <2>2. CASE ~opened[d] \/ View(d) = Unknown
        <3>1. Messages(d) = <<>> /\ DOMAIN <<>> = {}
            BY <2>2 DEF Messages
        <3> QED BY <3>1
    <2>3. CASE opened[d] /\ View(d) # Unknown
        <3>1. PICK known : known = IF cache[d] = Unknown THEN {} ELSE cache[d]
            OBVIOUS
        <3>2. known \in SUBSET said /\ puts[d] \in Seq(PutsOf(said))
            <4>1. Mine(d) \subseteq said /\ puts[d] \in Seq(PutsOf(Mine(d)))
                  /\ cache[d] \in (SUBSET said) \cup {Unknown}
                BY <2>1 DEF Mine, Posted
            <4> QED BY <3>1, <4>1, CarriedGrows
        <3>3. View(d) = FoldLeft(Apply, known, puts[d])
            BY <2>3, <3>1 DEF View
        <3>4. PICK V \in SUBSET said : V = View(d)
            BY <3>2, <3>3, FoldsWithin
        <3>5. IsFiniteSet(V)
            BY <2>1, FS_Subset DEF Counted
        <3>6. \E s \in SetToSeqs(V) : NewestFirstIn(s)
            BY <2>1, <3>5, OneOrder
        <3>7. Messages(d) = CHOOSE s \in SetToSeqs(V) : NewestFirstIn(s)
            BY <2>3, <3>4 DEF Messages, NewestFirstIn
        <3>8. PICK s \in SetToSeqs(V) : s = Messages(d) /\ NewestFirstIn(s)
            BY <3>6, <3>7
        <3>9. \A i \in DOMAIN s : s[i] \in said
            BY <3>5, <3>8, EnumeratesAll DEF Range
        <3>10. ASSUME NEW i \in DOMAIN s, NEW j \in DOMAIN s, i < j, s[i].author = s[j].author,
                      s[i].era = s[j].era
               PROVE  s[i].nth > s[j].nth
            <4>1. Before(s[j].key, s[i].key)
                BY <3>8, <3>10 DEF NewestFirstIn
            <4>2. PICK a \in said, b \in said : a = s[i] /\ b = s[j]
                BY <3>9
            <4>3. a.nth \in Nat /\ b.nth \in Nat
                BY <2>1, SaidKey
            <4>4. a.nth # b.nth
                BY <2>1, <3>10, <4>1, <4>2, BeforeOrder DEF OrderInv
            <4>5. ~(a.nth < b.nth)
                <5>1. a.nth < b.nth => Before(a.key, b.key)
                    BY <3>10, <4>2 DEF OrderInv
                <5> QED BY <2>1, <4>1, <4>2, <5>1, BeforeOrder
            <4> QED BY <4>2, <4>3, <4>4, <4>5
        <3> QED BY <3>8, <3>10
    <2> QED BY <2>2, <2>3
<1> QED BY <1>1, <1>2, <1>3, BaseInvAlways, PTL DEF Spec
=============================================================================
