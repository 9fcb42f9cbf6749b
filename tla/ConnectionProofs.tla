-------------------------- MODULE ConnectionProofs --------------------------
(***************************************************************************)
(* Proofs about Connection, for any queries and any bounds: its types, the *)
(* count of unanswered listens, the single attempt under way, the release  *)
(* of answers held back, that listens outlive expired tokens, the order of *)
(* the completion blocks, and that the connection implements Wire.         *)
(***************************************************************************)
EXTENDS Connection, TLAPS, FiniteSetTheorems, SequenceTheorems,
        NaturalsInduction, WellFoundedInduction

-----------------------------------------------------------------------------
(* Sequences of messages.                                                  *)

LEMMA SeqTypes ==
    ASSUME NEW S
    PROVE  /\ <<>> \in Seq(S)
           /\ \A s \in Seq(S), x \in S : Append(s, x) \in Seq(S)
           /\ \A s, t \in Seq(S) : s \o t \in Seq(S)
           /\ \A s \in Seq(S) : s # <<>> => Head(s) \in S /\ Tail(s) \in Seq(S)
<1>1. \A s \in Seq(S), x \in S : Append(s, x) \in Seq(S)
    BY AppendProperties
<1>2. \A s, t \in Seq(S) : s \o t \in Seq(S)
    BY ConcatProperties
<1>3. \A s \in Seq(S) : s # <<>> => Head(s) \in S /\ Tail(s) \in Seq(S)
    BY HeadTailProperties
<1> QED BY <1>1, <1>2, <1>3, EmptySeq

\* What is left when one element is taken out.
LEMMA RemoveAtType ==
    ASSUME NEW S, NEW s \in Seq(S), NEW i \in DOMAIN s
    PROVE  RemoveAt(s, i) \in Seq(S)
<1>1. /\ i \in 1..Len(s) /\ Len(s) \in Nat
      /\ \A j \in 1..Len(s) : s[j] \in S
    BY LenProperties, ElementOfSeq
<1>2. SubSeq(s, 1, i - 1) \in Seq(S)
    BY <1>1, SubSeqProperties
<1>3. SubSeq(s, i + 1, Len(s)) \in Seq(S)
    BY <1>1, SubSeqProperties
<1> QED BY <1>2, <1>3, ConcatProperties DEF RemoveAt

\* Some message of s is in G; every message of s that is in B has one of G
\* before it.
Meets(s, G)      == \E i \in DOMAIN s : s[i] \in G
Guarded(s, B, G) == \A i \in DOMAIN s : s[i] \in B => \E j \in DOMAIN s : j < i /\ s[j] \in G

LEMMA MeetsAppend ==
    ASSUME NEW S, NEW s \in Seq(S), NEW x \in S, NEW G
    PROVE  Meets(Append(s, x), G) <=> Meets(s, G) \/ x \in G
<1>1. /\ Len(s) \in Nat /\ DOMAIN s = 1..Len(s)
      /\ DOMAIN Append(s, x) = 1..(Len(s) + 1)
      /\ \A i \in 1..Len(s) : Append(s, x)[i] = s[i]
      /\ Append(s, x)[Len(s) + 1] = x
    BY LenProperties, AppendProperties
<1> QED BY <1>1 DEF Meets

LEMMA MeetsTail ==
    ASSUME NEW S, NEW s \in Seq(S), s # <<>>, NEW G, Head(s) \notin G, Meets(s, G)
    PROVE  Meets(Tail(s), G)
<1>1. /\ Len(s) \in Nat /\ DOMAIN s = 1..Len(s)
      /\ Head(s) = s[1]
      /\ DOMAIN Tail(s) = 1..(Len(s) - 1)
      /\ \A i \in 1..(Len(s) - 1) : Tail(s)[i] = s[i + 1]
    BY LenProperties, EmptySeq, HeadTailProperties
<1>2. PICK i \in 1..Len(s) : s[i] \in G
    BY <1>1 DEF Meets
<1>3. i # 1 /\ i - 1 \in 1..(Len(s) - 1) /\ Tail(s)[i - 1] = s[i]
    BY <1>1, <1>2
<1> QED BY <1>1, <1>2, <1>3 DEF Meets

LEMMA MeetsConcat ==
    ASSUME NEW S, NEW s \in Seq(S), NEW t \in Seq(S), NEW G, Meets(s, G)
    PROVE  Meets(s \o t, G)
<1>1. /\ Len(s) \in Nat /\ Len(t) \in Nat /\ DOMAIN s = 1..Len(s)
      /\ DOMAIN (s \o t) = 1..(Len(s) + Len(t))
      /\ \A i \in 1..Len(s) : (s \o t)[i] = s[i]
    BY LenProperties, ConcatProperties
<1> QED BY <1>1 DEF Meets

LEMMA GuardedAppend ==
    ASSUME NEW S, NEW s \in Seq(S), NEW x \in S, NEW B, NEW G,
           Guarded(s, B, G), x \notin B \/ Meets(s, G)
    PROVE  Guarded(Append(s, x), B, G)
<1>1. /\ Len(s) \in Nat /\ DOMAIN s = 1..Len(s)
      /\ DOMAIN Append(s, x) = 1..(Len(s) + 1)
      /\ \A i \in 1..Len(s) : Append(s, x)[i] = s[i]
      /\ Append(s, x)[Len(s) + 1] = x
    BY LenProperties, AppendProperties
<1> QED BY <1>1 DEF Meets, Guarded

LEMMA GuardedHead ==
    ASSUME NEW S, NEW s \in Seq(S), s # <<>>, NEW B, NEW G, Guarded(s, B, G)
    PROVE  Head(s) \notin B
<1>1. Len(s) \in Nat \ {0} /\ DOMAIN s = 1..Len(s) /\ Head(s) = s[1]
    BY LenProperties, EmptySeq, HeadTailProperties
<1> QED BY <1>1 DEF Guarded

LEMMA GuardedTail ==
    ASSUME NEW S, NEW s \in Seq(S), s # <<>>, NEW B, NEW G,
           Guarded(s, B, G), Head(s) \notin G
    PROVE  Guarded(Tail(s), B, G)
<1>1. /\ Len(s) \in Nat /\ DOMAIN s = 1..Len(s)
      /\ Head(s) = s[1]
      /\ DOMAIN Tail(s) = 1..(Len(s) - 1)
      /\ \A i \in 1..(Len(s) - 1) : Tail(s)[i] = s[i + 1]
    BY LenProperties, EmptySeq, HeadTailProperties
<1>2. SUFFICES ASSUME NEW i \in 1..(Len(s) - 1), s[i + 1] \in B
               PROVE  \E j \in 1..(Len(s) - 1) : j < i /\ s[j + 1] \in G
    BY <1>1 DEF Guarded
<1>3. PICK j \in 1..Len(s) : j < i + 1 /\ s[j] \in G
    BY <1>1, <1>2 DEF Guarded
<1>4. j # 1 /\ j - 1 \in 1..(Len(s) - 1) /\ j - 1 < i /\ (j - 1) + 1 = j
    BY <1>1, <1>2, <1>3
<1> QED BY <1>3, <1>4

LEMMA GuardedConcat ==
    ASSUME NEW S, NEW s \in Seq(S), NEW t \in Seq(S), NEW B, NEW G,
           Guarded(s, B, G), Meets(s, G) \/ ~Meets(t, B)
    PROVE  Guarded(s \o t, B, G)
<1>1. /\ Len(s) \in Nat /\ Len(t) \in Nat
      /\ DOMAIN s = 1..Len(s) /\ DOMAIN t = 1..Len(t)
      /\ DOMAIN (s \o t) = 1..(Len(s) + Len(t))
      /\ \A i \in 1..Len(s) : (s \o t)[i] = s[i]
      /\ \A i \in (Len(s) + 1)..(Len(s) + Len(t)) :
            i - Len(s) \in 1..Len(t) /\ (s \o t)[i] = t[i - Len(s)]
    BY LenProperties, ConcatProperties
<1>2. SUFFICES ASSUME NEW i \in 1..(Len(s) + Len(t)), (s \o t)[i] \in B
               PROVE  \E j \in 1..(Len(s) + Len(t)) : j < i /\ (s \o t)[j] \in G
    BY <1>1 DEF Guarded
<1>3. CASE i \in 1..Len(s)
    BY <1>1, <1>2, <1>3 DEF Guarded
<1>4. CASE i \in (Len(s) + 1)..(Len(s) + Len(t))
    <2>1. PICK j \in 1..Len(s) : s[j] \in G
        BY <1>1, <1>2, <1>4 DEF Meets
    <2> QED BY <1>1, <1>4, <2>1
<1> QED BY <1>1, <1>3, <1>4

-----------------------------------------------------------------------------
(* Counting the listens in a channel.                                      *)

LEMMA ListensFinite ==
    ASSUME NEW S, NEW s \in Seq(S)
    PROVE  IsFiniteSet(ListensIn(s)) /\ Cardinality(ListensIn(s)) \in Nat
<1>1. ListensIn(s) \in SUBSET (1..Len(s)) /\ Len(s) \in Nat
    BY LenProperties DEF ListensIn
<1>2. IsFiniteSet(1..Len(s))
    BY <1>1, FS_Interval
<1>3. IsFiniteSet(ListensIn(s))
    BY <1>1, <1>2, FS_Subset
<1> QED BY <1>3, FS_CardinalityType

LEMMA ListensEmpty == Cardinality(ListensIn(<<>>)) = 0
<1>1. ListensIn(<<>>) = {}
    BY DEF ListensIn
<1> QED BY <1>1, FS_EmptySet

LEMMA ListensAppend ==
    ASSUME NEW S, NEW s \in Seq(S), NEW x \in S
    PROVE  Cardinality(ListensIn(Append(s, x))) =
               Cardinality(ListensIn(s)) + (IF x.kind = "listen" THEN 1 ELSE 0)
<1>1. /\ Len(s) \in Nat /\ DOMAIN s = 1..Len(s)
      /\ DOMAIN Append(s, x) = 1..(Len(s) + 1)
      /\ \A i \in 1..Len(s) : Append(s, x)[i] = s[i]
      /\ Append(s, x)[Len(s) + 1] = x
    BY LenProperties, AppendProperties
<1>2. IsFiniteSet(ListensIn(s)) /\ Cardinality(ListensIn(s)) \in Nat
    BY ListensFinite
<1>5. Len(s) + 1 \notin ListensIn(s)
    BY <1>1 DEF ListensIn
<1>3. CASE x.kind = "listen"
    <2>1. ListensIn(Append(s, x)) = ListensIn(s) \cup {Len(s) + 1}
        BY <1>1, <1>3 DEF ListensIn
    <2> QED BY <1>2, <1>3, <1>5, <2>1, FS_AddElement
<1>4. CASE x.kind # "listen"
    <2>1. ListensIn(Append(s, x)) = ListensIn(s)
        BY <1>1, <1>4 DEF ListensIn
    <2> QED BY <1>2, <1>4, <2>1
<1> QED BY <1>3, <1>4

LEMMA ListensTail ==
    ASSUME NEW S, NEW s \in Seq(S), s # <<>>
    PROVE  Cardinality(ListensIn(s)) =
               Cardinality(ListensIn(Tail(s))) + (IF Head(s).kind = "listen" THEN 1 ELSE 0)
<1> DEFINE T == ListensIn(Tail(s))
           R == ListensIn(s) \ {1}
           f == [i \in T |-> i + 1]
<1>1. /\ Len(s) \in Nat \ {0} /\ DOMAIN s = 1..Len(s)
      /\ Head(s) = s[1] /\ Tail(s) \in Seq(S)
      /\ DOMAIN Tail(s) = 1..(Len(s) - 1)
      /\ \A i \in 1..(Len(s) - 1) : Tail(s)[i] = s[i + 1]
    BY LenProperties, EmptySeq, HeadTailProperties
<1>2. /\ IsFiniteSet(ListensIn(s)) /\ Cardinality(ListensIn(s)) \in Nat
      /\ IsFiniteSet(T) /\ Cardinality(T) \in Nat
    BY <1>1, ListensFinite
<1>3. Cardinality(R) = Cardinality(T)
    <2>1. \A i \in T : i \in 1..(Len(s) - 1) /\ i + 1 \in R
        BY <1>1 DEF ListensIn
    <2>2. \A j \in R : j - 1 \in T /\ (j - 1) + 1 = j
        BY <1>1 DEF ListensIn
    <2>3. f \in Bijection(T, R)
        BY <2>1, <2>2 DEF Bijection, Injection, Surjection, IsInjective
    <2> QED BY <1>2, <2>3, FS_Bijection DEF ExistsBijection
<1>4. Cardinality(R) = IF 1 \in ListensIn(s) THEN Cardinality(ListensIn(s)) - 1
                                            ELSE Cardinality(ListensIn(s))
    BY <1>2, FS_RemoveElement
<1>5. 1 \in ListensIn(s) <=> Head(s).kind = "listen"
    BY <1>1 DEF ListensIn
<1> QED BY <1>2, <1>3, <1>4, <1>5

\* Putting a block of listens, or one without any, behind a channel.
LEMMA ListensConcat ==
    ASSUME NEW S, NEW s \in Seq(S), NEW t \in Seq(S)
    PROVE  /\ (\A i \in DOMAIN t : t[i].kind = "listen") =>
                Cardinality(ListensIn(s \o t)) = Cardinality(ListensIn(s)) + Len(t)
           /\ (\A i \in DOMAIN t : t[i].kind # "listen") =>
                Cardinality(ListensIn(s \o t)) = Cardinality(ListensIn(s))
<1>1. /\ Len(s) \in Nat /\ Len(t) \in Nat
      /\ DOMAIN s = 1..Len(s) /\ DOMAIN t = 1..Len(t)
      /\ DOMAIN (s \o t) = 1..(Len(s) + Len(t))
      /\ \A i \in 1..Len(s) : (s \o t)[i] = s[i]
      /\ \A i \in (Len(s) + 1)..(Len(s) + Len(t)) :
            i - Len(s) \in 1..Len(t) /\ (s \o t)[i] = t[i - Len(s)]
    BY LenProperties, ConcatProperties
<1>2. IsFiniteSet(ListensIn(s)) /\ Cardinality(ListensIn(s)) \in Nat
    BY ListensFinite
<1>3. ASSUME \A i \in DOMAIN t : t[i].kind # "listen"
      PROVE  ListensIn(s \o t) = ListensIn(s)
    BY <1>1, <1>3 DEF ListensIn
<1>4. ASSUME \A i \in DOMAIN t : t[i].kind = "listen"
      PROVE  Cardinality(ListensIn(s \o t)) = Cardinality(ListensIn(s)) + Len(t)
    <2> DEFINE R == (Len(s) + 1)..(Len(s) + Len(t))
    <2>1. ListensIn(s \o t) = ListensIn(s) \cup R
        <3>1. \A i \in R : t[i - Len(s)].kind = "listen"
            BY <1>1, <1>4
        <3>2. 1..(Len(s) + Len(t)) = (1..Len(s)) \cup R
            BY <1>1
        <3>3. \A i \in R : (s \o t)[i].kind = "listen"
            BY <1>1, <3>1
        <3> HIDE DEF R
        <3> QED BY <1>1, <3>2, <3>3 DEF ListensIn
    <2>2. ListensIn(s) \cap R = {}
        BY <1>1 DEF ListensIn
    <2>3. IsFiniteSet(R) /\ Cardinality(R) = Len(t)
        <3>1. PICK a \in Int, b \in Int : a = Len(s) + 1 /\ b = Len(s) + Len(t)
            BY <1>1
        <3>2. /\ IsFiniteSet(a..b)
              /\ Cardinality(a..b) = IF a > b THEN 0 ELSE b - a + 1
            BY FS_Interval
        <3>3. (IF a > b THEN 0 ELSE b - a + 1) = Len(t)
            BY <1>1, <3>1
        <3> QED BY <3>1, <3>2, <3>3
    <2>4. Cardinality(ListensIn(s) \cap R) = 0
        BY <2>2, FS_EmptySet
    <2> HIDE DEF R
    <2>5. Cardinality(ListensIn(s) \cup R) =
            Cardinality(ListensIn(s)) + Cardinality(R) - Cardinality(ListensIn(s) \cap R)
        BY <1>2, <2>3, FS_Union
    <2> QED BY <1>1, <1>2, <2>1, <2>3, <2>4, <2>5
<1> QED BY <1>3, <1>4

-----------------------------------------------------------------------------
(* The invariants.                                                         *)

\* Without a connection there is nothing on the wire and no session.
QuietWire ==
    ~Connected => /\ up = <<>> /\ down = <<>>
                  /\ session = NoToken /\ heard = {}

TypeInv == TypeOK /\ UnackedInFlight /\ QuietWire

\* No two fetches are the latest.
AttemptInv ==
    /\ OneAttempt
    /\ \A f, g \in fetches : f.latest /\ g.latest => f = g

\* While it authenticates, a connection answers the request that restores
\* before those that only refresh the token.
AuthRequests(r) == {m \in Request : m.kind = "auth" /\ m.restore = r}
AuthAnswers(r)  == {m \in Message : m.kind = "auth" /\ m.restore = r}
RestoresFirst ==
    state = "authenticating" =>
        /\ Guarded(down, AuthAnswers(FALSE), AuthAnswers(TRUE))
        /\ \/ Meets(down, AuthAnswers(TRUE))
           \/ /\ Meets(up, AuthRequests(TRUE))
              /\ Guarded(up, AuthRequests(FALSE), AuthRequests(TRUE))

\* As long as nobody has signed out: a listen is only taken away behind a
\* message that closes the connection, and only asked for by a session that
\* is authorised, will be, or is about to be closed; what connects has the
\* token of Firebase Auth, and nothing is wanted before a sign-in.
ListenRequests == {m \in Request : m.kind = "listen"}
AnyAuth        == {m \in Request : m.kind = "auth"}
SignOffs       == {m \in Request : m.kind = "unauth"}
TakesListen    == {m \in Message : m.kind = "cancel" \/ (m.kind = "listen" /\ ~m.ok)}
Closes         == {m \in Message : m.kind = "revoked" \/ (m.kind = "auth" /\ ~m.ok)}
WireKept ==
    /\ Guarded(down, TakesListen, Closes)
    /\ ~Authorised => \/ Meets(down, Closes)
                      \/ heard = {} /\ Guarded(up, ListenRequests, AnyAuth)
    /\ Connected /\ cached # NoToken =>
            Authorised \/ Meets(down, Closes) \/ Meets(up, AnyAuth)
    /\ Guarded(up, SignOffs, {})
TokensKept ==
    /\ state = "connecting" => token = cached
    /\ cached = NoToken => Wanted = {}
KeepInv == ~signedOut => WireKept /\ TokensKept

-----------------------------------------------------------------------------
(* Types, and the count of listens without an answer.                      *)

WireOK == up \in Seq(Request) /\ down \in Seq(Message) /\ UnackedInFlight

\* The requests as the server and the client know them.
LEMMA RequestTypes ==
    /\ \A t \in Token, r \in BOOLEAN : AuthRequest(t, r) \in Request
    /\ Unauth \in Request
    /\ \A q \in Query, n \in 1..MaxListens : ListenTo(q, n) \in Request
    /\ \A q \in Query : UnlistenTo(q) \in Request
    /\ \A p \in Put : PutOf(p) \in Request
BY DEF Request, AuthRequest, Unauth, ListenTo, UnlistenTo, PutOf

\* Something that is not a listen is sent.
LEMMA SendOther ==
    ASSUME WireOK, NEW r \in Request, r.kind # "listen",
           up' = Append(up, r), down' = down, unacked' = unacked
    PROVE  WireOK'
<1>1. up' \in Seq(Request)
    BY SeqTypes DEF WireOK
<1>2. Cardinality(ListensIn(up')) = Cardinality(ListensIn(up))
    <2>1. Cardinality(ListensIn(up)) \in Nat
        BY ListensFinite DEF WireOK
    <2>2. Cardinality(ListensIn(Append(up, r))) = Cardinality(ListensIn(up)) + 0
        BY ListensAppend DEF WireOK
    <2> QED BY <2>1, <2>2
<1> QED BY <1>1, <1>2 DEF WireOK, UnackedInFlight

\* The server takes a request that is not a listen and may answer it.
LEMMA ServeOther ==
    ASSUME WireOK, up # <<>>, Head(up).kind # "listen", up' = Tail(up),
           NEW m \in Message, m.kind # "listen",
           down' = down \/ down' = Append(down, m), unacked' = unacked
    PROVE  WireOK'
<1>1. /\ Cardinality(ListensIn(up)) \in Nat /\ Cardinality(ListensIn(down)) \in Nat
      /\ Cardinality(ListensIn(Tail(up))) \in Nat
    BY SeqTypes, ListensFinite DEF WireOK
<1>2. Cardinality(ListensIn(up)) = Cardinality(ListensIn(Tail(up))) + 0
    BY ListensTail DEF WireOK
<1>3. Cardinality(ListensIn(down')) = Cardinality(ListensIn(down))
    <2>1. Cardinality(ListensIn(Append(down, m))) = Cardinality(ListensIn(down)) + 0
        BY ListensAppend DEF WireOK
    <2>2. Cardinality(ListensIn(Append(down, m))) = Cardinality(ListensIn(down))
        BY <1>1, <2>1
    <2> QED BY <2>2
<1>4. up' \in Seq(Request) /\ down' \in Seq(Message)
    BY SeqTypes DEF WireOK
<1> QED BY <1>1, <1>2, <1>3, <1>4 DEF WireOK, UnackedInFlight

\* A message that answers no listen arrives; the requests stay.
LEMMA ReceiveOther ==
    ASSUME WireOK, down # <<>>, Head(down).kind # "listen", down' = Tail(down),
           up' = up, unacked' = unacked
    PROVE  WireOK'
<1>1. Cardinality(ListensIn(down)) = Cardinality(ListensIn(Tail(down))) + 0
    BY ListensTail DEF WireOK
<1>2. Cardinality(ListensIn(Tail(down))) \in Nat /\ Tail(down) \in Seq(Message)
    BY SeqTypes, ListensFinite DEF WireOK
<1> QED BY <1>1, <1>2 DEF WireOK, UnackedInFlight

\* Closing forgets everything.
LEMMA CloseWire ==
    ASSUME up' = <<>>, down' = <<>>, unacked' = 0
    PROVE  WireOK'
<1>1. /\ Cardinality(ListensIn(up')) = 0 /\ Cardinality(ListensIn(down')) = 0
      /\ up' \in Seq(Request) /\ down' \in Seq(Message)
    BY ListensEmpty, SeqTypes
<1> QED BY <1>1 DEF WireOK, UnackedInFlight

\* What restoreState sends: as many listens as there are queries wanted, and
\* then puts only.
PutRequests == {m \in Request : m.kind = "put"}
LEMMA RestoreShape ==
    ASSUME TypeOK, Restore
    PROVE  /\ Cardinality(Wanted) \in Nat
           /\ unacked' = unacked + Cardinality(Wanted)
           /\ \E a \in Seq(ListenRequests), b \in Seq(PutRequests) :
                up' = up \o a \o b /\ Len(a) = Cardinality(Wanted)
<1>1. IsFiniteSet(Wanted) /\ Cardinality(Wanted) \in Nat
    BY ConnectionBoundAssumption, FS_Subset, FS_CardinalityType DEF Wanted
<1>2. PICK order \in Orders(Wanted) :
        /\ up' = up \o [i \in DOMAIN order |-> ListenTo(order[i], listens[order[i]])]
                    \o [i \in DOMAIN outstanding |-> PutOf(outstanding[i])]
        /\ unacked' = unacked + Cardinality(Wanted)
    BY DEF Restore
<1> DEFINE a == [i \in DOMAIN order |-> ListenTo(order[i], listens[order[i]])]
           b == [i \in DOMAIN outstanding |-> PutOf(outstanding[i])]
<1>3. a \in Seq(ListenRequests) /\ Len(a) = Cardinality(Wanted)
    <2>1. DOMAIN order = 1..Cardinality(Wanted)
          /\ \A i \in DOMAIN order : order[i] \in Wanted
        BY DEF Orders
    <2>2. \A q \in Wanted : ListenTo(q, listens[q]) \in ListenRequests
        BY ConnectionBoundAssumption, RequestTypes DEF TypeOK, Wanted, ListenRequests, ListenTo
    <2>3. \A i \in 1..Cardinality(Wanted) : a[i] \in ListenRequests
        BY <2>1, <2>2
    <2>4. DOMAIN a = 1..Cardinality(Wanted)
        BY <2>1
    <2>5. a \in Seq(ListenRequests)
        BY <1>1, <2>1, <2>3, IsASeq
    <2> HIDE DEF a
    <2>6. DOMAIN a = 1..Len(a) /\ Len(a) \in Nat
        BY <2>5, LenProperties
    <2> QED BY <1>1, <2>4, <2>5, <2>6
<1>4. b \in Seq(PutRequests)
    <2>1. /\ DOMAIN outstanding = 1..Len(outstanding) /\ Len(outstanding) \in Nat
          /\ \A i \in 1..Len(outstanding) : outstanding[i] \in Put
        BY LenProperties, ElementOfSeq DEF TypeOK
    <2>2. \A p \in Put : PutOf(p) \in PutRequests
        BY RequestTypes DEF PutRequests, PutOf
    <2>3. \A i \in 1..Len(outstanding) : b[i] \in PutRequests
        BY <2>1, <2>2
    <2> QED BY <2>1, <2>3, IsASeq
<1> QED BY <1>1, <1>2, <1>3, <1>4

LEMMA RestoreCounts ==
    ASSUME TypeOK, Restore
    PROVE  /\ up' \in Seq(Request)
           /\ Cardinality(ListensIn(up')) = Cardinality(ListensIn(up)) + Cardinality(Wanted)
<1>1. PICK a \in Seq(ListenRequests), b \in Seq(PutRequests) :
                up' = up \o a \o b /\ Len(a) = Cardinality(Wanted)
    BY RestoreShape
<1>2. a \in Seq(Request) /\ b \in Seq(Request) /\ up \in Seq(Request)
    BY SeqMonotonic DEF TypeOK, ListenRequests, PutRequests
<1>3. up \o a \in Seq(Request) /\ up' \in Seq(Request)
    BY <1>1, <1>2, SeqTypes
<1>4. /\ \A i \in DOMAIN a : a[i].kind = "listen"
      /\ \A i \in DOMAIN b : b[i].kind # "listen"
    BY LenProperties, ElementOfSeq DEF ListenRequests, PutRequests
<1>5. Cardinality(ListensIn(up \o a)) = Cardinality(ListensIn(up)) + Len(a)
    BY <1>2, <1>4, ListensConcat
<1>6. Cardinality(ListensIn(up')) = Cardinality(ListensIn(up \o a))
    BY <1>1, <1>2, <1>3, <1>4, ListensConcat
<1> QED BY <1>1, <1>3, <1>5, <1>6

LEMMA RestoreWire ==
    ASSUME TypeOK, WireOK, Restore, down' = down
    PROVE  WireOK'
<1>1. Cardinality(Wanted) \in Nat /\ unacked' = unacked + Cardinality(Wanted)
    BY RestoreShape
<1>2. up' \in Seq(Request) /\ Cardinality(ListensIn(up')) =
                                Cardinality(ListensIn(up)) + Cardinality(Wanted)
    BY RestoreCounts
<1>3. Cardinality(ListensIn(up)) \in Nat /\ Cardinality(ListensIn(down)) \in Nat
    BY ListensFinite DEF WireOK
<1> QED BY <1>1, <1>2, <1>3 DEF WireOK, UnackedInFlight

\* The number of a new write is within the bound.
LEMMA NextPutType ==
    ASSUME TypeOK, Cardinality(Made) < MaxPuts
    PROVE  Cardinality(Made) + 1 \in Put
<1>1. Made \in SUBSET Put
    <2>1. /\ \A i \in DOMAIN called : called[i] \in Put
          /\ \A i \in DOMAIN held : held[i] \in Put
          /\ \A i \in DOMAIN outstanding : outstanding[i] \in Put
        BY LenProperties, ElementOfSeq DEF TypeOK
    <2> QED BY <2>1 DEF Made, Called
<1>2. IsFiniteSet(Put)
    BY ConnectionBoundAssumption, FS_Interval DEF Put
<1>3. Cardinality(Made) \in Nat
    BY <1>1, <1>2, FS_Subset, FS_CardinalityType
<1> QED BY <1>3, ConnectionBoundAssumption DEF Put

\* The answer that lets the client restore is taken off the wire first.
LEMMA RestoreOnAnswer ==
    ASSUME TypeOK, WireOK, Restore, down # <<>>, Head(down).kind # "listen",
           down' = Tail(down)
    PROVE  WireOK'
<1>1. Cardinality(Wanted) \in Nat /\ unacked' = unacked + Cardinality(Wanted)
    BY RestoreShape
<1>2. up' \in Seq(Request) /\ Cardinality(ListensIn(up')) =
                                Cardinality(ListensIn(up)) + Cardinality(Wanted)
    BY RestoreCounts
<1>3. Cardinality(ListensIn(down)) = Cardinality(ListensIn(Tail(down))) + 0
    BY ListensTail DEF WireOK
<1>4. /\ Tail(down) \in Seq(Message) /\ Cardinality(ListensIn(Tail(down))) \in Nat
      /\ Cardinality(ListensIn(up)) \in Nat
    BY SeqTypes, ListensFinite DEF WireOK
<1> QED BY <1>1, <1>2, <1>3, <1>4 DEF WireOK, UnackedInFlight

\* The server says something that was not asked for.
LEMMA PushWire ==
    ASSUME WireOK, NEW m \in Message, m.kind # "listen",
           down' = Append(down, m), up' = up, unacked' = unacked
    PROVE  WireOK'
<1>1. Cardinality(ListensIn(Append(down, m))) = Cardinality(ListensIn(down)) + 0
    BY ListensAppend DEF WireOK
<1>2. Cardinality(ListensIn(down)) \in Nat /\ Append(down, m) \in Seq(Message)
    BY SeqTypes, ListensFinite DEF WireOK
<1> QED BY <1>1, <1>2 DEF WireOK, UnackedInFlight

\* The server takes a request and answers it.
LEMMA ServeStepWire ==
    ASSUME TypeOK, WireOK, Serve
    PROVE  WireOK'
<1>1. up # <<>> /\ Head(up) \in Request /\ up' = Tail(up) /\ unacked' = unacked
    BY SeqTypes DEF WireOK, Serve, ServeAuth, ServeUnauth, ServeListen, ServeUnlisten,
                    ServePut, Serves, ServerOnly, listening
<1>2. CASE ServeAuth
    <2> DEFINE m == [kind |-> "auth", ok |-> Head(up).token >= valid,
                     restore |-> Head(up).restore]
    <2>1. m \in Message /\ m.kind # "listen" /\ down' = Append(down, m)
          /\ Head(up).kind # "listen"
        BY <1>1, <1>2 DEF ServeAuth, Serves, Answer, Request, Message
    <2> HIDE DEF m
    <2> QED BY <1>1, <2>1, ServeOther
<1>3. CASE ServeUnauth \/ ServeUnlisten
    <2>1. [kind |-> "revoked"] \in Message
        BY DEF Message
    <2> QED BY <1>1, <1>3, <2>1, ServeOther DEF ServeUnauth, ServeUnlisten, Serves
<1>4. CASE ServePut
    <2>1. Head(up) \in Message /\ Head(up).kind # "listen" /\ down' = Append(down, Head(up))
        BY <1>1, <1>4 DEF ServePut, Serves, Answer, Request, Message
    <2> QED BY <1>1, <2>1, ServeOther
<1>5. CASE ServeListen
    <2> DEFINE m == [kind |-> "listen", query |-> Head(up).query,
                     spec |-> Head(up).spec, ok |-> Authorised]
    <2>1. m \in Message /\ m.kind = "listen" /\ down' = Append(down, m)
          /\ Head(up).kind = "listen"
        BY <1>1, <1>5 DEF ServeListen, Serves, Answer, Request, Message, Authorised
    <2> HIDE DEF m
    <2>2. Cardinality(ListensIn(Append(down, m))) = Cardinality(ListensIn(down)) + 1
        BY <2>1, ListensAppend DEF WireOK
    <2>3. Cardinality(ListensIn(up)) = Cardinality(ListensIn(Tail(up))) + 1
        BY <1>1, <2>1, ListensTail DEF WireOK
    <2>4. /\ Tail(up) \in Seq(Request) /\ Append(down, m) \in Seq(Message)
          /\ Cardinality(ListensIn(down)) \in Nat
        BY <1>1, <2>1, SeqTypes, ListensFinite DEF WireOK
    <2>5. Cardinality(ListensIn(Tail(up))) \in Nat
        BY <2>4, ListensFinite
    <2> QED BY <1>1, <2>1, <2>2, <2>3, <2>4, <2>5 DEF WireOK, UnackedInFlight
<1> QED BY <1>2, <1>3, <1>4, <1>5 DEF Serve

\* What restoreState sends disturbs no order of requests before it.
LEMMA RestoreGuards ==
    ASSUME TypeOK, Restore, NEW B, NEW G, Guarded(up, B, G),
           \/ Meets(up, G)
           \/ B \cap (ListenRequests \cup PutRequests) = {}
           \/ Wanted = {} /\ B \cap PutRequests = {}
    PROVE  Guarded(up', B, G)
<1>1. PICK a \in Seq(ListenRequests), b \in Seq(PutRequests) :
                up' = up \o a \o b /\ Len(a) = Cardinality(Wanted)
    BY RestoreShape
<1>2. a \in Seq(Request) /\ b \in Seq(Request) /\ up \in Seq(Request)
    BY SeqMonotonic DEF TypeOK, ListenRequests, PutRequests
<1>3. up \o a \in Seq(Request)
    BY <1>2, SeqTypes
<1>4. /\ \A i \in DOMAIN a : a[i] \in ListenRequests
      /\ \A i \in DOMAIN b : b[i] \in PutRequests
      /\ Len(a) = 0 => DOMAIN a = {}
    BY LenProperties, ElementOfSeq
<1>5. Wanted = {} => DOMAIN a = {}
    BY <1>1, <1>4, FS_EmptySet
<1>6. Meets(up, G) \/ ~Meets(a, B)
    BY <1>4, <1>5 DEF Meets
<1>7. Guarded(up \o a, B, G)
    BY <1>2, <1>6, GuardedConcat
<1>8. Meets(up \o a, G) \/ ~Meets(b, B)
    <2>1. CASE Meets(up, G)
        BY <1>2, <2>1, MeetsConcat
    <2>2. CASE ~Meets(up, G)
        BY <1>4, <2>2 DEF Meets
    <2> QED BY <2>1, <2>2
<1> QED BY <1>1, <1>2, <1>3, <1>7, <1>8, GuardedConcat

LEMMA RestoreMeets ==
    ASSUME TypeOK, Restore, NEW G, Meets(up, G)
    PROVE  Meets(up', G)
<1>1. PICK a \in Seq(ListenRequests), b \in Seq(PutRequests) : up' = up \o a \o b
    BY RestoreShape
<1>2. a \in Seq(Request) /\ b \in Seq(Request) /\ up \in Seq(Request)
    BY SeqMonotonic DEF TypeOK, ListenRequests, PutRequests
<1>3. up \o a \in Seq(Request) /\ Meets(up \o a, G)
    BY <1>2, SeqTypes, MeetsConcat
<1> QED BY <1>1, <1>2, <1>3, MeetsConcat

\* What a new token makes the client send.
LEMMA RefreshWire ==
    ASSUME TypeOK, WireOK, NEW t \in Token \cup {NoToken}, RefreshAuth(t),
           down' = down, unacked' = unacked
    PROVE  WireOK' /\ token' \in Token \cup {NoToken}
<1>1. CASE ~Connected
    BY <1>1 DEF RefreshAuth, WireOK, UnackedInFlight
<1>2. CASE Connected /\ t = NoToken
    <2>1. up' = Append(up, Unauth) /\ Unauth \in Request /\ Unauth.kind # "listen"
        BY <1>2, RequestTypes DEF RefreshAuth, Unauth
    <2> QED BY <2>1, SendOther DEF RefreshAuth
<1>3. CASE Connected /\ t # NoToken
    <2>1. up' = Append(up, AuthRequest(t, FALSE)) /\ AuthRequest(t, FALSE) \in Request
        BY <1>3, RequestTypes DEF RefreshAuth
    <2>2. AuthRequest(t, FALSE).kind # "listen"
        BY DEF AuthRequest
    <2> QED BY <2>1, <2>2, SendOther DEF RefreshAuth
<1> QED BY <1>1, <1>2, <1>3

\* Every step keeps the channels typed and the count right.
LEMMA WireStep ==
    ASSUME TypeInv, Next
    PROVE  WireOK'
<1>0. WireOK /\ TypeOK
    BY DEF TypeInv, TypeOK, WireOK
<1>1. ASSUME NEW q \in Query, Listen(q) PROVE WireOK'
    <2>1. asks' \in 1..MaxListens
        BY <1>0, <1>1, ConnectionBoundAssumption DEF Listen, TypeOK
    <2>2. CASE Connected
        <3> DEFINE r == ListenTo(q, asks')
        <3>1. r \in Request /\ r.kind = "listen"
            BY <2>1, RequestTypes DEF ListenTo
        <3>2. up' = Append(up, r) /\ unacked' = unacked + 1 /\ down' = down
            BY <1>1, <2>2 DEF Listen
        <3> HIDE DEF r
        <3>3. Cardinality(ListensIn(Append(up, r))) = Cardinality(ListensIn(up)) + 1
            BY <1>0, <3>1, ListensAppend DEF WireOK
        <3>4. Cardinality(ListensIn(up)) \in Nat /\ Cardinality(ListensIn(down)) \in Nat
            BY <1>0, ListensFinite DEF WireOK
        <3>5. up' \in Seq(Request)
            BY <1>0, <3>1, <3>2, SeqTypes DEF WireOK
        <3> QED BY <1>0, <3>2, <3>3, <3>4, <3>5 DEF WireOK, UnackedInFlight
    <2>3. CASE ~Connected
        BY <1>0, <1>1, <2>3 DEF Listen, WireOK, UnackedInFlight
    <2> QED BY <2>2, <2>3
<1>2. ASSUME NEW q \in Query, Unlisten(q) PROVE WireOK'
    <2>1. UnlistenTo(q) \in Request /\ UnlistenTo(q).kind # "listen"
        BY RequestTypes DEF UnlistenTo
    <2>2. CASE Connected
        BY <1>0, <1>2, <2>1, <2>2, SendOther DEF Unlisten
    <2>3. CASE ~Connected
        BY <1>0, <1>2, <2>3 DEF Unlisten, WireOK, UnackedInFlight
    <2> QED BY <2>2, <2>3
<1>3. CASE PutData
    <2> DEFINE p == Cardinality(Made) + 1
    <2>1. PutOf(p) \in Request /\ PutOf(p).kind # "listen"
        <3>1. p \in Put
            BY <1>0, <1>3, NextPutType DEF PutData
        <3> QED BY <3>1, RequestTypes DEF PutOf
    <2>2. CASE CanSendWrites
        BY <1>0, <1>3, <2>1, <2>2, SendOther DEF PutData, listening
    <2>3. CASE ~CanSendWrites
        BY <1>0, <1>3, <2>3 DEF PutData, listening, WireOK, UnackedInFlight
    <2> QED BY <2>2, <2>3
<1>4. CASE SignIn \/ SignOut
    BY <1>0, <1>4, RefreshWire DEF SignIn, SignOut, TypeOK, listening
<1>5. CASE Interrupt \/ Lose \/ OnKill
    BY <1>0, <1>5, CloseWire DEF Interrupt, Lose, OnKill, HangUp, net, WireOK, UnackedInFlight
<1>6. CASE Nudge \/ Retry \/ Revoke \/ \E r \in Reason : Resume(r)
    BY <1>0, <1>6 DEF Nudge, Retry, Revoke, Resume, net, listening, WireOK, UnackedInFlight
<1>7. ASSUME NEW f \in fetches, FetchFails(f) PROVE WireOK'
    BY <1>0, <1>7 DEF FetchFails, net, listening, WireOK, UnackedInFlight
<1>8. ASSUME NEW f \in fetches, Fetched(f) PROVE WireOK'
    <2>1. cached' \in Token \cup {NoToken} /\ down' = down /\ unacked' = unacked
        BY <1>0, <1>8 DEF Fetched, TypeOK, listening
    <2>2. CASE up' = up
        BY <1>0, <2>1, <2>2 DEF WireOK, UnackedInFlight
    <2>3. CASE RefreshAuth(cached')
        <3>1. PICK t \in Token \cup {NoToken} : t = cached'
            BY <2>1
        <3>2. RefreshAuth(t)
            BY <2>3, <3>1 DEF RefreshAuth
        <3> QED BY <1>0, <2>1, <3>2, RefreshWire
    <2> QED BY <1>8, <2>2, <2>3 DEF Fetched
<1>9. CASE OnReady
    <2>1. CASE token = NoToken
        BY <1>0, <1>9, <2>1, RestoreWire DEF OnReady
    <2>2. CASE token # NoToken
        <3>1. AuthRequest(token, TRUE) \in Request /\ AuthRequest(token, TRUE).kind # "listen"
            BY <1>0, <2>2, RequestTypes DEF TypeOK, AuthRequest
        <3> QED BY <1>0, <1>9, <2>2, <3>1, SendOther DEF OnReady
    <2> QED BY <2>1, <2>2
<1>10. CASE RecvAuth
    <2>1. CASE ~Head(down).ok
        BY <1>10, <2>1, CloseWire DEF RecvAuth, HangUp
    <2>2. CASE Head(down).ok
        <3>1. /\ down # <<>> /\ Head(down).kind = "auth" /\ down' = Tail(down)
              /\ Restore \/ (up' = up /\ unacked' = unacked)
            BY <1>10, <2>2 DEF RecvAuth, Receives, Arrived
        <3>2. CASE up' = up /\ unacked' = unacked
            BY <1>0, <3>1, <3>2, ReceiveOther
        <3>3. CASE Restore
            BY <1>0, <3>1, <3>3, RestoreOnAnswer
        <3> QED BY <3>1, <3>2, <3>3
    <2> QED BY <2>1, <2>2
<1>11. CASE RecvRevoked
    BY <1>11, CloseWire DEF RecvRevoked, HangUp
<1>12. CASE RecvCancel \/ RecvPut
    BY <1>0, <1>12, ReceiveOther DEF RecvCancel, RecvPut, Receives, Arrived, listening
<1>13. CASE RecvListen
    <2>1. Cardinality(ListensIn(down)) = Cardinality(ListensIn(Tail(down))) + 1
        BY <1>0, <1>13, ListensTail DEF RecvListen, Receives, WireOK
    <2>2. Tail(down) \in Seq(Message)
        BY <1>0, <1>13, SeqTypes DEF RecvListen, Receives, WireOK
    <2>3. Cardinality(ListensIn(Tail(down))) \in Nat /\ Cardinality(ListensIn(up)) \in Nat
        BY <1>0, <2>2, ListensFinite DEF WireOK
    <2> QED BY <1>0, <1>13, <2>1, <2>2, <2>3
            DEF RecvListen, Receives, Arrived, WireOK, UnackedInFlight
<1>14. CASE Serve
    BY <1>0, <1>14, ServeStepWire
<1>15. CASE ServerRevokes
    BY <1>0, <1>15, PushWire DEF ServerRevokes, ServerOnly, Answer, Message, listening
<1>16. ASSUME NEW q \in Query, ServerCancels(q) PROVE WireOK'
    BY <1>0, <1>16, PushWire DEF ServerCancels, ServerOnly, Answer, Message, listening
<1> QED
    BY <1>1, <1>2, <1>3, <1>4, <1>5, <1>6, <1>7, <1>8, <1>9, <1>10, <1>11, <1>12,
       <1>13, <1>14, <1>15, <1>16
    DEF Next, App, Fault, FetchDone, Receive, Reason

\* A new attempt is the only one that is the latest.
LEMMA RetryFetches ==
    ASSUME TypeOK, Retry
    PROVE  /\ fetches' \subseteq [latest : BOOLEAN, force : BOOLEAN]
           /\ \A f \in fetches' : f.latest => f = [latest |-> TRUE, force |-> retry = "forced"]
<1>1. \A f \in fetches : f \in [latest : BOOLEAN, force : BOOLEAN]
    BY DEF TypeOK
<1>2. ASSUME NEW f \in fetches
      PROVE  /\ [f EXCEPT !.latest = FALSE] \in [latest : BOOLEAN, force : BOOLEAN]
             /\ [f EXCEPT !.latest = FALSE].latest = FALSE
    <2>1. f \in [latest : BOOLEAN, force : BOOLEAN]
        BY <1>1
    <2> QED BY <2>1, Zenon
<1>3. [latest |-> TRUE, force |-> retry = "forced"] \in [latest : BOOLEAN, force : BOOLEAN]
    BY Zenon
<1>4. ASSUME NEW g \in fetches'
      PROVE  /\ g \in [latest : BOOLEAN, force : BOOLEAN]
             /\ g.latest => g = [latest |-> TRUE, force |-> retry = "forced"]
    <2>1. \/ g = [latest |-> TRUE, force |-> retry = "forced"]
          \/ \E f \in fetches : g = [f EXCEPT !.latest = FALSE]
        BY <1>4, Zenon DEF Retry
    <2> QED BY <1>2, <1>3, <2>1, Zenon
<1> QED BY <1>4, Zenon

\* Every step keeps the types.
LEMMA TypeStep ==
    ASSUME TypeInv, Next
    PROVE  TypeOK'
<1>0. TypeOK /\ valid \in 0..MaxRevoked /\ Token = 0..MaxRevoked
    BY DEF TypeInv, TypeOK, Token
<1>1. /\ up' \in Seq(Request) /\ down' \in Seq(Message) /\ unacked' \in Nat
    <2>1. WireOK'
        BY WireStep
    <2>2. /\ \A s \in Seq(Request) : Cardinality(ListensIn(s)) \in Nat
          /\ \A s \in Seq(Message) : Cardinality(ListensIn(s)) \in Nat
        BY ListensFinite
    <2> QED BY <2>1, <2>2 DEF WireOK, UnackedInFlight
<1>2. \A f \in BOOLEAN : \A why : TrySchedule(why, f) =>
            retry' \in {"none", "plain", "forced"} /\ force' \in BOOLEAN
    BY <1>0 DEF TrySchedule, Schedule, TypeOK
<1>23. Counted => events' \in 0..MaxEvents
    BY <1>0, ConnectionBoundAssumption DEF TypeOK, Counted
<1>3. ASSUME NEW q \in Query, Listen(q) PROVE TypeOK'
    BY <1>0, <1>1, <1>3, ConnectionBoundAssumption
    DEF TypeOK, Listen, machine, writing, auth
<1>4. ASSUME NEW q \in Query, Unlisten(q) PROVE TypeOK'
    BY <1>0, <1>1, <1>4, ConnectionBoundAssumption
    DEF TypeOK, Unlisten, machine, writing, auth, counts
<1>5. CASE PutData
    <2>1. outstanding' \in Seq(Put)
        BY <1>0, <1>5, NextPutType, SeqTypes DEF PutData, TypeOK
    <2> QED BY <1>0, <1>1, <1>5, <2>1 DEF TypeOK, PutData, machine, listening, auth, counts
<1>6. CASE SignIn \/ SignOut
    <2>1. token' = cached' /\ cached' \in Token \cup {NoToken} /\ signedOut' \in BOOLEAN
        BY <1>0, <1>6 DEF TypeOK, SignIn, SignOut, RefreshAuth
    <2> QED BY <1>0, <1>1, <1>6, <1>23, <2>1
            DEF TypeOK, SignIn, SignOut, machine, listening, writing
<1>7. CASE Interrupt
    <2>1. state' = "disconnected" /\ reasons' = reasons \cup {"repo"}
        BY <1>7 DEF Interrupt, HangUp
    <2>2. /\ retry' \in {"none", "plain", "forced"} /\ force' \in BOOLEAN
          /\ session' \in Token \cup {NoToken, Refused} /\ heard' \subseteq Query
        BY <1>0, <1>2, <1>7 DEF TypeOK, Interrupt, HangUp, net
    <2> QED BY <1>0, <1>1, <1>7, <1>23, <2>1, <2>2
            DEF TypeOK, Interrupt, LinkState, Reason, writing, auth
<1>8. CASE Lose \/ OnKill
    <2>1. /\ state' = "disconnected"
          /\ reasons' \in {reasons, reasons \cup {"server kill"}}
          /\ retry' \in {"none", "plain", "forced"} /\ force' \in BOOLEAN
          /\ session' = NoToken /\ heard' = {}
        BY <1>0, <1>2, <1>8 DEF TypeOK, Lose, OnKill, HangUp
    <2> QED BY <1>0, <1>1, <1>8, <1>23, <2>1
            DEF TypeOK, Lose, OnKill, LinkState, Reason, writing, auth
<1>10. CASE Nudge
    <2>1. retry' \in {"none", "plain", "forced"} /\ force' \in BOOLEAN
        BY <1>0, <1>2, <1>10 DEF TypeOK, Nudge
    <2> QED BY <1>0, <1>1, <1>10, <1>23, <2>1 DEF TypeOK, Nudge, listening, writing, net, auth
<1>11. ASSUME NEW r \in {"waiting for open", "repo"}, Resume(r) PROVE TypeOK'
    <2>1. retry' \in {"none", "plain", "forced"} /\ force' \in BOOLEAN
        BY <1>0, <1>2, <1>11 DEF TypeOK, Resume
    <2>2. reasons' \subseteq Reason
        BY <1>0, <1>11 DEF TypeOK, Resume
    <2> QED BY <1>0, <1>1, <1>11, <2>1, <2>2
            DEF TypeOK, Resume, listening, writing, net, auth, counts
<1>12. CASE Retry
    <2>1. fetches' \subseteq [latest : BOOLEAN, force : BOOLEAN]
        BY <1>0, <1>12, RetryFetches DEF TypeOK
    <2> QED BY <1>0, <1>1, <1>12, <2>1
            DEF TypeOK, Retry, LinkState, listening, writing, net, auth, counts
<1>13. CASE Revoke
    <2>1. valid' \in Token
        BY <1>0, <1>13, ConnectionBoundAssumption DEF Revoke
    <2> QED BY <1>0, <1>1, <1>13, <1>23, <2>1
            DEF TypeOK, Revoke, machine, listening, writing, net
<1>14. ASSUME NEW f \in fetches, FetchFails(f) PROVE TypeOK'
    <2>1. /\ retry' \in {"none", "plain", "forced"} /\ force' \in BOOLEAN
          /\ fetches' \subseteq [latest : BOOLEAN, force : BOOLEAN]
        BY <1>0, <1>2, <1>14 DEF TypeOK, FetchFails
    <2> QED BY <1>0, <1>1, <1>14, <1>23, <2>1
            DEF TypeOK, FetchFails, LinkState, listening, writing, net, auth
<1>15. ASSUME NEW f \in fetches, Fetched(f) PROVE TypeOK'
    <2>1. /\ cached' \in Token \cup {NoToken} /\ token' \in Token \cup {NoToken}
          /\ state' \in LinkState /\ fetches' \subseteq [latest : BOOLEAN, force : BOOLEAN]
        BY <1>0, <1>15 DEF TypeOK, Fetched, RefreshAuth, LinkState
    <2> QED BY <1>0, <1>1, <1>15, <2>1 DEF TypeOK, Fetched, listening, writing, counts
<1>16. CASE OnReady
    BY <1>0, <1>1, <1>16 DEF TypeOK, OnReady, LinkState, writing, auth, counts
<1>17. CASE RecvAuth \/ RecvRevoked
    <2>1. /\ state' \in LinkState /\ reasons' = reasons
          /\ retry' \in {"none", "plain", "forced"} /\ force' \in BOOLEAN
          /\ token' \in {token, NoToken}
          /\ session' \in {session, NoToken} /\ heard' \in {heard, {}}
        BY <1>0, <1>2, <1>17 DEF TypeOK, RecvAuth, RecvRevoked, HangUp, LinkState
    <2> QED BY <1>0, <1>1, <1>17, <2>1
            DEF TypeOK, RecvAuth, RecvRevoked, writing, auth, counts
<1>18. CASE RecvCancel
    <2>1. listens' \in [Query -> 0..MaxListens]
        <3>1. 0 \in 0..MaxListens
            BY ConnectionBoundAssumption
        <3> QED BY <1>0, <1>18, <3>1 DEF TypeOK, RecvCancel
    <2> QED BY <1>0, <1>1, <1>18, <2>1 DEF TypeOK, RecvCancel, machine, writing, auth, counts
<1>19. CASE RecvListen
    <2>1. held' \in Seq(Put) /\ called' \in Seq(Put)
        <3>1. called \o held \in Seq(Put) /\ <<>> \in Seq(Put)
            BY <1>0, SeqTypes DEF TypeOK
        <3> QED BY <1>0, <1>19, <3>1 DEF TypeOK, RecvListen
    <2>2. listens' \in [Query -> 0..MaxListens]
        <3>1. 0 \in 0..MaxListens
            BY ConnectionBoundAssumption
        <3> QED BY <1>0, <1>19, <3>1 DEF TypeOK, RecvListen
    <2> QED BY <1>0, <1>1, <1>19, <2>1, <2>2 DEF TypeOK, RecvListen, machine, auth, counts
<1>20. CASE RecvPut
    <2>1. Head(down).put \in Put
        <3>1. Head(down) \in Message /\ Head(down).kind = "put"
            BY <1>0, <1>20, SeqTypes DEF TypeOK, RecvPut, Receives
        <3> QED BY <3>1 DEF Message
    <2>2. outstanding' \in Seq(Put)
        <3>1. PICK i \in DOMAIN outstanding : outstanding' = RemoveAt(outstanding, i)
            BY <1>20 DEF RecvPut
        <3> QED BY <1>0, <3>1, RemoveAtType DEF TypeOK
    <2>3. held' \in Seq(Put) /\ called' \in Seq(Put)
        <3> DEFINE p == Head(down).put
        <3>1. Append(called, p) \in Seq(Put) /\ Append(held, p) \in Seq(Put)
            BY <1>0, <2>1, SeqTypes DEF TypeOK
        <3> QED BY <1>0, <1>20, <3>1 DEF TypeOK, RecvPut
    <2> QED BY <1>0, <1>1, <1>20, <2>2, <2>3
            DEF TypeOK, RecvPut, machine, listening, auth, counts
<1>21. CASE Serve
    <2>1. Head(up) \in Request
        BY <1>0, <1>21, SeqTypes DEF TypeOK, Serve, ServeAuth, ServeUnauth, ServeListen,
                                     ServeUnlisten, ServePut, Serves
    <2>2. /\ session' \in Token \cup {NoToken, Refused} /\ heard' \subseteq Query
          /\ ServerOnly
        BY <1>0, <1>21, <2>1 DEF TypeOK, Serve, ServeAuth, ServeUnauth, ServeListen,
                                 ServeUnlisten, ServePut, Serves, Request
    <2> QED BY <1>0, <1>1, <2>2 DEF TypeOK, ServerOnly, machine, listening, writing, auth, counts
<1>22. CASE ServerRevokes \/ \E q \in Query : ServerCancels(q)
    BY <1>0, <1>1, <1>22
    DEF TypeOK, ServerRevokes, ServerCancels, ServerOnly, machine, listening, writing,
        auth, counts
<1> QED
    BY <1>3, <1>4, <1>5, <1>6, <1>7, <1>8, <1>10, <1>11, <1>12, <1>13, <1>14,
       <1>15, <1>16, <1>17, <1>18, <1>19, <1>20, <1>21, <1>22
    DEF Next, App, Fault, FetchDone, Receive

\* One attempt at a time.
LEMMA AttemptStep ==
    ASSUME TypeInv, AttemptInv, Next
    PROVE  AttemptInv'
<1>1. CASE UNCHANGED machine
    BY <1>1 DEF AttemptInv, OneAttempt, machine
<1>2. CASE Interrupt \/ Lose \/ OnKill \/ RecvAuth \/ RecvRevoked
    <2>1. fetches' = fetches
        BY <1>2 DEF Interrupt, Lose, OnKill, RecvAuth, RecvRevoked
    <2>2. CASE Interrupt
        BY <1>2, <2>1, <2>2 DEF AttemptInv, OneAttempt, Interrupt, HangUp, TrySchedule, Schedule
    <2>3. CASE Lose \/ OnKill
        BY <1>2, <2>1, <2>3 DEF AttemptInv, OneAttempt, Lose, OnKill, HangUp, TrySchedule, Schedule
    <2>4. CASE RecvAuth \/ RecvRevoked
        <3>1. Connected
            BY <2>4 DEF TypeInv, QuietWire, RecvAuth, RecvRevoked, Receives
        <3> QED BY <2>1, <2>4, <3>1
                DEF AttemptInv, OneAttempt, RecvAuth, RecvRevoked, HangUp, TrySchedule,
                    Schedule, Connected
    <2> QED BY <1>2, <2>2, <2>3, <2>4
<1>3. CASE Nudge
    BY <1>3 DEF AttemptInv, OneAttempt, Nudge, TrySchedule, Schedule
<1>4. ASSUME NEW r \in {"waiting for open", "repo"}, Resume(r) PROVE AttemptInv'
    BY <1>4 DEF AttemptInv, OneAttempt, Resume, TrySchedule, Schedule
<1>5. CASE Retry
    <2>1. \A f \in fetches' : f.latest => f = [latest |-> TRUE, force |-> retry = "forced"]
        BY <1>5, RetryFetches DEF TypeInv
    <2>2. [latest |-> TRUE, force |-> retry = "forced"] \in fetches'
        BY <1>5 DEF Retry
    <2> QED BY <1>5, <2>1, <2>2 DEF AttemptInv, OneAttempt, Retry
<1>6. ASSUME NEW f \in fetches, FetchFails(f) PROVE AttemptInv'
    BY <1>6 DEF AttemptInv, OneAttempt, FetchFails, TrySchedule, Schedule
<1>7. ASSUME NEW f \in fetches, Fetched(f) PROVE AttemptInv'
    BY <1>7 DEF AttemptInv, OneAttempt, Fetched
<1>8. CASE OnReady
    BY <1>8 DEF AttemptInv, OneAttempt, OnReady
<1> QED
    BY <1>1, <1>2, <1>3, <1>4, <1>5, <1>6, <1>7, <1>8
    DEF Next, App, Fault, FetchDone, Receive, Listen, Unlisten, PutData, SignIn, SignOut,
        Revoke, RecvCancel, RecvListen, RecvPut, Serve, ServeAuth, ServeUnauth, ServeListen,
        ServeUnlisten, ServePut, ServerOnly, ServerRevokes, ServerCancels

\* A connection that is not there carries nothing.
LEMMA QuietStep ==
    ASSUME TypeInv, AttemptInv, Next
    PROVE  QuietWire'
<1>1. CASE UNCHANGED <<state, up, down, session, heard>>
    BY <1>1 DEF TypeInv, QuietWire, Connected
<1>2. CASE Connected'
    BY <1>2 DEF QuietWire
<1>3. CASE Interrupt \/ Lose \/ OnKill \/ RecvAuth \/ RecvRevoked
    BY <1>3 DEF TypeInv, TypeOK, LinkState, Interrupt, Lose, OnKill, RecvAuth, RecvRevoked,
                HangUp, net, QuietWire, Connected
<1>4. CASE Retry \/ OnReady
    BY <1>4 DEF TypeInv, AttemptInv, OneAttempt, Retry, OnReady, net, QuietWire, Connected
<1>5. ASSUME NEW f \in fetches, Fetched(f), ~Connected' PROVE QuietWire'
    BY <1>5 DEF TypeInv, QuietWire, Connected, Fetched, RefreshAuth
<1>6. ASSUME NEW f \in fetches, FetchFails(f) PROVE QuietWire'
    BY <1>6 DEF TypeInv, AttemptInv, OneAttempt, QuietWire, Connected, FetchFails, net
<1>7. ASSUME ~Connected', state' = state, up = <<>>, down = <<>>,
             Serve \/ Receive PROVE FALSE
    BY <1>7 DEF Serve, ServeAuth, ServeUnauth, ServeListen, ServeUnlisten, ServePut, Serves,
                Receive, RecvAuth, RecvRevoked, RecvCancel, RecvListen, RecvPut, Receives
<1>8. ASSUME ~Connected', \E q \in Query : Listen(q) \/ Unlisten(q) PROVE QuietWire'
    BY <1>8 DEF TypeInv, QuietWire, Connected, Listen, Unlisten, machine
<1>9. ASSUME ~Connected', PutData \/ SignIn \/ SignOut PROVE QuietWire'
    BY <1>9 DEF TypeInv, QuietWire, Connected, CanSendWrites, PutData, SignIn, SignOut,
                RefreshAuth, machine
<1>10. ASSUME ~Connected', ServerRevokes \/ \E q \in Query : ServerCancels(q) PROVE QuietWire'
    BY <1>10, TokenAssumption DEF TypeInv, QuietWire, Connected, ServerRevokes, ServerCancels,
                Authorised, ServerOnly, machine
<1>11. CASE Nudge \/ Revoke \/ \E r \in {"waiting for open", "repo"} : Resume(r)
    BY <1>1, <1>11 DEF Nudge, Revoke, Resume, net, machine
<1>12. ASSUME ~Connected', Serve \/ RecvCancel \/ RecvListen \/ RecvPut PROVE FALSE
    <2>1. state' = state
        BY <1>12 DEF Serve, ServeAuth, ServeUnauth, ServeListen, ServeUnlisten, ServePut,
                     ServerOnly, RecvCancel, RecvListen, RecvPut, machine
    <2>2. up = <<>> /\ down = <<>>
        BY <1>12, <2>1 DEF TypeInv, QuietWire, Connected
    <2> QED BY <1>7, <1>12, <2>1, <2>2 DEF Receive
<1> QED
    BY <1>2, <1>3, <1>4, <1>5, <1>6, <1>8, <1>9, <1>10, <1>11, <1>12
    DEF Next, App, Fault, FetchDone, Receive

-----------------------------------------------------------------------------
(* Answers held back are released.                                         *)

LEMMA GuardedEmpty == \A B, G : Guarded(<<>>, B, G)
BY DEF Guarded

\* The answer that restores comes before those that do not.
LEMMA RestoresFirstStep ==
    ASSUME TypeInv, AttemptInv, RestoresFirst, Next
    PROVE  RestoresFirst'
<1> DEFINE R == AuthRequests(TRUE)
           N == AuthRequests(FALSE)
<1>0. up \in Seq(Request) /\ down \in Seq(Message) /\ TypeOK
    BY DEF TypeInv, TypeOK
<1> SUFFICES ASSUME state' = "authenticating"
             PROVE  /\ Guarded(down', AuthAnswers(FALSE), AuthAnswers(TRUE))
                    /\ \/ Meets(down', AuthAnswers(TRUE))
                       \/ Meets(up', R) /\ Guarded(up', N, R)
    BY DEF RestoresFirst
<1>1. CASE OnReady
    <2>1. up = <<>> /\ down = <<>> /\ down' = down
        BY <1>1 DEF TypeInv, QuietWire, Connected, OnReady
    <2>2. /\ token \in Token /\ up' = Append(up, AuthRequest(token, TRUE))
        BY <1>0, <1>1 DEF OnReady, TypeOK
    <2>3. AuthRequest(token, TRUE) \in Request /\ AuthRequest(token, TRUE) \in R
          /\ AuthRequest(token, TRUE) \notin N
        BY <2>2, RequestTypes DEF AuthRequests, AuthRequest
    <2> HIDE DEF R, N
    <2> QED BY <1>0, <2>1, <2>2, <2>3, GuardedEmpty, GuardedAppend, MeetsAppend
<1> DEFINE Before == /\ state = "authenticating"
                     /\ Guarded(down, AuthAnswers(FALSE), AuthAnswers(TRUE))
                     /\ \/ Meets(down, AuthAnswers(TRUE))
                        \/ Meets(up, R) /\ Guarded(up, N, R)
<1>2. ASSUME state' = state PROVE Before
    BY <1>2 DEF RestoresFirst
<1>3. ASSUME Before, down' = down, NEW r \in Request, up' = Append(up, r)
      PROVE  /\ Guarded(down', AuthAnswers(FALSE), AuthAnswers(TRUE))
             /\ \/ Meets(down', AuthAnswers(TRUE))
                \/ Meets(up', R) /\ Guarded(up', N, R)
    <2> HIDE DEF R, N
    <2> QED BY <1>0, <1>3, GuardedAppend, MeetsAppend
<1>4. ASSUME Before, up' = up, NEW m \in Message, m.kind # "auth", down' = Append(down, m)
      PROVE  /\ Guarded(down', AuthAnswers(FALSE), AuthAnswers(TRUE))
             /\ \/ Meets(down', AuthAnswers(TRUE))
                \/ Meets(up', R) /\ Guarded(up', N, R)
    <2>1. m \notin AuthAnswers(FALSE)
        BY <1>4 DEF AuthAnswers
    <2> HIDE DEF R, N
    <2> QED BY <1>0, <1>4, <2>1, GuardedAppend, MeetsAppend
<1>5. ASSUME Before, up' = up, down' = down
      PROVE  /\ Guarded(down', AuthAnswers(FALSE), AuthAnswers(TRUE))
             /\ \/ Meets(down', AuthAnswers(TRUE))
                \/ Meets(up', R) /\ Guarded(up', N, R)
    BY <1>5
<1>6. ASSUME NEW q \in Query, Listen(q) \/ Unlisten(q)
      PROVE  /\ state' = state /\ down' = down
             /\ up' = up \/ \E r \in Request : up' = Append(up, r)
    <2>1. Listen(q) => asks' \in 1..MaxListens
        BY <1>0, ConnectionBoundAssumption DEF Listen, TypeOK
    <2> QED BY <1>6, <2>1, RequestTypes DEF Listen, Unlisten, machine
<1>7. CASE PutData
    BY <1>2, <1>5, <1>7 DEF PutData, CanSendWrites, machine
<1>8. ASSUME SignIn \/ SignOut \/ \E f \in fetches : Fetched(f)
      PROVE  /\ state' = state /\ down' = down
             /\ up' = up \/ \E r \in Request : up' = Append(up, r)
    <2>1. state' = state /\ down' = down
        BY <1>8 DEF SignIn, SignOut, Fetched, machine
    <2>2. up' = up \/ \E t : RefreshAuth(t) /\ t \in Token \cup {NoToken}
        BY <1>0, <1>8 DEF SignIn, SignOut, Fetched, TypeOK
    <2> QED BY <2>1, <2>2, RequestTypes DEF RefreshAuth
<1>9. CASE Nudge \/ Revoke \/ \E r \in {"waiting for open", "repo"} : Resume(r)
    BY <1>2, <1>5, <1>9 DEF Nudge, Revoke, Resume, net, machine
<1>10. CASE RecvCancel \/ RecvListen \/ RecvPut
    <2>1. /\ state' = state /\ up' = up /\ down' = Tail(down) /\ down # <<>>
          /\ Head(down).kind # "auth"
        BY <1>10 DEF RecvCancel, RecvListen, RecvPut, Receives, Arrived, machine
    <2>2. Head(down) \notin AuthAnswers(TRUE)
        BY <2>1 DEF AuthAnswers
    <2> QED BY <1>0, <1>2, <2>1, <2>2, GuardedTail, MeetsTail
<1>11. CASE ServeUnauth \/ ServeListen \/ ServeUnlisten \/ ServePut
    <2>1. /\ state' = state /\ up # <<>> /\ up' = Tail(up) /\ Head(up).kind # "auth"
        BY <1>11 DEF ServeUnauth, ServeListen, ServeUnlisten, ServePut, Serves, ServerOnly, machine
    <2>2. Head(up) \in Request /\ Head(up) \notin R
        BY <1>0, <2>1, SeqTypes DEF AuthRequests
    <2>3. down' = down \/ \E m \in Message : m.kind # "auth" /\ down' = Append(down, m)
        <3>1. CASE ServeUnauth \/ ServeUnlisten
            BY <3>1 DEF ServeUnauth, ServeUnlisten
        <3>2. CASE ServePut
            <4>1. Head(up) \in Message /\ Head(up).kind # "auth"
                BY <2>1, <2>2, <3>2 DEF ServePut, Serves, Request, Message
            <4> QED BY <3>2, <4>1 DEF ServePut, Answer
        <3>3. CASE ServeListen
            <4> DEFINE m == [kind |-> "listen", query |-> Head(up).query,
                             spec |-> Head(up).spec, ok |-> Authorised]
            <4>1. m \in Message /\ m.kind # "auth" /\ down' = Append(down, m)
                BY <2>2, <3>3 DEF ServeListen, Serves, Answer, Request, Message, Authorised
            <4> QED BY <4>1
        <3> QED BY <1>11, <3>1, <3>2, <3>3
    <2>4. /\ Guarded(down', AuthAnswers(FALSE), AuthAnswers(TRUE))
          /\ Meets(down, AuthAnswers(TRUE)) => Meets(down', AuthAnswers(TRUE))
        <3>1. CASE down' = down
            BY <1>2, <2>1, <3>1
        <3>2. ASSUME NEW m \in Message, m.kind # "auth", down' = Append(down, m)
              PROVE  <2>4!2
            BY <1>0, <1>2, <2>1, <3>2, MeetsAppend
        <3>3. ASSUME NEW m \in Message, m.kind # "auth", down' = Append(down, m)
              PROVE  Guarded(down', AuthAnswers(FALSE), AuthAnswers(TRUE))
            <4>1. m \notin AuthAnswers(FALSE)
                BY <3>3 DEF AuthAnswers
            <4> QED BY <1>0, <1>2, <2>1, <3>3, <4>1, GuardedAppend
        <3> QED BY <2>3, <3>1, <3>2, <3>3
    <2> HIDE DEF R, N
    <2>5. Meets(up, R) /\ Guarded(up, N, R) => Meets(up', R) /\ Guarded(up', N, R)
        BY <1>0, <2>1, <2>2, MeetsTail, GuardedTail
    <2> QED BY <1>2, <2>1, <2>4, <2>5
<1>12. CASE ServeAuth
    <2> DEFINE m == [kind |-> "auth", ok |-> Head(up).token >= valid,
                     restore |-> Head(up).restore]
    <2>1. /\ state' = state /\ up # <<>> /\ up' = Tail(up) /\ Head(up).kind = "auth"
          /\ down' = Append(down, m)
        BY <1>12 DEF ServeAuth, Serves, Answer, ServerOnly, machine
    <2>2. Head(up) \in Request /\ Head(up).restore \in BOOLEAN /\ m \in Message
        BY <1>0, <2>1, SeqTypes DEF Request, Message
    <2>3. CASE Head(up).restore
        <3>1. m \in AuthAnswers(TRUE) /\ m \notin AuthAnswers(FALSE)
            BY <2>2, <2>3 DEF AuthAnswers
        <3> HIDE DEF m
        <3> QED BY <1>0, <1>2, <2>1, <2>2, <3>1, MeetsAppend, GuardedAppend
    <2>4. CASE ~Head(up).restore
        <3>1. Head(up) \in N
            BY <2>1, <2>2, <2>4 DEF AuthRequests
        <3>2. ~Guarded(up, N, R)
            <4> HIDE DEF R, N
            <4> QED BY <1>0, <2>1, <3>1, GuardedHead
        <3> HIDE DEF m
        <3> QED BY <1>0, <1>2, <2>1, <2>2, <3>2, MeetsAppend, GuardedAppend
    <2> QED BY <2>3, <2>4
<1>13. CASE ServerRevokes
    <2>1. [kind |-> "revoked"] \in Message
        BY DEF Message
    <2> QED BY <1>2, <1>4, <1>13, <2>1 DEF ServerRevokes, ServerOnly, Answer, machine
<1>14. ASSUME NEW q \in Query, ServerCancels(q)
       PROVE  /\ Guarded(down', AuthAnswers(FALSE), AuthAnswers(TRUE))
              /\ \/ Meets(down', AuthAnswers(TRUE))
                 \/ Meets(up', R) /\ Guarded(up', N, R)
    <2>1. [kind |-> "cancel", query |-> q] \in Message
        BY DEF Message
    <2> QED BY <1>2, <1>4, <1>14, <2>1 DEF ServerCancels, ServerOnly, Answer, machine
<1>15. ~ (Interrupt \/ Lose \/ OnKill \/ RecvAuth \/ RecvRevoked \/ Retry
            \/ \E f \in fetches : FetchFails(f))
    BY DEF Interrupt, Lose, OnKill, RecvAuth, RecvRevoked, Retry, FetchFails, HangUp
<1> QED
    BY <1>1, <1>2, <1>3, <1>5, <1>6, <1>7, <1>8, <1>9, <1>10, <1>11, <1>12, <1>13,
       <1>14, <1>15
    DEF Next, App, Fault, FetchDone, Receive, Serve

\* Restoring asks for something whenever something is wanted.
LEMMA RestoreAsks ==
    ASSUME TypeOK, Restore, Wanted # {}
    PROVE  unacked' > 0
<1>1. IsFiniteSet(Wanted)
    BY ConnectionBoundAssumption, FS_Subset DEF Wanted
<1>2. Cardinality(Wanted) \in Nat /\ Cardinality(Wanted) # 0
    BY <1>1, FS_EmptySet, FS_CardinalityType
<1> QED BY <1>2, RestoreShape DEF TypeOK

\* Only the answer that restores turns an authenticating connection into a
\* connected one.
LEMMA RestoredBefore ==
    ASSUME TypeInv, RestoresFirst, RecvAuth, Head(down).ok, ~Head(down).restore
    PROVE  state = "connected"
<1>1. down \in Seq(Message) /\ down # <<>> /\ Head(down).kind = "auth"
    BY DEF TypeInv, TypeOK, RecvAuth, Receives
<1>2. Head(down) \in AuthAnswers(FALSE)
    <2>1. Head(down) \in Message /\ Head(down).restore \in BOOLEAN
        BY <1>1, SeqTypes DEF Message
    <2> QED BY <1>1, <2>1 DEF AuthAnswers
<1>3. state # "authenticating"
    BY <1>1, <1>2, GuardedHead DEF RestoresFirst
<1> QED BY <1>1, <1>3 DEF TypeInv, QuietWire, Connected

\* Every step leaves a listen that will release what is held back.
LEMMA HeldStep ==
    ASSUME TypeInv, RestoresFirst, HeldIsReleased, Next
    PROVE  HeldIsReleased'
<1>0. TypeOK /\ unacked \in Nat /\ unacked' \in Nat
    BY TypeStep DEF TypeInv, TypeOK
<1>1. CASE UNCHANGED <<state, held, listens, unacked>>
    BY <1>1 DEF HeldIsReleased, CanSendWrites, Wanted
<1>2. CASE state' # "connected"
    BY <1>2 DEF HeldIsReleased, CanSendWrites
<1>3. ASSUME Restore, listens' = listens PROVE HeldIsReleased'
    <2>1. Wanted' = Wanted
        BY <1>3 DEF Wanted
    <2>2. CASE Wanted # {}
        BY <1>0, <1>3, <2>2, RestoreAsks DEF HeldIsReleased
    <2>3. CASE Wanted = {}
        BY <2>1, <2>3 DEF HeldIsReleased
    <2> QED BY <2>2, <2>3
<1>4. ASSUME NEW q \in Query, Listen(q) PROVE HeldIsReleased'
    <2>1. CASE Connected
        BY <1>0, <1>4, <2>1 DEF Listen, HeldIsReleased
    <2>2. CASE ~Connected
        BY <1>2, <1>4, <2>2 DEF Listen, Connected, machine
    <2> QED BY <2>1, <2>2
<1>5. ASSUME NEW q \in Query, listens' = [listens EXCEPT ![q] = 0],
             UNCHANGED <<state, held, unacked>>
      PROVE  HeldIsReleased'
    <2>1. listens \in [Query -> 0..MaxListens]
        BY <1>0 DEF TypeOK
    <2>2. \A r \in Query : listens'[r] # 0 => listens[r] # 0
        BY <1>5, <2>1
    <2>3. Wanted' \subseteq Wanted
        BY <2>2 DEF Wanted
    <2> QED BY <1>5, <2>3 DEF HeldIsReleased, CanSendWrites
<1>6. ASSUME NEW q \in Query, Unlisten(q) PROVE HeldIsReleased'
    BY <1>5, <1>6 DEF Unlisten, machine, writing
<1>7. CASE RecvCancel
    <2>1. Head(down).query \in Query
        <3>1. Head(down) \in Message /\ Head(down).kind = "cancel"
            BY <1>0, <1>7, SeqTypes DEF TypeOK, RecvCancel, Receives
        <3> QED BY <3>1 DEF Message
    <2> QED BY <1>5, <1>7, <2>1 DEF RecvCancel, machine, writing
<1>8. CASE OnReady
    BY <1>2, <1>3, <1>8 DEF OnReady
<1>9. CASE RecvAuth
    <2>1. CASE ~Head(down).ok
        BY <1>2, <1>9, <2>1 DEF RecvAuth, HangUp
    <2>2. CASE Head(down).ok /\ Head(down).restore
        BY <1>3, <1>9, <2>2 DEF RecvAuth
    <2>3. CASE Head(down).ok /\ ~Head(down).restore
        <3>1. state = "connected"
            BY <1>9, <2>3, RestoredBefore
        <3> QED BY <1>1, <1>9, <2>3, <3>1 DEF RecvAuth, writing
    <2> QED BY <2>1, <2>2, <2>3
<1>10. CASE RecvListen
    <2>1. CASE unacked' = 0
        BY <1>10, <2>1 DEF RecvListen, HeldIsReleased
    <2>2. CASE unacked' # 0
        BY <1>0, <2>2 DEF HeldIsReleased
    <2> QED BY <2>1, <2>2
<1>11. CASE RecvPut
    <2>1. CASE unacked = 0
        BY <1>1, <1>11, <2>1 DEF RecvPut, machine, listening
    <2>2. CASE unacked # 0
        BY <1>0, <1>11, <2>2 DEF RecvPut, listening, HeldIsReleased
    <2> QED BY <2>1, <2>2
<1>12. CASE PutData \/ SignIn \/ SignOut \/ Nudge \/ Revoke \/ Serve \/ ServerRevokes
    BY <1>1, <1>12 DEF PutData, SignIn, SignOut, Nudge, Revoke, Serve, ServeAuth, ServeUnauth,
                       ServeListen, ServeUnlisten, ServePut, ServerRevokes, ServerOnly,
                       machine, listening, writing
<1>13. ASSUME NEW q \in Query, ServerCancels(q) PROVE HeldIsReleased'
    BY <1>1, <1>13 DEF ServerCancels, ServerOnly, machine, listening, writing
<1>14. ASSUME NEW r \in {"waiting for open", "repo"}, Resume(r) PROVE HeldIsReleased'
    BY <1>1, <1>14 DEF Resume, listening, writing
<1>15. CASE Interrupt \/ Lose \/ OnKill \/ RecvRevoked \/ Retry
    BY <1>2, <1>15 DEF Interrupt, Lose, OnKill, RecvRevoked, Retry, HangUp
<1>16. ASSUME NEW f \in fetches, FetchFails(f) PROVE HeldIsReleased'
    BY <1>2, <1>16 DEF FetchFails
<1>17. ASSUME NEW f \in fetches, Fetched(f) PROVE HeldIsReleased'
    BY <1>1, <1>2, <1>17 DEF Fetched, listening, writing
<1> QED
    BY <1>4, <1>6, <1>7, <1>8, <1>9, <1>10, <1>11, <1>12, <1>13, <1>14, <1>15, <1>16, <1>17
    DEF Next, App, Fault, FetchDone, Receive

-----------------------------------------------------------------------------
(* Listens outlive expired tokens.                                         *)

\* What is connected has the token of Firebase Auth, and nothing is wanted
\* before somebody signs in.
LEMMA TokensStep ==
    ASSUME TypeInv, TokensKept, Next, ~signedOut'
    PROVE  TokensKept'
<1>0. TypeOK /\ valid \in Token /\ NoToken \notin Token /\ listens \in [Query -> 0..MaxListens]
    BY TokenAssumption DEF TypeInv, TypeOK
<1>1. ASSUME UNCHANGED <<token, cached, listens>>, state' = "connecting" => state = "connecting"
      PROVE  TokensKept'
    BY <1>1 DEF TokensKept, Wanted
<1>2. ASSUME NEW q \in Query, Listen(q) PROVE TokensKept'
    BY <1>2 DEF TokensKept, Listen, machine, auth
<1>3. ASSUME NEW q \in Query, listens' = [listens EXCEPT ![q] = 0],
             UNCHANGED <<state, token, cached>>
      PROVE  TokensKept'
    <2>1. \A r \in Query : listens'[r] # 0 => listens[r] # 0
        BY <1>0, <1>3
    <2> QED BY <1>3, <2>1 DEF TokensKept, Wanted
<1>4. ASSUME NEW q \in Query, Unlisten(q) PROVE TokensKept'
    BY <1>3, <1>4 DEF Unlisten, machine, auth
<1>5. CASE RecvCancel \/ RecvListen
    <2>1. Head(down).query \in Query
        <3>1. Head(down) \in Message /\ Head(down).kind \in {"cancel", "listen"}
            BY <1>0, <1>5, SeqTypes DEF TypeOK, RecvCancel, RecvListen, Receives
        <3> QED BY <3>1 DEF Message
    <2>2. CASE UNCHANGED listens
        BY <1>1, <1>5, <2>2 DEF RecvCancel, RecvListen, machine, auth
    <2>3. CASE listens' = [listens EXCEPT ![Head(down).query] = 0]
        BY <1>3, <1>5, <2>1, <2>3 DEF RecvCancel, RecvListen, machine, auth
    <2> QED BY <1>5, <2>2, <2>3 DEF RecvCancel, RecvListen
<1>6. CASE SignIn
    BY <1>0, <1>6 DEF TokensKept, SignIn, RefreshAuth
<1>7. CASE SignOut
    BY <1>7 DEF SignOut
<1>8. ASSUME NEW f \in fetches, Fetched(f) PROVE TokensKept'
    <2>1. cached' = cached \/ (cached' = valid /\ cached # NoToken)
        BY <1>8 DEF Fetched
    <2>2. cached' = NoToken => Wanted' = {}
        BY <1>0, <1>8, <2>1 DEF TokensKept, Fetched, Wanted, listening
    <2>3. state' = "connecting" => token' = cached'
        BY <1>8 DEF TokensKept, Fetched, RefreshAuth
    <2> QED BY <2>2, <2>3 DEF TokensKept
<1>9. CASE RecvAuth \/ RecvRevoked \/ Interrupt \/ Lose \/ OnKill \/ Retry \/ OnReady
    <2>1. state' # "connecting" /\ cached' = cached /\ listens' = listens
        BY <1>9 DEF RecvAuth, RecvRevoked, Interrupt, Lose, OnKill, Retry, OnReady, HangUp,
                    auth, listening
    <2> QED BY <2>1 DEF TokensKept, Wanted
<1>10. ASSUME NEW f \in fetches, FetchFails(f) PROVE TokensKept'
    BY <1>1, <1>10 DEF FetchFails, listening, auth
<1>11. CASE PutData \/ RecvPut \/ Nudge \/ Revoke \/ Serve \/ ServerRevokes
    BY <1>1, <1>11 DEF PutData, RecvPut, Nudge, Revoke, Serve, ServeAuth, ServeUnauth,
                       ServeListen, ServeUnlisten, ServePut, ServerRevokes, ServerOnly,
                       machine, listening, auth
<1>12. ASSUME NEW q \in Query, ServerCancels(q) PROVE TokensKept'
    BY <1>1, <1>12 DEF ServerCancels, ServerOnly, machine, listening, auth
<1>13. ASSUME NEW r \in {"waiting for open", "repo"}, Resume(r) PROVE TokensKept'
    BY <1>1, <1>13 DEF Resume, listening, auth
<1> QED
    BY <1>2, <1>4, <1>5, <1>6, <1>7, <1>8, <1>9, <1>10, <1>11, <1>12, <1>13
    DEF Next, App, Fault, FetchDone, Receive

\* The client sends something: a listen only where it will be heard, and no
\* sign-off.
LEMMA KeptSend ==
    ASSUME TypeInv, WireKept, NEW r \in Request, up' = Append(up, r),
           down' = down, session' = session, heard' = heard,
           r.kind # "unauth",
           r.kind = "listen" => Authorised \/ Meets(down, Closes) \/ Meets(up, AnyAuth),
           r.kind = "auth" \/ (Connected' /\ cached' # NoToken => Connected /\ cached # NoToken)
    PROVE  WireKept'
<1>0. up \in Seq(Request) /\ (Authorised' <=> Authorised)
    BY DEF TypeInv, TypeOK, Authorised
<1>1. Guarded(up', SignOffs, {})
    BY <1>0, GuardedAppend DEF WireKept, SignOffs
<1>2. ~Authorised => \/ Meets(down, Closes)
                     \/ heard = {} /\ Guarded(up', ListenRequests, AnyAuth)
    <2>1. r \in ListenRequests => Authorised \/ Meets(down, Closes) \/ Meets(up, AnyAuth)
        BY DEF ListenRequests
    <2> QED BY <1>0, <2>1, GuardedAppend DEF WireKept
<1>3. Connected' /\ cached' # NoToken =>
            Authorised \/ Meets(down, Closes) \/ Meets(up', AnyAuth)
    <2>1. r.kind = "auth" => r \in AnyAuth
        BY DEF AnyAuth
    <2>2. Meets(up', AnyAuth) <=> Meets(up, AnyAuth) \/ r \in AnyAuth
        BY <1>0, MeetsAppend
    <2> QED BY <2>1, <2>2 DEF WireKept
<1> QED BY <1>0, <1>1, <1>2, <1>3 DEF WireKept

\* A message arrives that does not close the connection.
LEMMA KeptArrives ==
    ASSUME TypeInv, WireKept, down # <<>>, Head(down) \notin Closes, down' = Tail(down),
           up' = up, session' = session, heard' = heard, cached' = cached,
           Connected' => Connected
    PROVE  WireKept'
<1>0. down \in Seq(Message) /\ (Authorised' <=> Authorised)
    BY DEF TypeInv, TypeOK, Authorised
<1>1. Guarded(down', TakesListen, Closes)
    BY <1>0, GuardedTail DEF WireKept
<1>2. Meets(down, Closes) => Meets(down', Closes)
    BY <1>0, MeetsTail
<1> QED BY <1>0, <1>1, <1>2 DEF WireKept

\* The server takes a request that does not authenticate, and says nothing
\* that takes a listen away.
LEMMA KeptServed ==
    ASSUME TypeInv, WireKept, up # <<>>, Head(up) \notin AnyAuth, up' = Tail(up),
           down' = down \/ \E m \in Message : m \notin TakesListen /\ down' = Append(down, m),
           session' = session, heard' \subseteq heard \/ Authorised,
           cached' = cached, state' = state
    PROVE  WireKept'
<1>0. /\ up \in Seq(Request) /\ down \in Seq(Message) /\ (Authorised' <=> Authorised)
      /\ (Connected' <=> Connected)
    BY DEF TypeInv, TypeOK, Authorised, Connected
<1>1. /\ Guarded(down', TakesListen, Closes)
      /\ Meets(down, Closes) => Meets(down', Closes)
    <2>1. CASE down' = down
        BY <2>1 DEF WireKept
    <2>2. ASSUME NEW m \in Message, m \notin TakesListen, down' = Append(down, m)
          PROVE  /\ Guarded(down', TakesListen, Closes)
                 /\ Meets(down, Closes) => Meets(down', Closes)
        BY <1>0, <2>2, GuardedAppend, MeetsAppend DEF WireKept
    <2> QED BY <2>1, <2>2
<1>2. Guarded(up', SignOffs, {})
    BY <1>0, GuardedTail DEF WireKept
<1>3. Guarded(up, ListenRequests, AnyAuth) => Guarded(up', ListenRequests, AnyAuth)
    BY <1>0, GuardedTail
<1>4. Meets(up, AnyAuth) => Meets(up', AnyAuth)
    BY <1>0, MeetsTail
<1> QED BY <1>0, <1>1, <1>2, <1>3, <1>4 DEF WireKept

\* Something is said that closes the connection, or is said behind such a
\* message.
LEMMA KeptPushed ==
    ASSUME TypeInv, WireKept, NEW m \in Message, down' = Append(down, m),
           up' = up \/ (up # <<>> /\ up' = Tail(up)),
           (m \in Closes /\ m \notin TakesListen) \/ Meets(down, Closes)
    PROVE  WireKept'
<1>0. up \in Seq(Request) /\ down \in Seq(Message)
    BY DEF TypeInv, TypeOK
<1>1. Guarded(down', TakesListen, Closes)
    BY <1>0, GuardedAppend DEF WireKept
<1>2. Meets(down', Closes)
    BY <1>0, MeetsAppend
<1>3. Guarded(up', SignOffs, {})
    <2>1. CASE up' = up
        BY <2>1 DEF WireKept
    <2>2. CASE up # <<>> /\ up' = Tail(up)
        BY <1>0, <2>2, GuardedTail DEF WireKept
    <2> QED BY <2>1, <2>2
<1> QED BY <1>1, <1>2, <1>3 DEF WireKept

\* A connection that becomes ready asks for nothing without authenticating.
LEMMA KeptReady ==
    ASSUME TypeInv, WireKept, TokensKept, OnReady
    PROVE  WireKept'
<1>0. TypeOK /\ up = <<>> /\ down = <<>> /\ session = NoToken /\ heard = {}
      /\ down' = down /\ session' = session /\ heard' = heard /\ cached' = cached
    BY DEF TypeInv, QuietWire, Connected, OnReady, auth
<1>1. CASE token = NoToken
    <2>1. Restore /\ cached' = NoToken /\ Wanted = {}
        BY <1>0, <1>1 DEF OnReady, TokensKept
    <2>2. /\ ListenRequests \cap PutRequests = {}
          /\ SignOffs \cap (ListenRequests \cup PutRequests) = {}
        BY DEF ListenRequests, PutRequests, SignOffs
    <2>3. Guarded(up', ListenRequests, AnyAuth)
        BY <1>0, <2>1, <2>2, RestoreGuards, GuardedEmpty
    <2>4. Guarded(up', SignOffs, {})
        BY <1>0, <2>1, <2>2, RestoreGuards, GuardedEmpty
    <2> QED BY <1>0, <2>1, <2>3, <2>4, GuardedEmpty DEF WireKept
<1>2. CASE token # NoToken
    <2> DEFINE r == AuthRequest(token, TRUE)
    <2>1. r \in Request /\ r.kind = "auth" /\ up' = Append(up, r)
        BY <1>0, <1>2, RequestTypes DEF TypeOK, AuthRequest, OnReady
    <2> HIDE DEF r
    <2> QED BY <1>0, <2>1, KeptSend
<1> QED BY <1>1, <1>2

\* Restoring behind the answer that allows it.
LEMMA KeptRestored ==
    ASSUME TypeInv, WireKept, TokensKept, Restore, down # <<>>, Head(down) \notin Closes,
           down' = Tail(down), session' = session, heard' = heard, cached' = cached
    PROVE  WireKept'
<1>0. TypeOK /\ down \in Seq(Message) /\ (Authorised' <=> Authorised) /\ Connected
    BY DEF TypeInv, TypeOK, Authorised, QuietWire
<1>1. Guarded(down', TakesListen, Closes)
    BY <1>0, GuardedTail DEF WireKept
<1>2. Meets(down, Closes) => Meets(down', Closes)
    BY <1>0, MeetsTail
<1>3. ListenRequests \cap PutRequests = {} /\ SignOffs \cap (ListenRequests \cup PutRequests) = {}
    BY DEF ListenRequests, PutRequests, SignOffs
<1>4. Guarded(up', SignOffs, {})
    BY <1>0, <1>3, RestoreGuards DEF WireKept
<1>5. Meets(up, AnyAuth) => Meets(up', AnyAuth)
    BY <1>0, RestoreMeets
<1>6. Authorised \/ Meets(down, Closes) \/ Meets(up, AnyAuth) \/ Wanted = {}
    BY <1>0 DEF WireKept, TokensKept
<1>7. ~Authorised /\ ~Meets(down, Closes) => heard = {} /\ Guarded(up', ListenRequests, AnyAuth)
    BY <1>0, <1>3, <1>6, RestoreGuards DEF WireKept
<1>8. Connected' /\ cached' # NoToken =>
            Authorised \/ Meets(down, Closes) \/ Meets(up, AnyAuth)
    BY <1>0 DEF WireKept
<1> QED BY <1>0, <1>1, <1>2, <1>4, <1>5, <1>7, <1>8 DEF WireKept

\* Every step of a connection keeps the wire in order.
LEMMA WireKeptStep ==
    ASSUME TypeInv, AttemptInv, WireKept, TokensKept, Next, ~signedOut'
    PROVE  WireKept'
<1>0. TypeOK /\ up \in Seq(Request) /\ down \in Seq(Message) /\ valid \in Token
    BY DEF TypeInv, TypeOK
<1>1. CASE ~Connected'
    <2>1. up' = <<>> /\ down' = <<>> /\ heard' = {}
        BY <1>1, QuietStep DEF QuietWire
    <2> QED BY <1>1, <2>1, GuardedEmpty DEF WireKept
<1>2. ASSUME UNCHANGED net, Connected' => Connected,
             Connected' /\ cached' # NoToken => cached # NoToken
      PROVE  WireKept'
    BY <1>2 DEF WireKept, net, Authorised
<1>3. ASSUME NEW q \in Query, Listen(q), Connected' PROVE WireKept'
    <2>1. ListenTo(q, asks') \in Request
        BY <1>0, <1>3, ConnectionBoundAssumption, RequestTypes DEF Listen, TypeOK
    <2>2. Connected /\ cached # NoToken
        BY <1>3 DEF Listen, Connected, machine
    <2>3. Authorised \/ Meets(down, Closes) \/ Meets(up, AnyAuth)
        BY <2>2 DEF WireKept
    <2>4. ListenTo(q, asks').kind = "listen" /\ up' = Append(up, ListenTo(q, asks'))
        BY <1>3, <2>2 DEF Listen, ListenTo
    <2> QED BY <1>3, <2>1, <2>2, <2>3, <2>4, KeptSend DEF Listen
<1>4. ASSUME NEW q \in Query, Unlisten(q), Connected' PROVE WireKept'
    <2>1. UnlistenTo(q) \in Request /\ UnlistenTo(q).kind = "unlisten"
        BY RequestTypes DEF UnlistenTo
    <2>2. Connected /\ (cached' = cached)
        BY <1>4 DEF Unlisten, Connected, machine, auth
    <2> QED BY <1>4, <2>1, <2>2, KeptSend DEF Unlisten
<1>5. CASE PutData
    <2>1. PutOf(Cardinality(Made) + 1) \in Request
          /\ PutOf(Cardinality(Made) + 1).kind = "put"
        BY <1>0, <1>5, NextPutType, RequestTypes DEF PutData, PutOf
    <2>2. (Connected' <=> Connected) /\ cached' = cached
          /\ UNCHANGED <<down, session, heard>>
        BY <1>5 DEF PutData, Connected, machine, auth
    <2>3. CASE CanSendWrites
        BY <1>5, <2>1, <2>2, <2>3, KeptSend DEF PutData
    <2>4. CASE ~CanSendWrites
        BY <1>2, <1>5, <2>2, <2>4 DEF PutData, net
    <2> QED BY <2>3, <2>4
<1>6. ASSUME NEW t \in Token, RefreshAuth(t), Connected,
             UNCHANGED <<down, session, heard>>
      PROVE  WireKept'
    <2>1. t # NoToken /\ AuthRequest(t, FALSE) \in Request
          /\ AuthRequest(t, FALSE).kind = "auth"
        BY TokenAssumption, RequestTypes DEF AuthRequest
    <2> QED BY <1>6, <2>1, KeptSend DEF RefreshAuth
<1>7. ASSUME SignIn, Connected' PROVE WireKept'
    BY <1>0, <1>6, <1>7 DEF SignIn, Connected, machine
<1>8. CASE SignOut
    BY <1>8 DEF SignOut
<1>9. ASSUME NEW f \in fetches, Fetched(f), Connected' PROVE WireKept'
    <2>1. /\ state' = state /\ Connected
          /\ IF cached' = cached THEN UNCHANGED <<token, up>> ELSE RefreshAuth(cached')
          /\ UNCHANGED <<down, session, heard>>
        BY <1>9 DEF Fetched, Connected
    <2>2. CASE cached' = cached
        <3>1. UNCHANGED net
            BY <2>1, <2>2 DEF net
        <3> QED BY <1>2, <2>1, <2>2, <3>1
    <2>3. CASE cached' # cached
        <3>1. cached' = valid
            BY <1>9, <2>3 DEF Fetched
        <3> QED BY <1>0, <1>6, <2>1, <2>3, <3>1
    <2> QED BY <2>2, <2>3
<1>10. ASSUME Interrupt \/ Lose \/ OnKill \/ RecvRevoked \/ Retry, Connected'
       PROVE  FALSE
    BY <1>10 DEF Interrupt, Lose, OnKill, RecvRevoked, Retry, HangUp, Connected
<1>11. ASSUME NEW f \in fetches, FetchFails(f), Connected' PROVE FALSE
    BY <1>11 DEF FetchFails, Connected
<1>12. CASE Nudge \/ Revoke \/ \E r \in {"waiting for open", "repo"} : Resume(r)
    BY <1>2, <1>12 DEF Nudge, Revoke, Resume, Connected, machine, auth
<1>13. CASE OnReady
    BY <1>13, KeptReady
<1>14. ASSUME RecvAuth, Connected' PROVE WireKept'
    <2>1. /\ Head(down).ok /\ down # <<>> /\ Head(down).kind = "auth" /\ down' = Tail(down)
          /\ UNCHANGED <<session, heard, cached>>
          /\ Restore \/ (up' = up /\ unacked' = unacked)
        BY <1>14 DEF RecvAuth, HangUp, Connected, Receives, Arrived, auth
    <2>2. Head(down) \notin Closes
        BY <2>1 DEF Closes
    <2>3. Connected
        BY <2>1 DEF TypeInv, QuietWire
    <2>4. CASE Restore
        BY <2>1, <2>2, <2>4, KeptRestored
    <2>5. CASE up' = up
        BY <2>1, <2>2, <2>3, <2>5, KeptArrives
    <2> QED BY <2>1, <2>4, <2>5
<1>15. CASE RecvCancel \/ RecvListen \/ RecvPut
    <2>1. /\ down # <<>> /\ Head(down).kind \in {"cancel", "listen", "put"}
          /\ down' = Tail(down) /\ up' = up /\ (Connected' <=> Connected)
          /\ UNCHANGED <<session, heard, cached>>
        BY <1>15 DEF RecvCancel, RecvListen, RecvPut, Receives, Arrived, Connected, machine, auth
    <2>2. Head(down) \notin Closes
        BY <2>1 DEF Closes
    <2> QED BY <2>1, <2>2, KeptArrives
<1>16. CASE ServeAuth
    <2> DEFINE m == [kind |-> "auth", ok |-> Head(up).token >= valid,
                     restore |-> Head(up).restore]
    <2>1. /\ up # <<>> /\ up' = Tail(up) /\ down' = Append(down, m)
          /\ Head(up).kind = "auth" /\ Head(up) \in Request
        BY <1>0, <1>16, SeqTypes DEF ServeAuth, Serves, Answer
    <2>2. m \in Message /\ m.kind = "auth" /\ Head(up).token \in Token
        BY <2>1 DEF Request, Message
    <2>3. CASE Head(up).token >= valid
        <3>1. Authorised'
            BY <1>16, <2>2, <2>3 DEF ServeAuth, Authorised
        <3>2. m \notin TakesListen
            BY <2>2 DEF TakesListen
        <3> HIDE DEF m
        <3>3. Guarded(down', TakesListen, Closes)
            BY <1>0, <2>1, <2>2, <3>2, GuardedAppend DEF WireKept
        <3>4. Guarded(up', SignOffs, {})
            BY <1>0, <2>1, GuardedTail DEF WireKept
        <3> QED BY <3>1, <3>3, <3>4 DEF WireKept
    <2>4. CASE ~(Head(up).token >= valid)
        <3>1. m \in Closes /\ m \notin TakesListen
            BY <2>2, <2>4 DEF Closes, TakesListen
        <3> HIDE DEF m
        <3> QED BY <2>1, <2>2, <3>1, KeptPushed
    <2> QED BY <2>3, <2>4
<1>17. CASE ServeUnauth
    <2>1. up # <<>> /\ Head(up) \in SignOffs
        BY <1>0, <1>17, SeqTypes DEF ServeUnauth, Serves, SignOffs
    <2> QED BY <1>0, <2>1, GuardedHead DEF WireKept
<1>18. CASE ServeListen
    <2> DEFINE m == [kind |-> "listen", query |-> Head(up).query,
                     spec |-> Head(up).spec, ok |-> Authorised]
    <2>1. /\ up # <<>> /\ up' = Tail(up) /\ down' = Append(down, m)
          /\ Head(up).kind = "listen" /\ Head(up) \in Request
          /\ session' = session /\ cached' = cached /\ state' = state
        BY <1>0, <1>18, SeqTypes DEF ServeListen, Serves, Answer, ServerOnly, machine, auth
    <2>2. m \in Message /\ m.kind = "listen" /\ m.ok = Authorised
        BY <2>1 DEF Request, Message, Authorised
    <2>3. Head(up) \notin AnyAuth /\ Head(up) \in ListenRequests
        BY <2>1 DEF AnyAuth, ListenRequests
    <2>4. CASE Authorised
        <3>1. m \notin TakesListen
            BY <2>2, <2>4 DEF TakesListen
        <3> HIDE DEF m
        <3> QED BY <2>1, <2>2, <2>3, <2>4, <3>1, KeptServed
    <2>5. CASE ~Authorised
        <3>1. Meets(down, Closes)
            BY <1>0, <2>1, <2>3, <2>5, GuardedHead DEF WireKept
        <3> HIDE DEF m
        <3> QED BY <2>1, <2>2, <3>1, KeptPushed
    <2> QED BY <2>4, <2>5
<1>19. CASE ServeUnlisten
    <2>1. /\ up # <<>> /\ up' = Tail(up) /\ down' = down /\ Head(up).kind = "unlisten"
          /\ session' = session /\ cached' = cached /\ state' = state /\ heard' \subseteq heard
        BY <1>19 DEF ServeUnlisten, Serves, ServerOnly, machine, auth
    <2>2. Head(up) \notin AnyAuth
        BY <2>1 DEF AnyAuth
    <2> QED BY <2>1, <2>2, KeptServed
<1>20. CASE ServePut
    <2>1. /\ up # <<>> /\ up' = Tail(up) /\ down' = Append(down, Head(up))
          /\ Head(up).kind = "put" /\ Head(up) \in Request
          /\ session' = session /\ cached' = cached /\ state' = state /\ heard' = heard
        BY <1>0, <1>20, SeqTypes DEF ServePut, Serves, Answer, ServerOnly, machine, auth
    <2>2. Head(up) \notin AnyAuth /\ Head(up) \notin TakesListen
        BY <2>1 DEF AnyAuth, TakesListen
    <2>3. Head(up) \in Message
        BY <2>1 DEF Request, Message
    <2> QED BY <2>1, <2>2, <2>3, KeptServed
<1>21. CASE ServerRevokes
    <2>1. [kind |-> "revoked"] \in Message /\ [kind |-> "revoked"] \in Closes
          /\ [kind |-> "revoked"] \notin TakesListen
        BY DEF Message, Closes, TakesListen
    <2> QED BY <1>21, <2>1, KeptPushed DEF ServerRevokes, Answer
<1>22. ASSUME NEW q \in Query, ServerCancels(q) PROVE WireKept'
    <2>1. [kind |-> "cancel", query |-> q] \in Message
        BY DEF Message
    <2>2. Meets(down, Closes)
        BY <1>22 DEF ServerCancels, WireKept
    <2> QED BY <1>22, <2>1, <2>2, KeptPushed DEF ServerCancels, Answer
<1> QED
    BY <1>1, <1>3, <1>4, <1>5, <1>7, <1>8, <1>9, <1>10, <1>11, <1>12, <1>13, <1>14, <1>15,
       <1>16, <1>17, <1>18, <1>19, <1>20, <1>21, <1>22
    DEF Next, App, Fault, FetchDone, Receive, Serve

\* Nobody signs out twice for the first time: whoever has, has.
LEMMA SignedOutStays ==
    ASSUME Next, signedOut
    PROVE  signedOut'
<1>1. CASE App
    BY <1>1 DEF App, Listen, Unlisten, PutData, SignIn, SignOut, Interrupt, Nudge, Resume, auth
<1>2. CASE Fault \/ Retry \/ FetchDone \/ OnReady
    BY <1>2 DEF Fault, Lose, OnKill, Revoke, FetchFails, Retry, FetchDone, Fetched, OnReady, auth
<1>3. CASE Receive \/ Serve \/ ServerRevokes \/ \E q \in Query : ServerCancels(q)
    BY <1>3 DEF Receive, RecvAuth, RecvRevoked, RecvCancel, RecvListen, RecvPut, Serve,
                ServeAuth, ServeUnauth, ServeListen, ServeUnlisten, ServePut, ServerRevokes,
                ServerCancels, ServerOnly, auth
<1> QED BY <1>1, <1>2, <1>3 DEF Next

LEMMA KeepStep ==
    ASSUME TypeInv, AttemptInv, KeepInv, Next
    PROVE  KeepInv'
BY SignedOutStays, WireKeptStep, TokensStep DEF KeepInv

\* With it, only the app itself takes a listen away.
LEMMA ListensStay ==
    ASSUME TypeInv, KeepInv, Next
    PROVE  \A q \in Query : listens[q] # 0 /\ listens'[q] = 0 /\ ~signedOut => Unlisten(q)
<1> SUFFICES ASSUME NEW q \in Query, listens[q] # 0, listens'[q] = 0, ~signedOut
             PROVE  Unlisten(q)
    OBVIOUS
<1>0. /\ down \in Seq(Message) /\ listens \in [Query -> 0..MaxListens] /\ asks \in Nat
      /\ Guarded(down, TakesListen, Closes)
    BY DEF TypeInv, TypeOK, KeepInv, WireKept
<1>1. ASSUME NEW r \in Query, Listen(r) PROVE FALSE
    BY <1>0, <1>1 DEF Listen
<1>2. ASSUME NEW r \in Query, Unlisten(r) PROVE r = q
    BY <1>0, <1>2 DEF Unlisten
<1>3. CASE RecvCancel \/ RecvListen
    <2>1. down # <<>> /\ Head(down) \in Message
        BY <1>0, <1>3, SeqTypes DEF RecvCancel, RecvListen, Receives
    <2>2. \/ Head(down).kind = "cancel"
          \/ Head(down).kind = "listen" /\ ~Head(down).ok
        BY <1>0, <1>3 DEF RecvCancel, RecvListen, Receives
    <2>3. Head(down) \in TakesListen
        BY <2>1, <2>2 DEF TakesListen
    <2> QED BY <1>0, <2>1, <2>3, GuardedHead
<1>4. CASE UNCHANGED listens
    BY <1>4
<1>5. CASE App
    BY <1>1, <1>2, <1>4, <1>5 DEF App, PutData, SignIn, SignOut, Interrupt, Nudge, Resume, listening
<1>6. CASE Fault \/ Retry \/ FetchDone \/ OnReady
    BY <1>4, <1>6 DEF Fault, Lose, OnKill, Revoke, FetchFails, Retry, FetchDone, Fetched,
                      OnReady, listening
<1>7. CASE Receive \/ Serve \/ ServerRevokes \/ \E r \in Query : ServerCancels(r)
    BY <1>3, <1>4, <1>7 DEF Receive, RecvAuth, RecvRevoked, RecvPut, Serve, ServeAuth,
                ServeUnauth, ServeListen, ServeUnlisten, ServePut, ServerRevokes,
                ServerCancels, ServerOnly, listening
<1> QED BY <1>5, <1>6, <1>7 DEF Next

-----------------------------------------------------------------------------
(* The order of the completion blocks.                                     *)

Puts(s)      == {s[i].put : i \in {j \in DOMAIN s : s[j].kind = "put"}}
Ascends(s)   == \A i, j \in DOMAIN s : i < j /\ s[i].kind = "put" /\ s[j].kind = "put"
                                        => s[i].put < s[j].put
Single(s, G) == \A i, j \in DOMAIN s : s[i] \in G /\ s[j] \in G => i = j

LEMMA OrderAppend ==
    ASSUME NEW S, NEW s \in Seq(S), NEW x \in S
    PROVE  /\ Puts(Append(s, x)) = Puts(s) \cup (IF x.kind = "put" THEN {x.put} ELSE {})
           /\ Ascends(s) /\ (x.kind = "put" => \A p \in Puts(s) : p < x.put)
                => Ascends(Append(s, x))
           /\ \A G : Single(s, G) /\ (x \in G => ~Meets(s, G)) => Single(Append(s, x), G)
<1>1. PICK l \in Nat : /\ Len(s) = l /\ DOMAIN s = 1..l
                       /\ DOMAIN Append(s, x) = (1..l) \cup {l + 1}
                       /\ \A i \in 1..l : Append(s, x)[i] = s[i]
                       /\ Append(s, x)[l + 1] = x
    <2>1. /\ Len(s) \in Nat /\ DOMAIN s = 1..Len(s)
          /\ DOMAIN Append(s, x) = 1..(Len(s) + 1)
          /\ \A i \in 1..Len(s) : Append(s, x)[i] = s[i]
          /\ Append(s, x)[Len(s) + 1] = x
        BY LenProperties, AppendProperties
    <2>2. \A l \in Nat : 1..(l + 1) = (1..l) \cup {l + 1}
        OBVIOUS
    <2> QED BY <2>1, <2>2
<1>2. PICK t : t = Append(s, x)
    OBVIOUS
<1>3. Puts(t) = Puts(s) \cup (IF x.kind = "put" THEN {x.put} ELSE {})
    <2>1. CASE x.kind = "put"
        BY <1>1, <1>2, <2>1 DEF Puts
    <2>2. CASE x.kind # "put"
        BY <1>1, <1>2, <2>2 DEF Puts
    <2> QED BY <2>1, <2>2
<1>4. ASSUME Ascends(s), x.kind = "put" => \A p \in Puts(s) : p < x.put
      PROVE  Ascends(t)
    <2> SUFFICES ASSUME NEW i \in DOMAIN t, NEW j \in DOMAIN t, i < j,
                        t[i].kind = "put", t[j].kind = "put"
                 PROVE  t[i].put < t[j].put
        BY DEF Ascends
    <2>1. i \in 1..l /\ t[i] = s[i]
        BY <1>1, <1>2
    <2>2. CASE j \in 1..l
        BY <1>1, <1>2, <1>4, <2>1, <2>2 DEF Ascends
    <2>3. CASE j = l + 1
        <3>1. s[i].put \in Puts(s) /\ t[j] = x
            BY <1>1, <1>2, <2>1, <2>3 DEF Puts
        <3> QED BY <1>4, <2>1, <3>1
    <2> QED BY <1>1, <1>2, <2>2, <2>3
<1>5. ASSUME NEW G, Single(s, G), x \in G => ~Meets(s, G)
      PROVE  Single(t, G)
    BY <1>1, <1>2, <1>5 DEF Single, Meets
<1> QED BY <1>2, <1>3, <1>4, <1>5

LEMMA OrderTail ==
    ASSUME NEW S, NEW s \in Seq(S), s # <<>>
    PROVE  /\ Puts(s) = Puts(Tail(s)) \cup (IF Head(s).kind = "put" THEN {Head(s).put} ELSE {})
           /\ Ascends(s) => /\ Ascends(Tail(s))
                            /\ Head(s).kind = "put" => \A p \in Puts(Tail(s)) : Head(s).put < p
           /\ \A G : Single(s, G) => Single(Tail(s), G) /\ (Head(s) \in G => ~Meets(Tail(s), G))
           /\ \A G : Meets(Tail(s), G) => Meets(s, G)
<1>1. PICK l \in Nat : /\ DOMAIN s = 1..(l + 1) /\ Head(s) = s[1]
                       /\ DOMAIN Tail(s) = 1..l
                       /\ \A i \in 1..l : Tail(s)[i] = s[i + 1]
    <2>1. /\ Len(s) \in Nat \ {0} /\ DOMAIN s = 1..Len(s)
          /\ Head(s) = s[1]
          /\ DOMAIN Tail(s) = 1..(Len(s) - 1)
          /\ \A i \in 1..(Len(s) - 1) : Tail(s)[i] = s[i + 1]
        BY LenProperties, EmptySeq, HeadTailProperties
    <2>2. Len(s) - 1 \in Nat /\ Len(s) = (Len(s) - 1) + 1
        BY <2>1
    <2> QED BY <2>1, <2>2
<1>2. PICK t : t = Tail(s)
    OBVIOUS
<1>3. \A i \in 1..l : i + 1 \in 1..(l + 1) /\ i + 1 # 1 /\ 1 < i + 1
    OBVIOUS
<1>4. \A j \in 1..(l + 1) : j = 1 \/ (j - 1 \in 1..l /\ (j - 1) + 1 = j)
    OBVIOUS
<1>5. Puts(s) = Puts(t) \cup (IF Head(s).kind = "put" THEN {Head(s).put} ELSE {})
    <2>1. \A p \in Puts(t) : p \in Puts(s)
        <3> SUFFICES ASSUME NEW i \in 1..l, t[i].kind = "put" PROVE t[i].put \in Puts(s)
            BY <1>1, <1>2 DEF Puts
        <3>1. t[i] = s[i + 1] /\ i + 1 \in DOMAIN s
            BY <1>1, <1>2, <1>3
        <3> QED BY <3>1 DEF Puts
    <2>2. ASSUME NEW j \in 1..(l + 1), s[j].kind = "put"
          PROVE  s[j].put \in Puts(t) \/ (Head(s).kind = "put" /\ s[j].put = Head(s).put)
        <3>1. CASE j = 1
            BY <1>1, <2>2, <3>1
        <3>2. CASE j # 1
            <4>1. t[j - 1] = s[j] /\ j - 1 \in DOMAIN t
                BY <1>1, <1>2, <1>4, <3>2
            <4> QED BY <2>2, <4>1 DEF Puts
        <3> QED BY <3>1, <3>2
    <2>3. Head(s).kind = "put" => Head(s).put \in Puts(s)
        <3>1. 1 \in 1..(l + 1)
            OBVIOUS
        <3>2. 1 \in DOMAIN s /\ s[1] = Head(s)
            BY <1>1, <3>1
        <3> QED BY <3>2 DEF Puts
    <2>4. \A p \in Puts(s) : p \in Puts(t) \/ (Head(s).kind = "put" /\ p = Head(s).put)
        BY <1>1, <2>2 DEF Puts
    <2> QED BY <2>1, <2>3, <2>4
<1>6. ASSUME Ascends(s)
      PROVE  Ascends(t) /\ (Head(s).kind = "put" => \A p \in Puts(t) : Head(s).put < p)
    <2>1. Ascends(t)
        <3> SUFFICES ASSUME NEW i \in 1..l, NEW j \in 1..l, i < j,
                            t[i].kind = "put", t[j].kind = "put"
                     PROVE  t[i].put < t[j].put
            BY <1>1, <1>2 DEF Ascends
        <3>1. t[i] = s[i + 1] /\ t[j] = s[j + 1] /\ i + 1 < j + 1
            BY <1>1, <1>2
        <3>2. i + 1 \in DOMAIN s /\ j + 1 \in DOMAIN s
            BY <1>1, <1>3
        <3> QED BY <1>6, <3>1, <3>2 DEF Ascends
    <2>2. ASSUME Head(s).kind = "put", NEW i \in 1..l, t[i].kind = "put"
          PROVE  Head(s).put < t[i].put
        <3>1. t[i] = s[i + 1] /\ i + 1 \in DOMAIN s /\ 1 \in DOMAIN s /\ 1 < i + 1
            BY <1>1, <1>2, <1>3
        <3> QED BY <1>1, <1>6, <2>2, <3>1 DEF Ascends
    <2>3. Head(s).kind = "put" => \A p \in Puts(t) : Head(s).put < p
        BY <1>1, <1>2, <2>2 DEF Puts
    <2> QED BY <2>1, <2>3
<1>7. ASSUME NEW G, Single(s, G)
      PROVE  Single(t, G) /\ (Head(s) \in G => ~Meets(t, G))
    <2>1. Single(t, G)
        <3> SUFFICES ASSUME NEW i \in 1..l, NEW j \in 1..l, t[i] \in G, t[j] \in G
                     PROVE  i = j
            BY <1>1, <1>2 DEF Single
        <3>1. /\ t[i] = s[i + 1] /\ t[j] = s[j + 1]
              /\ i + 1 \in DOMAIN s /\ j + 1 \in DOMAIN s
            BY <1>1, <1>2, <1>3
        <3>2. i + 1 = j + 1
            BY <1>7, <3>1 DEF Single
        <3> QED BY <3>2
    <2>2. ASSUME Head(s) \in G, NEW i \in 1..l, t[i] \in G PROVE FALSE
        <3>1. t[i] = s[i + 1] /\ i + 1 \in DOMAIN s /\ 1 \in DOMAIN s /\ i + 1 # 1
            BY <1>1, <1>2, <1>3
        <3> QED BY <1>1, <1>7, <2>2, <3>1 DEF Single
    <2> QED BY <1>1, <1>2, <2>1, <2>2 DEF Meets
<1>8. ASSUME NEW G, Meets(t, G) PROVE Meets(s, G)
    BY <1>1, <1>2, <1>3, <1>8 DEF Meets
<1> QED BY <1>2, <1>5, <1>6, <1>7, <1>8

LEMMA OrderConcat ==
    ASSUME NEW S, NEW s \in Seq(S), NEW t \in Seq(S)
    PROVE  /\ Puts(s \o t) = Puts(s) \cup Puts(t)
           /\ Puts(s) = {} /\ Ascends(t) => Ascends(s \o t)
           /\ \A G : Meets(s \o t, G) <=> Meets(s, G) \/ Meets(t, G)
<1>0. PICK r : r = s \o t
    OBVIOUS
<1>1. PICK a \in Nat, b \in Nat :
        /\ DOMAIN s = 1..a /\ DOMAIN t = 1..b /\ DOMAIN r = 1..(a + b)
        /\ \A i \in 1..a : r[i] = s[i]
        /\ \A i \in 1..(a + b) : i > a => r[i] = t[i - a]
    <2>1. /\ Len(s) \in Nat /\ Len(t) \in Nat
          /\ DOMAIN s = 1..Len(s) /\ DOMAIN t = 1..Len(t)
          /\ DOMAIN (s \o t) = 1..(Len(s) + Len(t))
          /\ \A i \in 1..Len(s) : (s \o t)[i] = s[i]
          /\ \A i \in 1..(Len(s) + Len(t)) : i > Len(s) => (s \o t)[i] = t[i - Len(s)]
        BY LenProperties, ConcatProperties
    <2> QED BY <1>0, <2>1
<1>2. ASSUME NEW i \in 1..a PROVE i \in 1..(a + b) /\ r[i] = s[i]
    BY <1>1
<1>3. ASSUME NEW j \in 1..b PROVE a + j \in 1..(a + b) /\ r[a + j] = t[j]
    <2>1. a + j \in 1..(a + b) /\ a + j > a /\ (a + j) - a = j
        OBVIOUS
    <2> QED BY <1>1, <2>1
<1>4. ASSUME NEW i \in 1..(a + b)
      PROVE  \/ i \in 1..a /\ r[i] = s[i]
             \/ i > a /\ i - a \in 1..b /\ r[i] = t[i - a]
    BY <1>1
<1>5. Puts(r) = Puts(s) \cup Puts(t)
    <2>1. \A i \in 1..a : s[i].kind = "put" => s[i].put \in Puts(r)
        BY <1>1, <1>2 DEF Puts
    <2>2. \A j \in 1..b : t[j].kind = "put" => t[j].put \in Puts(r)
        BY <1>1, <1>3 DEF Puts
    <2>3. ASSUME NEW i \in 1..(a + b), r[i].kind = "put"
          PROVE  r[i].put \in Puts(s) \cup Puts(t)
        <3>1. CASE i \in 1..a /\ r[i] = s[i]
            BY <1>1, <2>3, <3>1 DEF Puts
        <3>2. CASE i - a \in 1..b /\ r[i] = t[i - a]
            BY <1>1, <2>3, <3>2 DEF Puts
        <3> QED BY <1>4, <3>1, <3>2
    <2>4. Puts(s) \cup Puts(t) \subseteq Puts(r)
        BY <1>1, <2>1, <2>2 DEF Puts
    <2>5. Puts(r) \subseteq Puts(s) \cup Puts(t)
        BY <1>1, <2>3 DEF Puts
    <2> QED BY <2>4, <2>5
<1>6. ASSUME Puts(s) = {}, Ascends(t) PROVE Ascends(r)
    <2> SUFFICES ASSUME NEW i \in 1..(a + b), NEW j \in 1..(a + b), i < j,
                        r[i].kind = "put", r[j].kind = "put"
                 PROVE  r[i].put < r[j].put
        BY <1>1 DEF Ascends
    <2>1. \A k \in 1..a : s[k].kind # "put"
        BY <1>1, <1>6 DEF Puts
    <2>2. i - a \in 1..b /\ j - a \in 1..b /\ r[i] = t[i - a] /\ r[j] = t[j - a] /\ i - a < j - a
        BY <1>4, <2>1
    <2>3. t[i - a].put < t[j - a].put
        BY <1>1, <1>6, <2>2 DEF Ascends
    <2> QED BY <2>2, <2>3
<1>7. ASSUME NEW G PROVE Meets(r, G) <=> Meets(s, G) \/ Meets(t, G)
    BY <1>1, <1>2, <1>3, <1>4 DEF Meets
<1> QED BY <1>0, <1>5, <1>6, <1>7

\* A put that goes out is newer than all that are on the wire, an answer is of
\* the oldest, and every put without an answer is there while writes are sent.
Waiting  == {outstanding[i] : i \in DOMAIN outstanding}
PutsKept ==
    /\ Ascends(down) /\ Ascends(up)
    /\ \A p \in Puts(down), q \in Puts(up) : p < q
    /\ Puts(down) \cup Puts(up) = IF CanSendWrites THEN Waiting ELSE {}

\* A connection restores once: the request that restores is sent once, and
\* nothing is left of it afterwards.
RestoresOnce ==
    /\ Single(up, AuthRequests(TRUE)) /\ Single(down, AuthAnswers(TRUE))
    /\ ~(Meets(up, AuthRequests(TRUE)) /\ Meets(down, AuthAnswers(TRUE)))
    /\ state # "authenticating" =>
            ~Meets(up, AuthRequests(TRUE)) /\ ~Meets(down, AuthAnswers(TRUE))

\* The writes are numbered: first those with an answer, then the others.
Answered == Called \cup {held[i] : i \in DOMAIN held}
Numbered ==
    \E a \in Nat : /\ Answered = 1..a
                   /\ \A i \in DOMAIN outstanding : outstanding[i] = a + i

LEMMA EmptyChannels ==
    /\ Puts(<<>>) = {} /\ Ascends(<<>>)
    /\ \A G : Single(<<>>, G) /\ ~Meets(<<>>, G)
BY DEF Puts, Ascends, Single, Meets

\* Closing, or a step that leaves the wire and the puts alone.
LEMMA OrderClosed ==
    ASSUME up' = <<>>, down' = <<>>, state' = "disconnected"
    PROVE  PutsKept' /\ RestoresOnce'
BY EmptyChannels DEF PutsKept, RestoresOnce, CanSendWrites

LEMMA OrderSame ==
    ASSUME PutsKept, RestoresOnce, UNCHANGED <<up, down, outstanding>>,
           CanSendWrites' = CanSendWrites,
           state' # "authenticating" => state # "authenticating" \/ (up = <<>> /\ down = <<>>)
    PROVE  PutsKept' /\ RestoresOnce'
<1>1. PutsKept'
    BY DEF PutsKept, Waiting
<1>2. RestoresOnce'
    BY EmptyChannels DEF RestoresOnce
<1> QED BY <1>1, <1>2

\* What is sent is neither a put nor the request that restores.
LEMMA OrderSend ==
    ASSUME PutsKept, RestoresOnce, TypeOK, NEW r \in Request, r.kind # "put",
           r \notin AuthRequests(TRUE), up' = Append(up, r),
           UNCHANGED <<down, outstanding, state>>
    PROVE  PutsKept' /\ RestoresOnce'
<1>1. /\ Puts(up') = Puts(up) /\ Ascends(up') /\ Single(up', AuthRequests(TRUE))
      /\ Meets(up', AuthRequests(TRUE)) => Meets(up, AuthRequests(TRUE))
    <2>1. up \in Seq(Request) /\ Ascends(up) /\ Single(up, AuthRequests(TRUE))
        BY DEF TypeOK, PutsKept, RestoresOnce
    <2>2. Puts(Append(up, r)) = Puts(up) /\ Ascends(Append(up, r))
        BY <2>1, OrderAppend
    <2>3. Single(Append(up, r), AuthRequests(TRUE))
        BY <2>1, OrderAppend
    <2>4. Meets(Append(up, r), AuthRequests(TRUE)) => Meets(up, AuthRequests(TRUE))
        BY <2>1, MeetsAppend
    <2> QED BY <2>2, <2>3, <2>4
<1>2. PutsKept'
    BY <1>1 DEF PutsKept, CanSendWrites, Waiting
<1>3. RestoresOnce'
    BY <1>1 DEF RestoresOnce
<1> QED BY <1>2, <1>3

\* The server says something that answers neither.
LEMMA OrderPush ==
    ASSUME PutsKept, RestoresOnce, TypeOK, NEW m \in Message, m.kind # "put",
           m \notin AuthAnswers(TRUE), down' = Append(down, m) \/ down' = down,
           \/ up' = up
           \/ up # <<>> /\ Head(up).kind # "put" /\ up' = Tail(up),
           UNCHANGED <<outstanding, state>>
    PROVE  PutsKept' /\ RestoresOnce'
<1>1. /\ Puts(down') = Puts(down) /\ Ascends(down') /\ Single(down', AuthAnswers(TRUE))
      /\ Meets(down', AuthAnswers(TRUE)) => Meets(down, AuthAnswers(TRUE))
    <2>1. down \in Seq(Message) /\ Ascends(down) /\ Single(down, AuthAnswers(TRUE))
        BY DEF TypeOK, PutsKept, RestoresOnce
    <2>2. Puts(Append(down, m)) = Puts(down) /\ Ascends(Append(down, m))
        BY <2>1, OrderAppend
    <2>3. Single(Append(down, m), AuthAnswers(TRUE))
        BY <2>1, OrderAppend
    <2>4. Meets(Append(down, m), AuthAnswers(TRUE)) => Meets(down, AuthAnswers(TRUE))
        BY <2>1, MeetsAppend
    <2> QED BY <2>1, <2>2, <2>3, <2>4
<1>2. /\ Puts(up') = Puts(up) /\ Ascends(up') /\ Single(up', AuthRequests(TRUE))
      /\ Meets(up', AuthRequests(TRUE)) => Meets(up, AuthRequests(TRUE))
    <2>1. up \in Seq(Request) /\ Ascends(up) /\ Single(up, AuthRequests(TRUE))
        BY DEF TypeOK, PutsKept, RestoresOnce
    <2>2. CASE up' = up
        BY <2>1, <2>2
    <2>3. CASE up # <<>> /\ Head(up).kind # "put" /\ up' = Tail(up)
        <3>1. Puts(Tail(up)) = Puts(up) /\ Ascends(Tail(up))
            BY <2>1, <2>3, OrderTail
        <3>2. /\ Single(Tail(up), AuthRequests(TRUE))
              /\ Meets(Tail(up), AuthRequests(TRUE)) => Meets(up, AuthRequests(TRUE))
            BY <2>1, <2>3, OrderTail
        <3> QED BY <2>3, <3>1, <3>2
    <2> QED BY <2>2, <2>3
<1>3. PutsKept'
    BY <1>1, <1>2 DEF PutsKept, CanSendWrites, Waiting
<1>4. RestoresOnce'
    BY <1>1, <1>2 DEF RestoresOnce
<1> QED BY <1>3, <1>4

\* A message arrives that answers neither.
LEMMA OrderArrive ==
    ASSUME PutsKept, RestoresOnce, TypeOK, down # <<>>, Head(down).kind # "put",
           down' = Tail(down), UNCHANGED <<up, outstanding, state>>
    PROVE  PutsKept' /\ RestoresOnce'
<1>1. down \in Seq(Message) /\ Ascends(down) /\ Single(down, AuthAnswers(TRUE))
    BY DEF TypeOK, PutsKept, RestoresOnce
<1>2. Puts(Tail(down)) = Puts(down) /\ Ascends(Tail(down))
    BY <1>1, OrderTail
<1>3. /\ Single(Tail(down), AuthAnswers(TRUE))
      /\ Meets(Tail(down), AuthAnswers(TRUE)) => Meets(down, AuthAnswers(TRUE))
    BY <1>1, OrderTail
<1>4. PutsKept'
    BY <1>2 DEF PutsKept, CanSendWrites, Waiting
<1>5. RestoresOnce'
    BY <1>3 DEF RestoresOnce
<1> QED BY <1>4, <1>5

\* restoreState puts every put without an answer on a wire that has none.
LEMMA OrderRestore ==
    ASSUME TypeOK, Restore, Numbered, Puts(up) = {}, Puts(down') = {}, Ascends(down'),
           ~Meets(up, AuthRequests(TRUE)), ~Meets(down', AuthAnswers(TRUE)),
           state' = "connected", outstanding' = outstanding
    PROVE  PutsKept' /\ RestoresOnce'
<1>1. PICK order \in Orders(Wanted) :
        up' = up \o [i \in DOMAIN order |-> ListenTo(order[i], listens[order[i]])]
                 \o [i \in DOMAIN outstanding |-> PutOf(outstanding[i])]
    BY DEF Restore
<1>2. PICK a : a = [i \in DOMAIN order |-> ListenTo(order[i], listens[order[i]])]
    OBVIOUS
<1>3. PICK b : b = [i \in DOMAIN outstanding |-> PutOf(outstanding[i])]
    OBVIOUS
<1>4. a \in Seq(ListenRequests) /\ a \in Seq(Request)
    <2>1. IsFiniteSet(Wanted) /\ Cardinality(Wanted) \in Nat
        BY ConnectionBoundAssumption, FS_Subset, FS_CardinalityType DEF Wanted
    <2>2. DOMAIN order = 1..Cardinality(Wanted) /\ \A i \in DOMAIN order : order[i] \in Wanted
        BY DEF Orders
    <2>3. \A q \in Wanted : ListenTo(q, listens[q]) \in ListenRequests
        BY ConnectionBoundAssumption, RequestTypes DEF TypeOK, Wanted, ListenRequests, ListenTo
    <2>4. \A i \in 1..Cardinality(Wanted) : ListenTo(order[i], listens[order[i]]) \in ListenRequests
        BY <2>2, <2>3
    <2>5. a \in Seq(ListenRequests)
        BY <1>2, <2>1, <2>2, <2>4, IsASeq
    <2> QED BY <2>5, SeqMonotonic DEF ListenRequests
<1>5. b \in Seq(Request) /\ Puts(b) = Waiting /\ Ascends(b) /\ ~Meets(b, AuthRequests(TRUE))
    <2>1. PICK l \in Nat : /\ DOMAIN outstanding = 1..l
                           /\ \A i \in 1..l : outstanding[i] \in Put
        BY LenProperties, ElementOfSeq DEF TypeOK
    <2>2. DOMAIN b = 1..l /\ \A i \in 1..l : b[i] = PutOf(outstanding[i])
        BY <1>3, <2>1
    <2>3. \A i \in 1..l : b[i].kind = "put" /\ b[i].put = outstanding[i]
        BY <2>2 DEF PutOf
    <2>4. b \in Seq(Request)
        <3>1. \A i \in 1..l : PutOf(outstanding[i]) \in Request
            BY <2>1, RequestTypes
        <3> QED BY <1>3, <2>1, <3>1, IsASeq
    <2>5. Puts(b) = Waiting
        BY <2>1, <2>2, <2>3 DEF Puts, Waiting
    <2>6. Ascends(b)
        <3>1. PICK n \in Nat : \A i \in 1..l : outstanding[i] = n + i
            BY <2>1 DEF Numbered
        <3>2. \A i, j \in 1..l : i < j => n + i < n + j
            OBVIOUS
        <3> QED BY <2>2, <2>3, <3>1, <3>2 DEF Ascends
    <2> QED BY <2>2, <2>3, <2>4, <2>5, <2>6 DEF Meets, AuthRequests
<1>6. Puts(a) = {} /\ ~Meets(a, AuthRequests(TRUE))
    BY <1>4, LenProperties, ElementOfSeq DEF Puts, Meets, ListenRequests, AuthRequests
<1>7. PICK c \in Seq(Request) : c = up \o a
    BY <1>4, SeqTypes DEF TypeOK
<1>8. Puts(c) = {} /\ ~Meets(c, AuthRequests(TRUE))
    BY <1>4, <1>6, <1>7, OrderConcat DEF TypeOK
<1>9. Puts(up') = Waiting /\ Ascends(up') /\ ~Meets(up', AuthRequests(TRUE))
    <2>1. up' = c \o b
        BY <1>1, <1>2, <1>3, <1>7
    <2>2. c \in Seq(Request) /\ b \in Seq(Request)
        BY <1>5, <1>7
    <2>3. /\ Puts(c \o b) = Puts(c) \cup Puts(b)
          /\ Puts(c) = {} /\ Ascends(b) => Ascends(c \o b)
        BY <2>2, OrderConcat
    <2>4. Meets(c \o b, AuthRequests(TRUE)) <=> Meets(c, AuthRequests(TRUE))
                                                \/ Meets(b, AuthRequests(TRUE))
        BY <2>2, OrderConcat
    <2> QED BY <1>5, <1>8, <2>1, <2>3, <2>4
<1>10. PutsKept'
    BY <1>9 DEF PutsKept, CanSendWrites, Waiting
<1>11. RestoresOnce'
    BY <1>9 DEF RestoresOnce, Single, Meets
<1> QED BY <1>10, <1>11

\* What sequences hold.
Held(s) == {s[i] : i \in DOMAIN s}

LEMMA HeldOf ==
    ASSUME NEW S
    PROVE  /\ Held(<<>>) = {}
           /\ \A s \in Seq(S), x \in S : Held(Append(s, x)) = Held(s) \cup {x}
           /\ \A s, t \in Seq(S) : Held(s \o t) = Held(s) \cup Held(t)
<1>1. ASSUME NEW s \in Seq(S), NEW x \in S PROVE Held(Append(s, x)) = Held(s) \cup {x}
    <2>1. PICK l \in Nat : DOMAIN s = 1..l /\ Len(s) = l
        BY LenProperties
    <2>2. /\ DOMAIN Append(s, x) = (1..l) \cup {l + 1}
          /\ \A i \in 1..l : Append(s, x)[i] = s[i]
          /\ Append(s, x)[l + 1] = x
        BY <2>1, AppendProperties
    <2> QED BY <2>1, <2>2 DEF Held
<1>2. ASSUME NEW s \in Seq(S), NEW t \in Seq(S) PROVE Held(s \o t) = Held(s) \cup Held(t)
    <2>1. PICK a \in Nat, b \in Nat :
            /\ DOMAIN s = 1..a /\ DOMAIN t = 1..b /\ DOMAIN (s \o t) = 1..(a + b)
            /\ \A i \in 1..a : (s \o t)[i] = s[i]
            /\ \A i \in 1..(a + b) : i > a => (s \o t)[i] = t[i - a]
        <3>1. /\ Len(s) \in Nat /\ Len(t) \in Nat
              /\ DOMAIN s = 1..Len(s) /\ DOMAIN t = 1..Len(t)
              /\ DOMAIN (s \o t) = 1..(Len(s) + Len(t))
              /\ \A i \in 1..Len(s) : (s \o t)[i] = s[i]
              /\ \A i \in 1..(Len(s) + Len(t)) : i > Len(s) => (s \o t)[i] = t[i - Len(s)]
            BY LenProperties, ConcatProperties
        <3> QED BY <3>1
    <2>2. PICK r : r = s \o t
        OBVIOUS
    <2>3. \A i \in 1..a : i \in 1..(a + b) /\ r[i] = s[i]
        BY <2>1, <2>2
    <2>4. \A j \in 1..b : a + j \in 1..(a + b) /\ a + j > a /\ (a + j) - a = j
        OBVIOUS
    <2>5. \A i \in 1..(a + b) : i \in 1..a \/ (i > a /\ i - a \in 1..b)
        OBVIOUS
    <2>6. \A j \in 1..b : r[a + j] = t[j]
        BY <2>1, <2>2, <2>4
    <2>7. Held(s) \subseteq Held(r) /\ Held(t) \subseteq Held(r)
        <3>1. \A i \in DOMAIN s : s[i] \in Held(r)
            BY <2>1, <2>2, <2>3 DEF Held
        <3>2. \A j \in DOMAIN t : a + j \in DOMAIN r /\ r[a + j] = t[j]
            BY <2>1, <2>2, <2>4, <2>6
        <3>3. \A j \in DOMAIN t : t[j] \in Held(r)
            BY <3>2 DEF Held
        <3> QED BY <3>1, <3>3 DEF Held
    <2>8. Held(r) \subseteq Held(s) \cup Held(t)
        BY <2>1, <2>2, <2>3, <2>5 DEF Held
    <2> QED BY <2>2, <2>7, <2>8
<1>3. Held(<<>>) = {}
    BY DEF Held
<1> QED BY <1>1, <1>2, <1>3

\* The put whose answer arrives is the oldest one without an answer, and it is
\* gone from the wire and from the puts that wait.
LEMMA AnswerTaken ==
    ASSUME TypeOK, PutsKept, Numbered, RecvPut, QuietWire
    PROVE  /\ state = "connected" \/ state = "authenticating"
           /\ Puts(down) # {}
           /\ outstanding # <<>> /\ outstanding' = Tail(outstanding)
           /\ \E a \in Nat :
                /\ Answered = 1..a /\ Head(down).put = a + 1 /\ a + 1 \in Put
                /\ \A i \in DOMAIN outstanding' : outstanding'[i] = (a + 1) + i
                /\ {outstanding'[i] : i \in DOMAIN outstanding'} = Waiting \ {a + 1}
<1>1. /\ down # <<>> /\ Head(down).kind = "put" /\ down \in Seq(Message)
      /\ Head(down) \in Message
    <2>1. down # <<>> /\ Head(down).kind = "put" /\ down \in Seq(Message)
        BY DEF RecvPut, Receives, TypeOK
    <2> QED BY <2>1, SeqTypes
<1>2. PICK p \in Put : p = Head(down).put
    BY <1>1 DEF Message
<1>3. p \in Puts(down) /\ \A q \in Puts(down) : p <= q
    <2>1. Puts(down) = Puts(Tail(down)) \cup {p}
        BY <1>1, <1>2, OrderTail
    <2>2. \A q \in Puts(Tail(down)) : p < q
        BY <1>1, <1>2, OrderTail DEF PutsKept
    <2>3. \A q \in Puts(down) : q \in Put
        BY <1>1, LenProperties, ElementOfSeq DEF Puts, Message
    <2> QED BY <2>1, <2>2, <2>3 DEF Put
<1>4. CanSendWrites /\ p \in Waiting /\ \A q \in Waiting : p <= q
    <2>1. CanSendWrites /\ Puts(down) \cup Puts(up) = Waiting
        BY <1>3 DEF PutsKept
    <2>2. \A q \in Puts(up) : p < q
        BY <1>3 DEF PutsKept
    <2>3. \A q \in Waiting : q \in Put
        BY LenProperties, ElementOfSeq DEF Waiting, TypeOK
    <2> QED BY <1>3, <2>1, <2>2, <2>3 DEF Put
<1>5. PICK a \in Nat : Answered = 1..a /\ \A i \in DOMAIN outstanding : outstanding[i] = a + i
    BY DEF Numbered
<1>6. PICK l \in Nat : DOMAIN outstanding = 1..l /\ Len(outstanding) = l
    BY LenProperties DEF TypeOK
<1>7. PICK i \in 1..l : outstanding[i] = p /\ outstanding' = RemoveAt(outstanding, i)
    BY <1>2, <1>6 DEF RecvPut
<1>8. i = 1 /\ p = a + 1
    <2>1. 1 \in 1..l /\ outstanding[1] = a + 1 /\ p = a + i
        BY <1>5, <1>6, <1>7
    <2>2. a + 1 \in Waiting
        BY <1>6, <2>1 DEF Waiting
    <2>3. a + i <= a + 1
        BY <1>4, <2>1, <2>2
    <2> QED BY <2>1, <2>3
<1>9. PICK n \in Nat : n = l - 1 /\ l = n + 1
    BY <1>7
<1>10. DOMAIN outstanding' = 1..n /\ \A j \in 1..n : outstanding'[j] = outstanding[j + 1]
    <2>1. PICK e, t : e = SubSeq(outstanding, 1, 0) /\ t = SubSeq(outstanding, 2, l)
        OBVIOUS
    <2>2. outstanding' = e \o t
        BY <1>6, <1>7, <1>8, <2>1 DEF RemoveAt
    <2>3. outstanding \in Seq(Put)
        BY DEF TypeOK
    <2>4. e \in Seq(Put) /\ Len(e) = 0
        BY <1>6, <2>1, <2>3, SubSeqProperties
    <2>5. /\ t \in Seq(Put) /\ Len(t) = n
          /\ \A j \in 1..n : t[j] = outstanding[j + 1]
        <3>1. \A j \in 2..l : outstanding[j] \in Put
            BY <1>6, <2>3, ElementOfSeq
        <3>2. /\ t \in Seq(Put)
              /\ Len(t) = IF 2 <= l THEN l - 2 + 1 ELSE 0
              /\ \A j \in 1..(l - 2 + 1) : t[j] = outstanding[2 + j - 1]
            BY <1>6, <2>1, <2>3, <3>1, SubSeqProperties
        <3>3. l - 2 + 1 = n /\ \A j \in 1..n : 2 + j - 1 = j + 1
            BY <1>9
        <3>4. (IF 2 <= l THEN l - 2 + 1 ELSE 0) = n
            BY <1>9
        <3> QED BY <3>2, <3>3, <3>4
    <2>6. DOMAIN (e \o t) = 1..n /\ \A j \in 1..n : (e \o t)[j] = t[j]
        <3>1. /\ Len(e \o t) = 0 + n /\ e \o t \in Seq(Put)
              /\ \A j \in 1..(0 + n) : j > 0 => (e \o t)[j] = t[j - 0]
            BY <2>4, <2>5, ConcatProperties
        <3>2. DOMAIN (e \o t) = 1..n
            BY <3>1, LenProperties
        <3> QED BY <3>1, <3>2
    <2> QED BY <2>2, <2>5, <2>6
<1>11. ASSUME NEW j \in 1..n PROVE outstanding'[j] = (a + 1) + j
    <2>1. j + 1 \in 1..l /\ a + (j + 1) = (a + 1) + j
        BY <1>9
    <2>2. outstanding[j + 1] = a + (j + 1)
        BY <1>5, <1>6, <2>1
    <2> QED BY <1>10, <2>1, <2>2
<1>12. {outstanding'[j] : j \in DOMAIN outstanding'} = Waiting \ {a + 1}
    <2>1. ASSUME NEW j \in 1..n PROVE outstanding'[j] \in Waiting \ {a + 1}
        <3>1. j + 1 \in 1..l /\ (a + 1) + j # a + 1
            BY <1>9
        <3>2. outstanding'[j] = outstanding[j + 1] /\ outstanding'[j] # a + 1
            BY <1>10, <1>11, <3>1
        <3> QED BY <1>6, <3>1, <3>2 DEF Waiting
    <2>2. ASSUME NEW j \in 1..l, outstanding[j] # a + 1
          PROVE  \E k \in 1..n : outstanding'[k] = outstanding[j]
        <3>1. outstanding[j] = a + j
            BY <1>5, <1>6
        <3>2. PICK k \in 1..n : k + 1 = j
            <4>1. j - 1 \in 1..n /\ (j - 1) + 1 = j
                BY <1>9, <2>2, <3>1
            <4> QED BY <4>1
        <3>3. outstanding'[k] = outstanding[k + 1]
            BY <1>10
        <3> QED BY <3>2, <3>3
    <2>3. PICK later : later = {outstanding'[j] : j \in DOMAIN outstanding'}
        OBVIOUS
    <2>4. later \subseteq Waiting \ {a + 1}
        BY <1>10, <2>1, <2>3
    <2>5. ASSUME NEW x \in Waiting, x # a + 1 PROVE x \in later
        <3>1. PICK j \in 1..l : outstanding[j] = x
            BY <1>6 DEF Waiting
        <3>2. PICK k \in 1..n : outstanding'[k] = x
            BY <2>2, <2>5, <3>1
        <3> QED BY <1>10, <2>3, <3>2
    <2> QED BY <2>3, <2>4, <2>5
<1>13. outstanding # <<>> /\ outstanding' = Tail(outstanding)
    <2>1. outstanding \in Seq(Put) /\ outstanding # <<>>
        BY <1>6, <1>7, EmptySeq DEF TypeOK
    <2>2. outstanding' \in Seq(Put)
        <3>1. RemoveAt(outstanding, i) \in Seq(Put)
            BY <1>6, <2>1, RemoveAtType
        <3> QED BY <1>7, <3>1
    <2>3. PICK t : t = Tail(outstanding)
        OBVIOUS
    <2>4. /\ t \in Seq(Put) /\ Len(t) = n
          /\ \A j \in 1..n : t[j] = outstanding[j + 1]
        BY <1>6, <1>9, <2>1, <2>3, HeadTailProperties
    <2>5. Len(outstanding') = n
        <3>1. DOMAIN outstanding' = 1..Len(outstanding') /\ Len(outstanding') \in Nat
            BY <2>2, LenProperties
        <3> QED BY <1>10, <3>1
    <2>6. Len(outstanding') = Len(t) /\ \A j \in 1..Len(outstanding') : outstanding'[j] = t[j]
        BY <1>10, <2>4, <2>5
    <2>7. outstanding' = t
        BY <2>2, <2>4, <2>6, SeqEqual
    <2> QED BY <2>1, <2>3, <2>7
<1> QED BY <1>2, <1>3, <1>4, <1>5, <1>8, <1>10, <1>11, <1>12, <1>13 DEF CanSendWrites

\* The numbering survives writes, answers and the release of those held back.
LEMMA NumberedStep ==
    ASSUME TypeInv, PutsKept, Numbered, Next
    PROVE  Numbered'
<1>1. PICK a \in Nat : Answered = 1..a /\ \A i \in DOMAIN outstanding : outstanding[i] = a + i
    BY DEF Numbered
<1>2. /\ outstanding \in Seq(Put) /\ held \in Seq(Put) /\ called \in Seq(Put)
      /\ Called = Held(called) /\ Answered = Held(called) \cup Held(held)
    BY DEF TypeInv, TypeOK, Called, Answered, Held
<1>3. CASE UNCHANGED <<outstanding, held, called>>
    BY <1>1, <1>3 DEF Numbered, Answered, Called
<1>4. CASE PutData
    <2>1. PICK l \in Nat : DOMAIN outstanding = 1..l /\ Len(outstanding) = l
        BY <1>2, LenProperties
    <2>2. Cardinality(Made) = a + l
        <3>1. Made = 1..(a + l)
            <4>1. Made = Answered \cup Waiting
                BY DEF Made, Answered, Waiting
            <4>2. \A i \in 1..l : a + i \in 1..(a + l)
                OBVIOUS
            <4>3. \A x \in 1..(a + l) : x \in 1..a \/ (x - a \in 1..l /\ a + (x - a) = x)
                OBVIOUS
            <4>4. \A i \in 1..l : outstanding[i] = a + i
                BY <1>1, <2>1
            <4>5. Waiting \subseteq 1..(a + l)
                BY <2>1, <4>2, <4>4 DEF Waiting
            <4>6. \A x \in 1..(a + l) : x \notin 1..a => x \in Waiting
                <5> SUFFICES ASSUME NEW x \in 1..(a + l), x \notin 1..a PROVE x \in Waiting
                    OBVIOUS
                <5>1. PICK k \in 1..l : a + k = x
                    BY <4>3
                <5> QED BY <2>1, <4>4, <5>1 DEF Waiting
            <4>7. 1..a \subseteq 1..(a + l)
                OBVIOUS
            <4> QED BY <1>1, <4>1, <4>5, <4>6, <4>7
        <3>2. PICK b \in Nat : b = a + l
            OBVIOUS
        <3>3. Cardinality(1..b) = b
            <4>1. Cardinality(1..b) = IF 1 > b THEN 0 ELSE b - 1 + 1
                BY FS_Interval
            <4>2. (IF 1 > b THEN 0 ELSE b - 1 + 1) = b
                OBVIOUS
            <4> QED BY <4>1, <4>2
        <3> QED BY <3>1, <3>2, <3>3
    <2>3. outstanding' = Append(outstanding, a + l + 1) /\ UNCHANGED <<held, called>>
        BY <1>4, <2>2 DEF PutData
    <2>4. /\ DOMAIN outstanding' = (1..l) \cup {l + 1}
          /\ \A i \in 1..l : outstanding'[i] = outstanding[i]
          /\ outstanding'[l + 1] = a + l + 1
        <3>1. a + l + 1 \in Put
            BY <1>4, <2>2, NextPutType DEF PutData, TypeInv
        <3>2. DOMAIN Append(outstanding, a + l + 1) = 1..(l + 1)
            BY <1>2, <2>1, <3>1, AppendProperties, LenProperties
        <3>3. /\ \A i \in 1..l : Append(outstanding, a + l + 1)[i] = outstanding[i]
              /\ Append(outstanding, a + l + 1)[l + 1] = a + l + 1
            BY <1>2, <2>1, <3>1, AppendProperties
        <3>4. 1..(l + 1) = (1..l) \cup {l + 1}
            OBVIOUS
        <3> QED BY <2>3, <3>2, <3>3, <3>4
    <2>5. \A i \in DOMAIN outstanding' : outstanding'[i] = a + i
        BY <1>1, <2>1, <2>4
    <2>6. Answered' = 1..a
        BY <1>1, <2>3 DEF Answered, Called
    <2> QED BY <2>5, <2>6 DEF Numbered
<1>5. CASE RecvListen
    <2>1. outstanding' = outstanding
        BY <1>5 DEF RecvListen
    <2>2. \/ UNCHANGED <<held, called>>
          \/ called' = called \o held /\ held' = <<>>
        BY <1>5 DEF RecvListen
    <2>3. CASE called' = called \o held /\ held' = <<>>
        <3>1. Answered' = Held(called') \cup Held(held')
            BY DEF Answered, Called, Held
        <3>2. Held(called') = Held(called) \cup Held(held) /\ Held(held') = {}
            BY <1>2, <2>3, HeldOf
        <3>3. Answered' = 1..a
            BY <1>1, <1>2, <3>1, <3>2
        <3> QED BY <1>1, <2>1, <3>3 DEF Numbered
    <2> QED BY <1>3, <2>1, <2>2, <2>3
<1>6. CASE RecvPut
    <2>1. PICK b \in Nat :
            /\ Answered = 1..b /\ Head(down).put = b + 1 /\ b + 1 \in Put
            /\ \A i \in DOMAIN outstanding' : outstanding'[i] = (b + 1) + i
        BY <1>6, AnswerTaken DEF TypeInv
    <2>2. \/ called' = Append(called, b + 1) /\ held' = held
          \/ held' = Append(held, b + 1) /\ called' = called
        BY <1>6, <2>1 DEF RecvPut
    <2>3. Answered' = Answered \cup {b + 1}
        <3>1. Answered' = Held(called') \cup Held(held')
            BY DEF Answered, Called, Held
        <3>2. /\ Held(Append(called, b + 1)) = Held(called) \cup {b + 1}
              /\ Held(Append(held, b + 1)) = Held(held) \cup {b + 1}
            BY <1>2, <2>1, HeldOf
        <3> QED BY <1>2, <2>2, <3>1, <3>2
    <2>4. PICK c \in Nat : c = b + 1
        OBVIOUS
    <2>5. Answered' = 1..c
        BY <2>1, <2>3, <2>4
    <2> QED BY <2>1, <2>4, <2>5 DEF Numbered
<1>7. CASE App
    BY <1>3, <1>4, <1>7 DEF App, Listen, Unlisten, SignIn, SignOut, Interrupt, Nudge, Resume, writing
<1>8. CASE Fault \/ Retry \/ FetchDone \/ OnReady
    BY <1>3, <1>8 DEF Fault, Lose, OnKill, Revoke, FetchFails, Retry, FetchDone, Fetched,
                      OnReady, writing
<1>9. CASE Receive \/ Serve \/ ServerRevokes \/ \E r \in Query : ServerCancels(r)
    BY <1>3, <1>5, <1>6, <1>9 DEF Receive, RecvAuth, RecvRevoked, RecvCancel, Serve, ServeAuth,
                ServeUnauth, ServeListen, ServeUnlisten, ServePut, ServerRevokes,
                ServerCancels, ServerOnly, writing
<1> QED BY <1>7, <1>8, <1>9 DEF Next

\* The answer to the oldest put is taken off the wire.
LEMMA OrderAnswer ==
    ASSUME TypeInv, PutsKept, RestoresOnce, Numbered, RecvPut
    PROVE  PutsKept' /\ RestoresOnce'
<1>1. PICK a \in Nat :
        /\ Head(down).put = a + 1
        /\ {outstanding'[i] : i \in DOMAIN outstanding'} = Waiting \ {a + 1}
    BY AnswerTaken DEF TypeInv
<1>2. /\ down # <<>> /\ Head(down).kind = "put" /\ down \in Seq(Message)
      /\ down' = Tail(down) /\ UNCHANGED <<up, state>>
    BY DEF TypeInv, TypeOK, RecvPut, Receives, Arrived, machine
<1>3. Puts(down) = Puts(Tail(down)) \cup {a + 1}
    BY <1>1, <1>2, OrderTail
<1>4. Ascends(Tail(down)) /\ \A p \in Puts(Tail(down)) : a + 1 < p
    BY <1>1, <1>2, OrderTail DEF PutsKept
<1>5. /\ Single(Tail(down), AuthAnswers(TRUE))
      /\ Meets(Tail(down), AuthAnswers(TRUE)) => Meets(down, AuthAnswers(TRUE))
    BY <1>2, OrderTail DEF RestoresOnce
<1>6. a + 1 \notin Puts(Tail(down)) /\ a + 1 \notin Puts(up)
    <2>1. a + 1 \notin Puts(Tail(down))
        BY <1>4
    <2>2. \A q \in Puts(up) : a + 1 < q
        BY <1>3 DEF PutsKept
    <2>3. a + 1 \notin Puts(up)
        BY <2>2
    <2> QED BY <2>1, <2>3
<1>7. CanSendWrites /\ Puts(down) \cup Puts(up) = Waiting
    BY <1>3 DEF PutsKept
<1>8. Puts(Tail(down)) \cup Puts(up) = Waiting \ {a + 1}
    BY <1>3, <1>6, <1>7
<1>9. PutsKept'
    <2>1. Waiting' = Waiting \ {a + 1}
        BY <1>1 DEF Waiting
    <2>2. Ascends(down') /\ Ascends(up') /\ \A p \in Puts(down'), q \in Puts(up') : p < q
        BY <1>2, <1>3, <1>4 DEF PutsKept
    <2>3. CanSendWrites'
        BY <1>2, <1>7 DEF CanSendWrites
    <2> QED BY <1>2, <1>8, <2>1, <2>2, <2>3 DEF PutsKept
<1>10. RestoresOnce'
    BY <1>2, <1>5 DEF RestoresOnce
<1> QED BY <1>9, <1>10

\* The newest put is sent last.
LEMMA OrderWrite ==
    ASSUME TypeInv, PutsKept, RestoresOnce, Numbered, PutData
    PROVE  PutsKept' /\ RestoresOnce'
<1>1. PICK p \in Put : p = Cardinality(Made) + 1
    BY NextPutType DEF PutData, TypeInv
<1>2. /\ outstanding' = Append(outstanding, p)
      /\ up' = IF CanSendWrites THEN Append(up, PutOf(p)) ELSE up
      /\ UNCHANGED <<down, state>>
    BY <1>1 DEF PutData, machine
<1>3. \A x \in Waiting : x < p
    <2>1. IsFiniteSet(Made) /\ Waiting \subseteq Made
        <3>1. IsFiniteSet(Put)
            BY ConnectionBoundAssumption, FS_Interval DEF Put
        <3>2. Made \subseteq Put
            BY LenProperties, ElementOfSeq DEF Made, Called, TypeInv, TypeOK
        <3> QED BY <3>1, <3>2, FS_Subset DEF Made, Waiting
    <2>2. PICK a \in Nat : Answered = 1..a /\ \A i \in DOMAIN outstanding : outstanding[i] = a + i
        BY DEF Numbered
    <2>3. PICK l \in Nat : DOMAIN outstanding = 1..l
        BY LenProperties DEF TypeInv, TypeOK
    <2>4. ASSUME NEW x \in Waiting PROVE x < p
        <3>1. PICK i \in 1..l : x = a + i
            BY <2>2, <2>3 DEF Waiting
        <3>2. 1..x \subseteq Made
            <4>1. \A y \in 1..x : y \in 1..a \/ (y - a \in 1..l /\ a + (y - a) = y)
                BY <3>1
            <4>2. ASSUME NEW y \in 1..x, y \notin 1..a PROVE y \in Waiting
                <5>1. PICK k \in 1..l : a + k = y
                    BY <4>1, <4>2
                <5> QED BY <2>2, <2>3, <5>1 DEF Waiting
            <4>3. Answered \subseteq Made
                BY DEF Answered, Made
            <4> QED BY <2>1, <2>2, <4>2, <4>3
        <3>3. x \in Nat /\ Cardinality(1..x) = x
            <4>1. x \in Nat /\ 1 <= x
                BY <3>1
            <4>2. Cardinality(1..x) = IF 1 > x THEN 0 ELSE x - 1 + 1
                BY <4>1, FS_Interval
            <4>3. (IF 1 > x THEN 0 ELSE x - 1 + 1) = x
                BY <4>1
            <4> QED BY <4>1, <4>2, <4>3
        <3>4. Cardinality(1..x) <= Cardinality(Made) /\ Cardinality(Made) \in Nat
            BY <2>1, <3>2, FS_Subset, FS_CardinalityType
        <3> QED BY <1>1, <3>3, <3>4
    <2> QED BY <2>4
<1>4. Waiting' = Waiting \cup {p}
    <2>1. Waiting' = Held(Append(outstanding, p)) /\ Waiting = Held(outstanding)
        BY <1>2 DEF Waiting, Held
    <2> QED BY <2>1, HeldOf DEF TypeInv, TypeOK
<1>5. CASE ~CanSendWrites
    <2>1. PutsKept'
        BY <1>2, <1>5 DEF PutsKept, CanSendWrites
    <2> QED BY <1>2, <1>5, <2>1 DEF RestoresOnce
<1>6. CASE CanSendWrites
    <2>1. PICK r \in Request : r = PutOf(p) /\ r.kind = "put" /\ r.put = p
        BY RequestTypes DEF PutOf
    <2>2. up' = Append(up, r) /\ up \in Seq(Request)
        BY <1>2, <1>6, <2>1 DEF TypeInv, TypeOK
    <2>3. Puts(down) \cup Puts(up) = Waiting
        BY <1>6 DEF PutsKept
    <2>4. Puts(Append(up, r)) = Puts(up) \cup {p} /\ Ascends(Append(up, r))
        BY <1>3, <2>1, <2>2, <2>3, OrderAppend DEF PutsKept
    <2>5. r \notin AuthRequests(TRUE)
        BY <2>1 DEF AuthRequests
    <2>6. /\ Single(Append(up, r), AuthRequests(TRUE))
          /\ Meets(Append(up, r), AuthRequests(TRUE)) => Meets(up, AuthRequests(TRUE))
        BY <2>2, <2>5, OrderAppend, MeetsAppend DEF RestoresOnce
    <2>7. PutsKept'
        <3>1. \A x \in Puts(down), q \in Puts(up) \cup {p} : x < q
            BY <1>3, <2>3 DEF PutsKept
        <3>2. CanSendWrites'
            BY <1>2, <1>6 DEF CanSendWrites
        <3> QED BY <1>2, <1>4, <2>2, <2>3, <2>4, <3>1, <3>2 DEF PutsKept
    <2>8. RestoresOnce'
        BY <1>2, <2>2, <2>6 DEF RestoresOnce
    <2> QED BY <2>7, <2>8
<1> QED BY <1>5, <1>6

\* A put travels through the server.
LEMMA OrderServePut ==
    ASSUME TypeInv, PutsKept, RestoresOnce, ServePut
    PROVE  PutsKept' /\ RestoresOnce'
<1>1. /\ up # <<>> /\ Head(up).kind = "put" /\ up' = Tail(up) /\ down' = Append(down, Head(up))
      /\ up \in Seq(Request) /\ down \in Seq(Message)
      /\ UNCHANGED <<state, outstanding>>
    BY DEF TypeInv, TypeOK, ServePut, Serves, Answer, ServerOnly, machine, writing
<1>2. PICK r \in Message : r = Head(up) /\ r.kind = "put"
    <2>1. Head(up) \in Request
        BY <1>1, SeqTypes
    <2> QED BY <1>1, <2>1 DEF Request, Message
<1>3. /\ Puts(up) = Puts(Tail(up)) \cup {r.put} /\ Ascends(Tail(up))
      /\ \A p \in Puts(Tail(up)) : r.put < p
    BY <1>1, <1>2, OrderTail DEF PutsKept
<1>4. /\ Single(Tail(up), AuthRequests(TRUE))
      /\ Meets(Tail(up), AuthRequests(TRUE)) => Meets(up, AuthRequests(TRUE))
    BY <1>1, OrderTail DEF RestoresOnce
<1>5. Puts(Append(down, r)) = Puts(down) \cup {r.put} /\ Ascends(Append(down, r))
    <2>1. \A p \in Puts(down) : p < r.put
        BY <1>3 DEF PutsKept
    <2> QED BY <1>1, <1>2, <2>1, OrderAppend DEF PutsKept
<1>6. r \notin AuthAnswers(TRUE)
    BY <1>2 DEF AuthAnswers
<1>7. /\ Single(Append(down, r), AuthAnswers(TRUE))
      /\ Meets(Append(down, r), AuthAnswers(TRUE)) => Meets(down, AuthAnswers(TRUE))
    BY <1>1, <1>6, OrderAppend, MeetsAppend DEF RestoresOnce
<1>8. PutsKept'
    <2>1. \A p \in Puts(down) \cup {r.put}, q \in Puts(Tail(up)) : p < q
        BY <1>3 DEF PutsKept
    <2>2. Puts(down') \cup Puts(up') = Puts(down) \cup Puts(up)
        BY <1>1, <1>2, <1>3, <1>5
    <2>3. Waiting' = Waiting /\ CanSendWrites' = CanSendWrites
        BY <1>1 DEF Waiting, CanSendWrites
    <2> QED BY <1>1, <1>2, <1>3, <1>5, <2>1, <2>2, <2>3 DEF PutsKept
<1>9. RestoresOnce'
    BY <1>1, <1>2, <1>4, <1>7 DEF RestoresOnce
<1> QED BY <1>8, <1>9

\* The request that restores is answered.
LEMMA OrderServeAuth ==
    ASSUME TypeInv, PutsKept, RestoresOnce, ServeAuth
    PROVE  PutsKept' /\ RestoresOnce'
<1> DEFINE m == [kind |-> "auth", ok |-> Head(up).token >= valid, restore |-> Head(up).restore]
<1>1. /\ up # <<>> /\ Head(up).kind = "auth" /\ up' = Tail(up) /\ down' = Append(down, m)
      /\ up \in Seq(Request) /\ down \in Seq(Message)
      /\ UNCHANGED <<state, outstanding>>
    BY DEF TypeInv, TypeOK, ServeAuth, Serves, Answer, ServerOnly, machine, writing
<1>2. Head(up) \in Request /\ Head(up).restore \in BOOLEAN
    <2>1. Head(up) \in Request
        BY <1>1, SeqTypes
    <2> QED BY <1>1, <2>1 DEF Request
<1>3. m \in Message /\ m.kind = "auth" /\ m.restore = Head(up).restore
    BY <1>2 DEF Message
<1> HIDE DEF m
<1>4. CASE ~Head(up).restore
    <2>1. m.kind # "put" /\ m \notin AuthAnswers(TRUE) /\ Head(up).kind # "put"
        BY <1>1, <1>3, <1>4 DEF AuthAnswers
    <2> QED BY <1>1, <1>3, <2>1, OrderPush DEF TypeInv
<1>5. CASE Head(up).restore
    <2>1. Head(up) \in AuthRequests(TRUE) /\ m \in AuthAnswers(TRUE)
        BY <1>1, <1>2, <1>3, <1>5 DEF AuthRequests, AuthAnswers
    <2>2. 1 \in DOMAIN up /\ up[1] = Head(up)
        BY <1>1, LenProperties, EmptySeq, HeadTailProperties
    <2>3. Meets(up, AuthRequests(TRUE)) /\ ~Meets(down, AuthAnswers(TRUE))
          /\ state = "authenticating"
        BY <2>1, <2>2 DEF Meets, RestoresOnce
    <2>4. Puts(Tail(up)) = Puts(up) /\ Ascends(Tail(up))
        <3>1. up \in Seq(Request) /\ up # <<>> /\ Ascends(up) /\ Head(up).kind # "put"
            BY <1>1 DEF PutsKept
        <3>2. Puts(Tail(up)) = Puts(up)
            BY <3>1, OrderTail
        <3>3. Ascends(Tail(up))
            BY <3>1, OrderTail
        <3> QED BY <3>2, <3>3
    <2>5. Single(Tail(up), AuthRequests(TRUE)) /\ ~Meets(Tail(up), AuthRequests(TRUE))
        BY <1>1, <2>1, OrderTail DEF RestoresOnce
    <2>6. Puts(Append(down, m)) = Puts(down) /\ Ascends(Append(down, m))
        <3>1. /\ down \in Seq(Message) /\ m \in Message /\ m.kind # "put"
              /\ Ascends(down)
            BY <1>1, <1>3 DEF PutsKept
        <3>2. Puts(Append(down, m)) = Puts(down)
            BY <3>1, OrderAppend
        <3>3. Ascends(Append(down, m))
            BY <3>1, OrderAppend
        <3> QED BY <3>2, <3>3
    <2>7. Single(Append(down, m), AuthAnswers(TRUE))
        BY <1>1, <1>3, <2>3, OrderAppend DEF RestoresOnce
    <2>8. PutsKept'
        BY <1>1, <2>4, <2>6 DEF PutsKept, CanSendWrites, Waiting
    <2>9. RestoresOnce'
        BY <1>1, <2>3, <2>5, <2>7 DEF RestoresOnce
    <2> QED BY <2>8, <2>9
<1> QED BY <1>2, <1>4, <1>5

\* The answer that lets the client restore, or one that does not.
LEMMA OrderRecvAuth ==
    ASSUME TypeInv, RestoresFirst, PutsKept, RestoresOnce, Numbered, RecvAuth
    PROVE  PutsKept' /\ RestoresOnce'
<1>1. /\ down # <<>> /\ Head(down).kind = "auth" /\ down \in Seq(Message)
      /\ UNCHANGED outstanding
    BY DEF TypeInv, TypeOK, RecvAuth, Receives, writing
<1>2. Head(down) \in Message /\ Head(down).restore \in BOOLEAN
    <2>1. Head(down) \in Message
        BY <1>1, SeqTypes
    <2> QED BY <1>1, <2>1 DEF Message
<1>3. 1 \in DOMAIN down /\ down[1] = Head(down)
    BY <1>1, LenProperties, EmptySeq, HeadTailProperties
<1>4. state \in {"authenticating", "connected"}
    BY <1>1 DEF TypeInv, QuietWire, Connected
<1>5. CASE ~Head(down).ok
    BY <1>5, OrderClosed DEF RecvAuth, HangUp
<1>6. CASE Head(down).ok /\ ~Head(down).restore
    <2>1. /\ down' = Tail(down) /\ state' = "connected" /\ UNCHANGED up
        BY <1>6 DEF RecvAuth, Arrived
    <2>2. state # "authenticating"
        <3>1. Head(down) \in AuthAnswers(FALSE)
            BY <1>1, <1>2, <1>6 DEF AuthAnswers
        <3>2. ASSUME state = "authenticating" PROVE FALSE
            BY <1>1, <3>1, <3>2, GuardedHead DEF RestoresFirst
        <3> QED BY <3>2
    <2> QED BY <1>1, <1>4, <2>1, <2>2, OrderArrive DEF TypeInv
<1>7. CASE Head(down).ok /\ Head(down).restore
    <2>1. /\ down' = Tail(down) /\ state' = "connected" /\ Restore
        BY <1>7 DEF RecvAuth, Arrived
    <2>2. Head(down) \in AuthAnswers(TRUE)
        BY <1>1, <1>2, <1>7 DEF AuthAnswers
    <2>3. /\ Meets(down, AuthAnswers(TRUE)) /\ ~Meets(up, AuthRequests(TRUE))
          /\ state = "authenticating"
        BY <1>3, <2>2 DEF Meets, RestoresOnce
    <2>4. Puts(down) = {} /\ Puts(up) = {}
        BY <2>3 DEF PutsKept, CanSendWrites
    <2>5. Puts(Tail(down)) = {} /\ Ascends(Tail(down))
        BY <1>1, <2>4, OrderTail DEF PutsKept
    <2>6. ~Meets(Tail(down), AuthAnswers(TRUE))
        BY <1>1, <2>2, OrderTail DEF RestoresOnce
    <2> QED BY <1>1, <2>1, <2>3, <2>4, <2>5, <2>6, OrderRestore DEF TypeInv
<1> QED BY <1>2, <1>5, <1>6, <1>7

\* The handshake is over: restore at once, or ask to be let in first.
LEMMA OrderOnReady ==
    ASSUME TypeInv, PutsKept, RestoresOnce, Numbered, OnReady
    PROVE  PutsKept' /\ RestoresOnce'
<1>1. /\ up = <<>> /\ down = <<>> /\ down' = down /\ UNCHANGED outstanding
      /\ state = "connecting" /\ ~CanSendWrites
    BY DEF OnReady, TypeInv, QuietWire, Connected, CanSendWrites, writing
<1>2. CASE token = NoToken
    BY <1>1, <1>2, EmptyChannels, OrderRestore DEF OnReady, TypeInv
<1>3. CASE token # NoToken
    <2>1. PICK r \in Request : r = AuthRequest(token, TRUE) /\ r.kind = "auth"
        BY <1>3, RequestTypes DEF TypeInv, TypeOK, AuthRequest
    <2>2. up' = Append(up, r) /\ state' = "authenticating"
        BY <1>3, <2>1 DEF OnReady
    <2>3. /\ Puts(Append(up, r)) = Puts(up) /\ Ascends(Append(up, r))
        <3>1. up \in Seq(Request) /\ Ascends(up) /\ r.kind # "put"
            BY <2>1 DEF PutsKept, TypeInv, TypeOK
        <3> QED BY <3>1, OrderAppend
    <2>4. Single(Append(up, r), AuthRequests(TRUE))
        BY <1>1, <2>1, EmptyChannels, OrderAppend DEF TypeInv, TypeOK
    <2>5. PutsKept'
        BY <1>1, <2>2, <2>3 DEF PutsKept, CanSendWrites
    <2>6. RestoresOnce'
        BY <1>1, <2>2, <2>4, EmptyChannels DEF RestoresOnce
    <2> QED BY <2>5, <2>6
<1> QED BY <1>2, <1>3

\* A new token sends neither a put nor the request that restores.
LEMMA OrderRefresh ==
    ASSUME TypeInv, PutsKept, RestoresOnce, NEW t \in Token \cup {NoToken}, RefreshAuth(t),
           UNCHANGED <<down, outstanding, state>>
    PROVE  PutsKept' /\ RestoresOnce'
<1>1. CASE ~Connected
    BY <1>1, OrderSame DEF RefreshAuth, CanSendWrites
<1>2. CASE Connected
    <2>1. PICK r \in Request : /\ r.kind # "put" /\ r \notin AuthRequests(TRUE)
                               /\ up' = Append(up, r)
        <3>1. CASE t = NoToken
            BY <1>2, <3>1, RequestTypes DEF RefreshAuth, Unauth, AuthRequests
        <3>2. CASE t # NoToken
            BY <1>2, <3>2, RequestTypes DEF RefreshAuth, AuthRequest, AuthRequests
        <3> QED BY <3>1, <3>2
    <2> QED BY <2>1, OrderSend DEF TypeInv
<1> QED BY <1>1, <1>2

OrderInv == PutsKept /\ RestoresOnce /\ Numbered

LEMMA OrderStep ==
    ASSUME TypeInv, AttemptInv, RestoresFirst, OrderInv, Next
    PROVE  OrderInv'
<1>1. PutsKept /\ RestoresOnce /\ Numbered /\ TypeOK
    BY DEF OrderInv, TypeInv
<1> SUFFICES PutsKept' /\ RestoresOnce'
    BY <1>1, NumberedStep DEF OrderInv
<1>2. ~Connected => up = <<>> /\ down = <<>>
    BY DEF TypeInv, QuietWire
<1>3. CASE \E q \in Query : Listen(q)
    <2>1. PICK q \in Query : Listen(q)
        BY <1>3
    <2>2. UNCHANGED <<down, outstanding, state>>
        BY <2>1 DEF Listen, machine, writing
    <2>3. CASE Connected
        <3>1. asks' \in 1..MaxListens
            BY <1>1, <2>1, ConnectionBoundAssumption DEF Listen, TypeOK
        <3>2. PICK r \in Request : r = ListenTo(q, asks') /\ r.kind = "listen"
            BY <3>1, RequestTypes DEF ListenTo
        <3>3. up' = Append(up, r) /\ r.kind # "put" /\ r \notin AuthRequests(TRUE)
            BY <2>1, <2>3, <3>2 DEF Listen, AuthRequests
        <3> QED BY <1>1, <2>2, <3>3, OrderSend
    <2>4. CASE ~Connected
        BY <1>1, <2>1, <2>2, <2>4, OrderSame DEF Listen, CanSendWrites
    <2> QED BY <2>3, <2>4
<1>4. CASE \E q \in Query : Unlisten(q)
    <2>1. PICK q \in Query : Unlisten(q)
        BY <1>4
    <2>2. UNCHANGED <<down, outstanding, state>>
        BY <2>1 DEF Unlisten, machine, writing
    <2>3. CASE Connected
        <3>1. PICK r \in Request : r = UnlistenTo(q) /\ r.kind = "unlisten"
            BY RequestTypes DEF UnlistenTo
        <3>2. up' = Append(up, r) /\ r.kind # "put" /\ r \notin AuthRequests(TRUE)
            BY <2>1, <2>3, <3>1 DEF Unlisten, AuthRequests
        <3> QED BY <1>1, <2>2, <3>2, OrderSend
    <2>4. CASE ~Connected
        BY <1>1, <2>1, <2>2, <2>4, OrderSame DEF Unlisten, CanSendWrites
    <2> QED BY <2>3, <2>4
<1>5. CASE PutData
    BY <1>1, <1>5, OrderWrite
<1>6. CASE SignIn \/ SignOut
    BY <1>1, <1>6, OrderRefresh DEF SignIn, SignOut, machine, writing, TypeOK
<1>7. CASE Interrupt \/ Lose \/ OnKill \/ RecvRevoked
    <2>1. up' = <<>> /\ down' = <<>> /\ state' = "disconnected"
        BY <1>2, <1>7 DEF Interrupt, Lose, OnKill, RecvRevoked, HangUp, Connected, net
    <2> QED BY <2>1, OrderClosed
<1>8. CASE Nudge \/ Revoke \/ \E r \in Reason : Resume(r)
    BY <1>1, <1>8, OrderSame
       DEF Nudge, Revoke, Resume, machine, writing, net, CanSendWrites
<1>9. CASE Retry
    <2>1. state = "disconnected"
        BY <1>9 DEF Retry, AttemptInv, OneAttempt
    <2> QED BY <1>1, <1>2, <1>9, <2>1, OrderSame
            DEF Retry, writing, net, CanSendWrites, Connected
<1>10. CASE \E f \in fetches : FetchFails(f)
    <2>1. state \in {"disconnected", "getting token"}
        BY <1>10 DEF FetchFails, AttemptInv, OneAttempt
    <2>2. up' = <<>> /\ down' = <<>> /\ state' = "disconnected"
        BY <1>2, <1>10, <2>1 DEF FetchFails, net, Connected
    <2> QED BY <2>2, OrderClosed
<1>11. CASE \E f \in fetches : Fetched(f)
    <2>1. PICK f \in fetches : Fetched(f)
        BY <1>11
    <2>2. UNCHANGED <<down, outstanding>>
        BY <2>1 DEF Fetched, writing
    <2>3. CASE f.latest /\ state = "getting token"
        BY <1>1, <1>2, <2>1, <2>2, <2>3, OrderSame DEF Fetched, CanSendWrites, Connected
    <2>4. CASE ~(f.latest /\ state = "getting token")
        <3>1. state' = state /\ (up' = up \/ RefreshAuth(cached'))
            BY <2>1, <2>4 DEF Fetched
        <3>2. CASE up' = up
            BY <1>1, <2>2, <3>1, <3>2, OrderSame DEF CanSendWrites
        <3>3. CASE RefreshAuth(cached')
            <4>1. PICK t \in Token \cup {NoToken} : t = cached'
                BY <1>1, <2>1 DEF Fetched, TypeOK
            <4>2. RefreshAuth(t)
                BY <3>3, <4>1 DEF RefreshAuth
            <4> QED BY <1>1, <2>2, <3>1, <4>2, OrderRefresh
        <3> QED BY <3>1, <3>2, <3>3
    <2> QED BY <2>3, <2>4
<1>12. CASE OnReady
    BY <1>1, <1>12, OrderOnReady
<1>13. CASE RecvAuth
    BY <1>1, <1>13, OrderRecvAuth
<1>14. CASE RecvCancel \/ RecvListen
    <2>1. /\ down # <<>> /\ Head(down).kind # "put" /\ down' = Tail(down)
          /\ UNCHANGED <<up, outstanding, state>>
        BY <1>14 DEF RecvCancel, RecvListen, Receives, Arrived, machine, writing
    <2> QED BY <1>1, <2>1, OrderArrive
<1>15. CASE RecvPut
    BY <1>1, <1>15, OrderAnswer
<1>16. CASE ServePut
    BY <1>1, <1>16, OrderServePut
<1>17. CASE ServeAuth
    BY <1>1, <1>17, OrderServeAuth
<1>18. CASE ServeListen \/ ServeUnlisten \/ ServeUnauth
    <2>1. /\ up # <<>> /\ Head(up).kind # "put" /\ up' = Tail(up) /\ Head(up) \in Request
          /\ UNCHANGED <<outstanding, state>>
        BY <1>1, <1>18, SeqTypes DEF ServeListen, ServeUnlisten, ServeUnauth, Serves, ServerOnly,
                                     machine, writing, TypeOK
    <2>2. PICK m \in Message : /\ m.kind = "listen" \/ m.kind = "revoked"
                               /\ down' = Append(down, m) \/ down' = down
        <3>1. CASE ServeListen
            <4> DEFINE m == [kind |-> "listen", query |-> Head(up).query,
                             spec |-> Head(up).spec, ok |-> Authorised]
            <4>1. Head(up).query \in Query /\ Head(up).spec \in 1..MaxListens
                BY <2>1, <3>1 DEF ServeListen, Serves, Request
            <4>2. m \in Message /\ m.kind = "listen"
                BY <4>1 DEF Message, Authorised
            <4>3. down' = Append(down, m)
                BY <3>1 DEF ServeListen, Answer
            <4> QED BY <4>2, <4>3
        <3>2. CASE ServeUnlisten \/ ServeUnauth
            <4>1. [kind |-> "revoked"] \in Message
                BY DEF Message
            <4> QED BY <3>2, <4>1 DEF ServeUnlisten, ServeUnauth
        <3> QED BY <1>18, <3>1, <3>2
    <2>3. m.kind # "put" /\ m \notin AuthAnswers(TRUE)
        BY <2>2 DEF AuthAnswers
    <2> QED BY <1>1, <2>1, <2>2, <2>3, OrderPush
<1>19. CASE ServerRevokes \/ \E q \in Query : ServerCancels(q)
    <2>1. PICK m \in Message : /\ m.kind = "revoked" \/ m.kind = "cancel"
                               /\ down' = Append(down, m)
        BY <1>19 DEF ServerRevokes, ServerCancels, Answer, Message
    <2>2. m.kind # "put" /\ m \notin AuthAnswers(TRUE)
        BY <2>1 DEF AuthAnswers
    <2>3. UNCHANGED <<up, outstanding, state>>
        BY <1>19 DEF ServerRevokes, ServerCancels, ServerOnly, machine, writing
    <2> QED BY <1>1, <2>1, <2>2, <2>3, OrderPush
<1> QED
    BY <1>3, <1>4, <1>5, <1>6, <1>7, <1>8, <1>9, <1>10, <1>11, <1>12, <1>13, <1>14, <1>15,
       <1>16, <1>17, <1>18, <1>19
    DEF Next, App, Fault, FetchDone, Receive, Serve, Reason

\* A block that runs has those of all older writes run before or with it.
LEMMA CalledInOrder ==
    ASSUME TypeInv, HeldIsReleased, OrderInv, Next
    PROVE  \A p \in Called' \ Called : 1..(p - 1) \subseteq Called' \/ Wanted = {}
<1> SUFFICES ASSUME NEW p \in Called', p \notin Called, Wanted # {}
             PROVE  1..(p - 1) \subseteq Called'
    OBVIOUS
<1>1. /\ held \in Seq(Put) /\ called \in Seq(Put)
      /\ Called = Held(called) /\ Called' = Held(called')
      /\ Answered = Held(called) \cup Held(held)
    BY DEF TypeInv, TypeOK, Called, Answered, Held
<1>2. CASE called' = called
    BY <1>1, <1>2
<1>3. CASE RecvListen /\ called' # called
    <2>1. called' = called \o held
        BY <1>3 DEF RecvListen
    <2>2. Called' = Answered
        BY <1>1, <2>1, HeldOf
    <2>3. PICK a \in Nat : Answered = 1..a
        BY DEF OrderInv, Numbered
    <2>4. p \in 1..a
        BY <2>2, <2>3
    <2>5. 1..(p - 1) \subseteq 1..a
        BY <2>4
    <2> QED BY <2>2, <2>3, <2>5
<1>4. CASE RecvPut /\ called' # called
    <2>1. PICK a \in Nat : Answered = 1..a /\ Head(down).put = a + 1 /\ a + 1 \in Put
        BY <1>4, AnswerTaken DEF OrderInv, TypeInv
    <2>2. CanSendWrites
        BY <1>4, AnswerTaken DEF OrderInv, TypeInv, PutsKept
    <2>3. unacked = 0 /\ called' = Append(called, a + 1)
        BY <1>4, <2>1 DEF RecvPut
    <2>4. held = <<>>
        BY <2>2, <2>3 DEF HeldIsReleased
    <2>5. Called' = (1..a) \cup {a + 1} /\ Called = 1..a
        <3>1. Held(Append(called, a + 1)) = Held(called) \cup {a + 1} /\ Held(<<>>) = {}
            BY <1>1, <2>1, HeldOf
        <3> QED BY <1>1, <2>1, <2>3, <2>4, <3>1
    <2>6. p = a + 1
        BY <2>5
    <2> QED BY <2>5, <2>6
<1>5. CASE App
    BY <1>2, <1>5 DEF App, Listen, Unlisten, PutData, SignIn, SignOut, Interrupt, Nudge, Resume,
                      writing
<1>6. CASE Fault \/ Retry \/ FetchDone \/ OnReady
    BY <1>2, <1>6 DEF Fault, Lose, OnKill, Revoke, FetchFails, Retry, FetchDone, Fetched,
                      OnReady, writing
<1>7. CASE Receive \/ Serve \/ ServerRevokes \/ \E r \in Query : ServerCancels(r)
    BY <1>2, <1>3, <1>4, <1>7 DEF Receive, RecvAuth, RecvRevoked, RecvCancel, Serve, ServeAuth,
                ServeUnauth, ServeListen, ServeUnlisten, ServePut, ServerRevokes,
                ServerCancels, ServerOnly, writing
<1> QED BY <1>5, <1>6, <1>7 DEF Next

-----------------------------------------------------------------------------
(* What the connection carries: the writes without an answer, in order.    *)

LEMMA LeastNumber ==
    ASSUME NEW T, T \subseteq Nat, T # {}
    PROVE  \E x \in T : \A y \in T : x <= y
<1>1. PICK x \in T : \A y \in T : ~ (<<y, x>> \in OpToRel(<, Nat))
    BY NatLessThanWellFounded, WFMin
<1>2. ASSUME NEW y \in T PROVE x <= y
    <2> SUFFICES ASSUME y < x PROVE FALSE
        OBVIOUS
    <2>1. <<y, x>> \in Nat \X Nat /\ <<y, x>>[1] < <<y, x>>[2]
        OBVIOUS
    <2>2. <<y, x>> \in OpToRel(<, Nat)
        BY <2>1 DEF OpToRel
    <2> QED BY <1>1, <2>2
<1> QED BY <1>2

\* The m values of s are the numbers in S, in ascending order.
Ascending(s, m, S) ==
    /\ \A i \in 1..m : s[i] \in S
    /\ \A i, j \in 1..m : i < j => s[i] < s[j]
    /\ \A x \in S : \E i \in 1..m : s[i] = x

CountsOn(s, m, a) == \A i \in 1..m : s[i] = a + i

\* If S has no gaps, s has none.
LEMMA NoGaps ==
    ASSUME NEW a \in Nat, NEW n \in Nat, NEW m \in Nat, NEW s,
           Ascending(s, m, (a + 1)..(a + n))
    PROVE  m = n /\ CountsOn(s, n, a)
<1> USE DEF Ascending
<1>1. \A i \in 1..m : s[i] = a + i
    <2> DEFINE Off == {i \in 1..m : s[i] # a + i}
    <2> SUFFICES ASSUME Off # {} PROVE FALSE
        OBVIOUS
    <2>1. PICK i \in Off : \A j \in Off : i <= j
        <3>1. Off \subseteq Nat
            OBVIOUS
        <3> HIDE DEF Off
        <3> QED BY <3>1, LeastNumber
    <2>2. \A j \in 1..m : j < i => s[j] = a + j
        BY <2>1
    <2>3. s[i] \in Int /\ i \in 1..m /\ s[i] # a + i /\ s[i] <= a + n
        BY <2>1
    <2>4. s[i] > a + i
        <3>1. CASE i = 1
            BY <2>3, <3>1
        <3>2. CASE i # 1
            <4>1. i - 1 \in 1..m /\ i - 1 < i
                BY <2>3, <3>2
            <4>2. s[i - 1] = a + (i - 1) /\ s[i - 1] < s[i]
                BY <2>2, <2>3, <4>1
            <4> QED BY <2>3, <4>2
        <3> QED BY <3>1, <3>2
    <2>5. a + i \in (a + 1)..(a + n)
        BY <2>3, <2>4
    <2>6. PICK k \in 1..m : s[k] = a + i
        BY <2>5
    <2>7. CASE k < i
        BY <2>2, <2>6, <2>7
    <2>8. CASE k > i
        <3>1. s[i] < s[k]
            BY <2>3, <2>8
        <3> QED BY <2>3, <2>4, <2>6, <3>1
    <2>9. k # i
        BY <2>3, <2>6
    <2> QED BY <2>7, <2>8, <2>9
<1>2. m <= n
    <2>1. CASE m = 0
        BY <2>1
    <2>2. CASE m # 0
        <3>1. m \in 1..m /\ s[m] = a + m /\ s[m] <= a + n
            BY <1>1, <2>2
        <3> QED BY <3>1
    <2> QED BY <2>1, <2>2
<1>3. n <= m
    <2>1. CASE n = 0
        BY <2>1
    <2>2. CASE n # 0
        <3>1. a + n \in (a + 1)..(a + n)
            BY <2>2
        <3>2. PICK i \in 1..m : s[i] = a + n
            BY <3>1
        <3>3. i = n
            BY <1>1, <3>2
        <3> QED BY <3>3
    <2> QED BY <2>1, <2>2
<1> QED BY <1>1, <1>2, <1>3 DEF CountsOn

\* Each put of a channel has a place of its own, in their order.
LEMMA PlacesCounted ==
    ASSUME NEW P, IsFiniteSet(P), P \subseteq Nat
    PROVE  LET C(i) == Cardinality({j \in P : j <= i})
           IN  /\ Cardinality(P) \in Nat
               /\ \A i \in P : C(i) \in 1..Cardinality(P)
               /\ \A i, k \in P : k < i => C(k) < C(i)
               /\ \A n \in 1..Cardinality(P) : \E i \in P : C(i) = n
<1> DEFINE C(i) == Cardinality({j \in P : j <= i})
<1>1. PICK n \in Nat : n = Cardinality(P)
    BY FS_CardinalityType
<1>2. ASSUME NEW i \in P
      PROVE  IsFiniteSet({j \in P : j <= i}) /\ C(i) \in 1..n
    <2>1. PICK A : A = {j \in P : j <= i}
        OBVIOUS
    <2>2. A \in SUBSET P /\ i \in A
        BY <2>1
    <2>3. IsFiniteSet(A) /\ Cardinality(A) <= n /\ Cardinality(A) \in Nat
        BY <1>1, <2>2, FS_Subset, FS_CardinalityType
    <2>4. Cardinality(A) # 0
        BY <2>2, <2>3, FS_EmptySet
    <2>5. Cardinality(A) \in 1..n
        BY <2>3, <2>4
    <2> QED BY <2>1, <2>3, <2>5
<1>3. ASSUME NEW i \in P, NEW k \in P, k < i PROVE C(k) < C(i)
    <2>1. PICK A, B : A = {j \in P : j <= i} /\ B = {j \in P : j <= k}
        OBVIOUS
    <2>2. B \in SUBSET A
        <3>1. \A j \in P : j \in Int
            OBVIOUS
        <3>2. \A j \in P : j <= k => j <= i
            BY <1>3, <3>1
        <3> QED BY <2>1, <3>2
    <2>3. i \in A /\ i \notin B
        BY <1>3, <2>1
    <2>4. IsFiniteSet(A) /\ B # A
        BY <1>2, <2>1, <2>3
    <2>5. Cardinality(B) <= Cardinality(A) /\ Cardinality(B) # Cardinality(A)
        BY <2>2, <2>4, FS_Subset
    <2>6. Cardinality(A) \in Int /\ Cardinality(B) \in Int
        BY <1>2, <2>1
    <2> QED BY <2>1, <2>5, <2>6
<1> DEFINE c == [i \in P |-> C(i)]
<1>4. c \in [P -> 1..n] /\ \A i \in P : c[i] = C(i)
    BY <1>2
<1> HIDE DEF c, C
<1>5. c \in Injection(P, 1..n)
    <2>1. ASSUME NEW i \in P, NEW k \in P, i # k PROVE c[i] # c[k]
        <3>1. C(i) \in 1..n /\ C(k) \in 1..n
            BY <1>2
        <3>2. i < k \/ k < i
            BY <2>1
        <3> QED BY <1>3, <1>4, <3>1, <3>2
    <2> QED BY <1>4, <2>1 DEF Injection, IsInjective
<1>6. c \in Surjection(P, 1..n)
    <2>1. IsFiniteSet(1..n) /\ Cardinality(1..n) = n
        BY FS_Interval
    <2> QED BY <1>1, <1>5, <2>1, FS_Injection
<1>7. \A k \in 1..n : \E i \in P : C(i) = k
    BY <1>4, <1>6 DEF Surjection
<1>8. \A i \in P : C(i) \in 1..n
    BY <1>2
<1>9. \A i, k \in P : k < i => C(k) < C(i)
    BY <1>3
<1> QED BY <1>1, <1>7, <1>8, <1>9 DEF C

LEMMA PutsInOrder ==
    ASSUME NEW S, NEW s \in Seq(S), Ascends(s), Puts(s) \subseteq Nat
    PROVE  \E m \in Nat :
              /\ DOMAIN PutsIn(s) = 1..m
              /\ Ascending(PutsIn(s), m, Puts(s))
<1>1. PICK P : P = PutPlaces(s)
    OBVIOUS
<1>2. /\ P \subseteq Nat /\ P \subseteq DOMAIN s /\ IsFiniteSet(P)
      /\ \A i \in P : s[i].kind = "put" /\ s[i].put \in Puts(s)
      /\ \A p \in Puts(s) : \E i \in P : s[i].put = p
    <2>1. DOMAIN s = 1..Len(s) /\ Len(s) \in Nat
        BY LenProperties
    <2>2. P \in SUBSET (1..Len(s)) /\ IsFiniteSet(1..Len(s))
        BY <1>1, <2>1, FS_Interval DEF PutPlaces
    <2>3. IsFiniteSet(P)
        BY <2>2, FS_Subset
    <2> QED BY <1>1, <2>1, <2>2, <2>3 DEF PutPlaces, Puts
<1>3. PICK m \in Nat : m = Cardinality(P)
    BY <1>2, FS_CardinalityType
<1>4. /\ \A i \in P : Place(s, i) \in 1..m
      /\ \A i, k \in P : k < i => Place(s, k) < Place(s, i)
      /\ \A n \in 1..m : \E i \in P : Place(s, i) = n
    BY <1>1, <1>2, <1>3, PlacesCounted DEF Place
<1>5. PICK at : at = [n \in 1..m |-> CHOOSE i \in P : Place(s, i) = n]
    OBVIOUS
<1>6. \A n \in 1..m : at[n] \in P /\ Place(s, at[n]) = n
    BY <1>4, <1>5
<1>7. DOMAIN PutsIn(s) = 1..m /\ \A n \in 1..m : PutsIn(s)[n] = s[at[n]].put
    BY <1>1, <1>3, <1>5 DEF PutsIn
<1>8. ASSUME NEW i \in P, NEW k \in P, Place(s, i) < Place(s, k) PROVE s[i].put < s[k].put
    <2>1. i \in Nat /\ k \in Nat /\ Place(s, i) \in Int /\ Place(s, k) \in Int
        BY <1>2, <1>4
    <2>2. i < k
        BY <1>4, <1>8, <2>1
    <2> QED BY <1>2, <2>2 DEF Ascends
<1>9. \A i, j \in 1..m : i < j => PutsIn(s)[i] < PutsIn(s)[j]
    BY <1>6, <1>7, <1>8
<1>10. \A i \in 1..m : PutsIn(s)[i] \in Puts(s)
    BY <1>2, <1>6, <1>7
<1>11. ASSUME NEW p \in Puts(s) PROVE \E i \in 1..m : PutsIn(s)[i] = p
    <2>1. PICK i \in P : s[i].put = p
        BY <1>2
    <2>2. PICK n \in 1..m : n = Place(s, i)
        BY <1>4
    <2>3. PICK k \in P : k = at[n] /\ Place(s, k) = n
        BY <1>6
    <2>4. k \in Int /\ i \in Int
        BY <1>2
    <2>5. k = i
        <3>1. ~(k < i) /\ ~(i < k)
            BY <1>4, <2>2, <2>3
        <3> QED BY <2>4, <3>1
    <2> QED BY <1>7, <2>1, <2>3, <2>5
<1> QED BY <1>7, <1>9, <1>10, <1>11 DEF Ascending

\* While writes are sent, the connection carries exactly the puts without an
\* answer, each once and in order.
LEMMA CarriesQueue ==
    ASSUME TypeOK, PutsKept, Numbered, CanSendWrites
    PROVE  PutsIn(down) \o PutsIn(up) = outstanding
<1>1. PICK a \in Nat : \A i \in DOMAIN outstanding : outstanding[i] = a + i
    BY DEF Numbered
<1>2. PICK n \in Nat : DOMAIN outstanding = 1..n /\ Len(outstanding) = n
    BY LenProperties DEF TypeOK
<1>3. Puts(down) \cup Puts(up) = (a + 1)..(a + n)
    <2>1. Waiting = {a + i : i \in 1..n}
        BY <1>1, <1>2 DEF Waiting
    <2>2. ASSUME NEW x \in (a + 1)..(a + n) PROVE x \in {a + i : i \in 1..n}
        <3>1. x - a \in 1..n /\ a + (x - a) = x
            OBVIOUS
        <3> QED BY <3>1
    <2>3. {a + i : i \in 1..n} = (a + 1)..(a + n)
        BY <2>2
    <2> QED BY <2>1, <2>3 DEF PutsKept
<1>4. up \in Seq(Request) /\ down \in Seq(Message)
    BY DEF TypeOK
<1>5. Puts(down) \subseteq Nat /\ Puts(up) \subseteq Nat
    <2>1. \A x \in (a + 1)..(a + n) : x \in Nat
        OBVIOUS
    <2> QED BY <1>3, <2>1
<1>6. PICK d : d = PutsIn(down)
    OBVIOUS
<1>7. PICK u : u = PutsIn(up)
    OBVIOUS
<1>8. PICK k \in Nat : DOMAIN d = 1..k /\ Ascending(d, k, Puts(down))
    BY <1>4, <1>5, <1>6, PutsInOrder DEF PutsKept
<1>9. PICK l \in Nat : DOMAIN u = 1..l /\ Ascending(u, l, Puts(up))
    BY <1>4, <1>5, <1>7, PutsInOrder DEF PutsKept
<1>10. PICK r : r = d \o u
    OBVIOUS
<1>11. d \in Seq(Nat) /\ u \in Seq(Nat) /\ Len(d) = k /\ Len(u) = l
    <2>1. d = [i \in 1..k |-> d[i]] /\ u = [i \in 1..l |-> u[i]]
        <3>1. d = [i \in DOMAIN d |-> d[i]] /\ u = [i \in DOMAIN u |-> u[i]]
            BY <1>6, <1>7 DEF PutsIn
        <3> QED BY <1>8, <1>9, <3>1 DEF Ascending
    <2>2. d \in [1..k -> Nat] /\ u \in [1..l -> Nat]
        BY <1>5, <1>8, <1>9, <2>1 DEF Ascending
    <2>3. d \in Seq(Nat) /\ u \in Seq(Nat)
        BY <2>2, SeqDef
    <2> QED BY <1>8, <1>9, <2>3, LenProperties DEF Ascending
<1>12. /\ r \in Seq(Nat) /\ Len(r) = k + l /\ DOMAIN r = 1..(k + l)
       /\ \A i \in 1..k : r[i] = d[i]
       /\ \A i \in (k + 1)..(k + l) : r[i] = u[i - k] /\ i - k \in 1..l
    <2>1. /\ r \in Seq(Nat) /\ Len(r) = k + l
          /\ \A i \in 1..(k + l) : r[i] = IF i <= k THEN d[i] ELSE u[i - k]
        BY <1>10, <1>11, ConcatProperties
    <2>2. DOMAIN r = 1..(k + l)
        BY <2>1, LenProperties
    <2>3. \A i \in 1..k : i \in 1..(k + l) /\ i <= k
        OBVIOUS
    <2>4. \A i \in (k + 1)..(k + l) : i \in 1..(k + l) /\ ~(i <= k) /\ i - k \in 1..l
        OBVIOUS
    <2> QED BY <2>1, <2>2, <2>3, <2>4
<1>13. \A i \in 1..(k + l) : r[i] \in (a + 1)..(a + n)
    <2> SUFFICES ASSUME NEW i \in 1..(k + l) PROVE r[i] \in (a + 1)..(a + n)
        OBVIOUS
    <2>1. i \in 1..k \/ i \in (k + 1)..(k + l)
        OBVIOUS
    <2> QED BY <1>3, <1>8, <1>9, <1>12, <2>1 DEF Ascending
<1>14. \A i, j \in 1..(k + l) : i < j => r[i] < r[j]
    <2> SUFFICES ASSUME NEW i \in 1..(k + l), NEW j \in 1..(k + l), i < j PROVE r[i] < r[j]
        OBVIOUS
    <2>1. CASE i \in 1..k /\ j \in 1..k
        BY <1>8, <1>12, <2>1 DEF Ascending
    <2>2. CASE i \in 1..k /\ j \in (k + 1)..(k + l)
        BY <1>8, <1>9, <1>12, <2>2 DEF Ascending, PutsKept
    <2>3. CASE i \in (k + 1)..(k + l) /\ j \in (k + 1)..(k + l)
        <3>1. i - k \in 1..l /\ j - k \in 1..l /\ i - k < j - k
            BY <2>3
        <3> QED BY <1>9, <1>12, <2>3, <3>1 DEF Ascending
    <2> QED BY <2>1, <2>2, <2>3
<1>15. ASSUME NEW x \in (a + 1)..(a + n) PROVE \E i \in 1..(k + l) : r[i] = x
    <2>1. CASE x \in Puts(down)
        <3>1. PICK i \in 1..k : d[i] = x
            BY <1>8, <2>1 DEF Ascending
        <3> QED BY <1>12, <3>1
    <2>2. CASE x \in Puts(up)
        <3>1. PICK i \in 1..l : u[i] = x
            BY <1>9, <2>2 DEF Ascending
        <3>2. k + i \in (k + 1)..(k + l) /\ k + i \in 1..(k + l) /\ (k + i) - k = i
            OBVIOUS
        <3> QED BY <1>12, <3>1, <3>2
    <2> QED BY <1>3, <2>1, <2>2
<1>16. k + l = n /\ \A i \in 1..n : r[i] = a + i
    <2>1. PICK m \in Nat : m = k + l
        OBVIOUS
    <2>2. Ascending(r, m, (a + 1)..(a + n))
        BY <1>13, <1>14, <1>15, <2>1 DEF Ascending
    <2>3. m = n /\ CountsOn(r, n, a)
        BY <2>2, NoGaps
    <2> QED BY <2>1, <2>3 DEF CountsOn
<1>17. outstanding \in Seq(Nat)
    <2>1. Put \subseteq Nat /\ outstanding \in Seq(Put)
        BY DEF TypeOK, Put
    <2> QED BY <2>1, SeqMonotonic
<1>18. r = outstanding
    <2>1. Len(r) = Len(outstanding) /\ \A i \in 1..Len(r) : r[i] = outstanding[i]
        BY <1>1, <1>2, <1>12, <1>16
    <2> QED BY <1>12, <1>17, <2>1, SeqEqual
<1> QED BY <1>6, <1>7, <1>10, <1>18

-----------------------------------------------------------------------------
(* What is asked of the server.                                            *)

\* Every message of s that is in B has one of G behind it.
Followed(s, B, G) == \A i \in DOMAIN s : s[i] \in B => \E j \in DOMAIN s : i < j /\ s[j] \in G

LEMMA FollowedAppend ==
    ASSUME NEW S, NEW s \in Seq(S), NEW x \in S, NEW B, NEW G,
           x \notin B, Followed(s, B, G) \/ x \in G
    PROVE  Followed(Append(s, x), B, G)
<1>1. PICK n \in Nat : n = Len(s)
    BY LenProperties
<1>2. /\ DOMAIN s = 1..n /\ DOMAIN Append(s, x) = 1..(n + 1)
      /\ \A i \in 1..n : Append(s, x)[i] = s[i]
      /\ Append(s, x)[n + 1] = x
    BY <1>1, LenProperties, AppendProperties
<1>3. \A i \in 1..(n + 1) : i = n + 1 \/ (i \in 1..n /\ i < n + 1)
    OBVIOUS
<1>4. \A i \in 1..n : i \in 1..(n + 1)
    OBVIOUS
<1> QED BY <1>2, <1>3, <1>4 DEF Followed

LEMMA FollowedTail ==
    ASSUME NEW S, NEW s \in Seq(S), s # <<>>, NEW B, NEW G, Followed(s, B, G)
    PROVE  Followed(Tail(s), B, G) /\ (Head(s) \in B => Meets(Tail(s), G))
<1>1. PICK n \in Nat : n + 1 = Len(s)
    <2>1. Len(s) \in Nat /\ Len(s) # 0
        BY LenProperties, EmptySeq
    <2>2. Len(s) - 1 \in Nat /\ (Len(s) - 1) + 1 = Len(s)
        BY <2>1
    <2> QED BY <2>2
<1>2. /\ DOMAIN s = 1..(n + 1) /\ DOMAIN Tail(s) = 1..n /\ Head(s) = s[1]
      /\ \A i \in 1..n : Tail(s)[i] = s[i + 1]
    <2>1. n + 1 - 1 = n
        OBVIOUS
    <2> QED BY <1>1, <2>1, LenProperties, EmptySeq, HeadTailProperties
<1>3. ASSUME NEW i \in 1..(n + 1), s[i] \in B
      PROVE  \E j \in 1..n : i < j + 1 /\ Tail(s)[j] \in G
    <2>1. PICK k \in 1..(n + 1) : i < k /\ s[k] \in G
        BY <1>2, <1>3 DEF Followed
    <2>2. k - 1 \in 1..n /\ (k - 1) + 1 = k
        BY <2>1
    <2> QED BY <1>2, <2>1, <2>2
<1>4. ASSUME NEW i \in 1..n, Tail(s)[i] \in B PROVE \E j \in 1..n : i < j /\ Tail(s)[j] \in G
    <2>1. i + 1 \in 1..(n + 1) /\ s[i + 1] \in B
        BY <1>2, <1>4
    <2>2. PICK j \in 1..n : i + 1 < j + 1 /\ Tail(s)[j] \in G
        BY <1>3, <2>1
    <2>3. i < j
        BY <2>2
    <2> QED BY <2>2, <2>3
<1>5. ASSUME Head(s) \in B PROVE Meets(Tail(s), G)
    <2>1. 1 \in 1..(n + 1)
        OBVIOUS
    <2> QED BY <1>2, <1>3, <1>5, <2>1 DEF Meets
<1>6. Followed(Tail(s), B, G)
    BY <1>2, <1>4 DEF Followed
<1> QED BY <1>5, <1>6

LEMMA FollowedConcat ==
    ASSUME NEW S, NEW s \in Seq(S), NEW t \in Seq(S), NEW B, NEW G,
           Followed(s, B, G), ~Meets(t, B)
    PROVE  Followed(s \o t, B, G)
<1>1. /\ Len(s) \in Nat /\ Len(t) \in Nat
      /\ DOMAIN s = 1..Len(s) /\ DOMAIN t = 1..Len(t)
      /\ DOMAIN (s \o t) = 1..(Len(s) + Len(t))
      /\ \A i \in 1..Len(s) : (s \o t)[i] = s[i]
      /\ \A i \in (Len(s) + 1)..(Len(s) + Len(t)) :
            i - Len(s) \in 1..Len(t) /\ (s \o t)[i] = t[i - Len(s)]
    BY LenProperties, ConcatProperties
<1>2. SUFFICES ASSUME NEW i \in 1..(Len(s) + Len(t)), (s \o t)[i] \in B
               PROVE  \E j \in 1..(Len(s) + Len(t)) : i < j /\ (s \o t)[j] \in G
    BY <1>1 DEF Followed
<1>3. i \in 1..Len(s)
    BY <1>1, <1>2 DEF Meets
<1>4. PICK j \in 1..Len(s) : i < j /\ s[j] \in G
    BY <1>1, <1>2, <1>3 DEF Followed
<1>5. j \in 1..(Len(s) + Len(t))
    BY <1>1
<1> QED BY <1>1, <1>4, <1>5

LEMMA MeetsBehind ==
    ASSUME NEW S, NEW s \in Seq(S), NEW t \in Seq(S), NEW G, Meets(t, G)
    PROVE  Meets(s \o t, G)
<1>1. /\ Len(s) \in Nat /\ Len(t) \in Nat /\ DOMAIN t = 1..Len(t)
      /\ DOMAIN (s \o t) = 1..(Len(s) + Len(t))
      /\ \A i \in (Len(s) + 1)..(Len(s) + Len(t)) : (s \o t)[i] = t[i - Len(s)]
    BY LenProperties, ConcatProperties
<1>2. PICK i \in 1..Len(t) : t[i] \in G
    BY <1>1 DEF Meets
<1>3. /\ Len(s) + i \in (Len(s) + 1)..(Len(s) + Len(t)) /\ (Len(s) + i) - Len(s) = i
      /\ Len(s) + i \in 1..(Len(s) + Len(t))
    BY <1>1
<1> QED BY <1>1, <1>2, <1>3 DEF Meets

\* While writes are sent, every wanted query is about to be listened to, is
\* listened to and will not be stopped, or has been denied; and what stops a
\* wanted query is behind no listen but an older one.
Ends(q)      == {m \in Request : m.kind = "unlisten" /\ m.query = q}
Begins(q, n) == {m \in Request : m.kind = "listen" /\ m.query = q /\ m.spec = n}
Denies(q, n) == {m \in Message : \/ m.kind = "cancel" /\ m.query = q
                                 \/ m.kind = "listen" /\ m.query = q /\ m.spec = n /\ ~m.ok}
AskedFor(q, n) ==
    /\ Followed(up, Ends(q), Begins(q, n))
    /\ CanSendWrites => \/ Meets(up, Begins(q, n))
                        \/ q \in heard /\ ~Meets(up, Ends(q))
                        \/ Meets(down, Denies(q, n))
AllAsked == \A q \in Wanted : AskedFor(q, listens[q])

LEMMA AskedSent ==
    ASSUME TypeOK, NEW q \in Query, NEW n, AskedFor(q, n),
           NEW m \in Request, m \notin Ends(q), up' = Append(up, m),
           CanSendWrites' => CanSendWrites, UNCHANGED <<down, heard>>
    PROVE  AskedFor(q, n)'
<1>1. up \in Seq(Request)
    BY DEF TypeOK
<1>2. Followed(up', Ends(q), Begins(q, n))
    BY <1>1, FollowedAppend DEF AskedFor
<1>3. \A G : Meets(up', G) <=> Meets(up, G) \/ m \in G
    BY <1>1, MeetsAppend
<1> QED BY <1>2, <1>3 DEF AskedFor

LEMMA AskedReceived ==
    ASSUME TypeOK, NEW q \in Query, NEW n, AskedFor(q, n),
           down # <<>>, down' = Tail(down), Head(down) \notin Denies(q, n),
           CanSendWrites' => CanSendWrites, UNCHANGED <<up, heard>>
    PROVE  AskedFor(q, n)'
<1>1. down \in Seq(Message)
    BY DEF TypeOK
<1>2. Meets(down, Denies(q, n)) => Meets(down', Denies(q, n))
    BY <1>1, MeetsTail
<1> QED BY <1>2 DEF AskedFor

LEMMA AskedPushed ==
    ASSUME TypeOK, NEW q \in Query, NEW n, AskedFor(q, n),
           NEW m \in Message, down' = Append(down, m), UNCHANGED <<up, state>>,
           q \in heard => q \in heard' \/ m \in Denies(q, n)
    PROVE  AskedFor(q, n)'
<1>1. down \in Seq(Message)
    BY DEF TypeOK
<1>2. \A G : Meets(down', G) <=> Meets(down, G) \/ m \in G
    BY <1>1, MeetsAppend
<1> QED BY <1>2 DEF AskedFor, CanSendWrites

LEMMA AskedRestored ==
    ASSUME TypeOK, NEW q \in Wanted, AskedFor(q, listens[q]), Restore
    PROVE  /\ Followed(up', Ends(q), Begins(q, listens[q]))
           /\ Meets(up', Begins(q, listens[q]))
<1>1. PICK order \in Orders(Wanted) :
        up' = up \o [i \in DOMAIN order |-> ListenTo(order[i], listens[order[i]])]
                 \o [i \in DOMAIN outstanding |-> PutOf(outstanding[i])]
    BY DEF Restore
<1>2. PICK a : a = [i \in DOMAIN order |-> ListenTo(order[i], listens[order[i]])]
    OBVIOUS
<1>3. PICK b : b = [i \in DOMAIN outstanding |-> PutOf(outstanding[i])]
    OBVIOUS
<1>4. PICK k \in Nat : k = Cardinality(Wanted)
    BY ConnectionBoundAssumption, FS_Subset, FS_CardinalityType DEF Wanted
<1>5. /\ DOMAIN order = 1..k /\ \A i \in 1..k : order[i] \in Wanted
      /\ \E i \in 1..k : order[i] = q
    BY <1>4 DEF Orders
<1>6. \A w \in Wanted : ListenTo(w, listens[w]) \in ListenRequests
    BY ConnectionBoundAssumption, RequestTypes DEF TypeOK, Wanted, ListenRequests, ListenTo
<1>7. a \in Seq(ListenRequests)
    <2>1. DOMAIN a = 1..k /\ \A i \in 1..k : a[i] \in ListenRequests
        BY <1>2, <1>5, <1>6
    <2>2. a = [i \in 1..k |-> a[i]]
        BY <1>2, <1>5
    <2> QED BY <2>1, <2>2, IsASeq
<1>8. b \in Seq(PutRequests)
    <2>1. PICK l \in Nat : DOMAIN outstanding = 1..l /\ \A i \in 1..l : outstanding[i] \in Put
        BY LenProperties, ElementOfSeq DEF TypeOK
    <2>2. \A p \in Put : PutOf(p) \in PutRequests
        BY RequestTypes DEF PutRequests, PutOf
    <2>3. \A i \in 1..l : b[i] \in PutRequests
        BY <1>3, <2>1, <2>2
    <2>4. b = [i \in 1..l |-> b[i]]
        BY <1>3, <2>1
    <2> QED BY <2>3, <2>4, IsASeq
<1>9. Meets(a, Begins(q, listens[q]))
    <2>1. PICK i \in 1..k : order[i] = q
        BY <1>5
    <2>2. i \in DOMAIN a /\ a[i] = ListenTo(q, listens[q]) /\ a[i] \in ListenRequests
        BY <1>2, <1>5, <1>6, <2>1
    <2>3. a[i] \in Begins(q, listens[q])
        BY <2>2 DEF Begins, ListenTo, ListenRequests
    <2> QED BY <2>2, <2>3 DEF Meets
<1>10. ~Meets(a, Ends(q)) /\ ~Meets(b, Ends(q))
    <2>1. \A i \in DOMAIN a : a[i] \in ListenRequests
        BY <1>7, LenProperties, ElementOfSeq
    <2>2. \A i \in DOMAIN b : b[i] \in PutRequests
        BY <1>8, LenProperties, ElementOfSeq
    <2> QED BY <2>1, <2>2 DEF Meets, Ends, ListenRequests, PutRequests
<1>11. a \in Seq(Request) /\ b \in Seq(Request) /\ up \in Seq(Request)
    BY <1>7, <1>8, SeqMonotonic DEF TypeOK, ListenRequests, PutRequests
<1>12. PICK c \in Seq(Request) : c = up \o a
    BY <1>11, SeqTypes
<1>13. up' = c \o b
    BY <1>1, <1>2, <1>3, <1>12
<1>14. Followed(c, Ends(q), Begins(q, listens[q])) /\ Meets(c, Begins(q, listens[q]))
    BY <1>9, <1>10, <1>11, <1>12, FollowedConcat, MeetsBehind DEF AskedFor
<1> QED BY <1>10, <1>11, <1>13, <1>14, FollowedConcat, MeetsConcat

LEMMA AskedServed ==
    ASSUME TypeOK, NEW q \in Query, NEW n, AskedFor(q, n), Serve
    PROVE  AskedFor(q, n)'
<1>1. /\ up \in Seq(Request) /\ down \in Seq(Message) /\ up # <<>> /\ up' = Tail(up)
      /\ state' = state
    BY DEF TypeOK, Serve, ServeAuth, ServeUnauth, ServeListen, ServeUnlisten, ServePut, Serves,
           ServerOnly, machine
<1>2. PICK r \in Request : r = Head(up)
    BY <1>1, SeqTypes
<1>3. /\ Followed(up', Ends(q), Begins(q, n))
      /\ r \in Ends(q) => Meets(up', Begins(q, n))
    BY <1>1, <1>2, FollowedTail DEF AskedFor
<1>4. \A G : Meets(up, G) => r \in G \/ Meets(up', G)
    BY <1>1, <1>2, MeetsTail
<1>5. \A G : Meets(up', G) => Meets(up, G)
    <2>1. ASSUME NEW G, Meets(Tail(up), G) PROVE Meets(up, G)
        <3>1. PICK k \in Nat : k = Len(up)
            BY <1>1, LenProperties
        <3>2. /\ DOMAIN up = 1..k /\ DOMAIN Tail(up) = 1..(k - 1)
              /\ \A i \in 1..(k - 1) : Tail(up)[i] = up[i + 1]
            BY <1>1, <3>1, LenProperties, EmptySeq, HeadTailProperties
        <3>3. PICK i \in 1..(k - 1) : Tail(up)[i] \in G
            BY <2>1, <3>2 DEF Meets
        <3>4. i + 1 \in 1..k
            OBVIOUS
        <3> QED BY <3>2, <3>3, <3>4 DEF Meets
    <2> QED BY <1>1, <2>1
<1>6. ASSUME NEW m \in Message, down' = Append(down, m), NEW G, Meets(down, G) \/ m \in G
      PROVE  Meets(down', G)
    BY <1>1, <1>6, MeetsAppend
<1>7. ASSUME heard' = heard, r \notin Begins(q, n), 
             down' = down \/ \E m \in Message : down' = Append(down, m)
      PROVE  AskedFor(q, n)'
    <2>1. Meets(down, Denies(q, n)) => Meets(down', Denies(q, n))
        BY <1>6, <1>7
    <2> QED BY <1>1, <1>3, <1>4, <1>5, <1>7, <2>1 DEF AskedFor, CanSendWrites
<1>8. CASE ServeAuth
    <2>1. r \notin Begins(q, n)
        BY <1>2, <1>8 DEF ServeAuth, Serves, Begins
    <2>2. PICK m : m = [kind |-> "auth", ok |-> r.token >= valid, restore |-> r.restore]
        OBVIOUS
    <2>3. m \in Message /\ down' = Append(down, m)
        BY <1>2, <1>8, <2>2 DEF ServeAuth, Serves, Answer, Request, Message
    <2> QED BY <1>7, <1>8, <2>1, <2>3 DEF ServeAuth
<1>9. CASE ServeUnauth
    BY <1>2, <1>7, <1>9 DEF ServeUnauth, Serves, Begins
<1>10. CASE ServePut
    <2>1. r \in Message /\ down' = Append(down, r) /\ r \notin Begins(q, n)
        BY <1>2, <1>10 DEF ServePut, Serves, Answer, Request, Message, Begins
    <2> QED BY <1>7, <1>10, <2>1 DEF ServePut
<1>11. CASE ServeUnlisten
    <2>1. r.kind = "unlisten" /\ r \notin Begins(q, n) /\ down' = down
          /\ heard' = heard \ {r.query}
        BY <1>2, <1>11 DEF ServeUnlisten, Serves, Begins
    <2>2. CASE r.query = q
        <3>1. r \in Ends(q)
            BY <2>1, <2>2 DEF Ends
        <3> QED BY <1>1, <1>3, <3>1 DEF AskedFor
    <2>3. CASE r.query # q
        BY <1>1, <1>3, <1>4, <1>5, <2>1, <2>3 DEF AskedFor, CanSendWrites
    <2> QED BY <2>2, <2>3
<1>12. CASE ServeListen
    <2>1. r.kind = "listen" /\ r \notin Ends(q)
        BY <1>2, <1>12 DEF ServeListen, Serves, Ends
    <2>2. PICK m : m = [kind |-> "listen", query |-> r.query, spec |-> r.spec, ok |-> Authorised]
        OBVIOUS
    <2>3. m \in Message /\ down' = Append(down, m)
          /\ heard' = (IF Authorised THEN heard \cup {r.query} ELSE heard)
        BY <1>2, <1>12, <2>1, <2>2 DEF ServeListen, Answer, Request, Message, Authorised
    <2>4. CASE r \in Begins(q, n) /\ ~Authorised
        <3>1. m \in Denies(q, n)
            BY <2>2, <2>3, <2>4 DEF Begins, Denies
        <3> QED BY <1>3, <1>6, <2>3, <3>1 DEF AskedFor
    <2>5. CASE r \in Begins(q, n) /\ Authorised
        <3>1. q \in heard'
            BY <2>3, <2>5 DEF Begins
        <3>2. Meets(up', Ends(q)) => Meets(up', Begins(q, n))
            BY <1>3 DEF Meets, Followed
        <3> QED BY <1>3, <3>1, <3>2 DEF AskedFor
    <2>6. CASE r \notin Begins(q, n)
        <3>1. Meets(down, Denies(q, n)) => Meets(down', Denies(q, n))
            BY <1>6, <2>3
        <3>2. q \in heard => q \in heard'
            BY <2>3
        <3> QED BY <1>1, <1>3, <1>4, <1>5, <2>6, <3>1, <3>2 DEF AskedFor, CanSendWrites
    <2> QED BY <2>4, <2>5, <2>6
<1> QED BY <1>8, <1>9, <1>10, <1>11, <1>12 DEF Serve

\* Nothing else is left unasked: every step keeps it so.
LEMMA AskedStep ==
    ASSUME TypeInv, RestoresFirst, AllAsked, Next
    PROVE  AllAsked'
<1> SUFFICES ASSUME NEW q \in Query, NEW n, n = listens'[q], n # 0
             PROVE  AskedFor(q, n)'
    BY DEF AllAsked, Wanted
<1>0. /\ TypeOK /\ listens \in [Query -> 0..MaxListens]
      /\ up \in Seq(Request) /\ down \in Seq(Message)
    BY DEF TypeInv, TypeOK
<1>1. Followed(<<>>, Ends(q), Begins(q, n))
    BY DEF Followed
<1>2. ASSUME listens[q] = n PROVE q \in Wanted /\ AskedFor(q, n) /\ AskedFor(q, listens[q])
    BY <1>2 DEF AllAsked, Wanted
<1>3. ASSUME listens' = listens PROVE AskedFor(q, n)
    BY <1>2, <1>3
<1>4. ASSUME AskedFor(q, n), UNCHANGED <<up, down, heard>>, CanSendWrites' => CanSendWrites
      PROVE  AskedFor(q, n)'
    BY <1>4 DEF AskedFor
<1>5. ASSUME up' = <<>>, state' = "disconnected" PROVE AskedFor(q, n)'
    BY <1>1, <1>5 DEF AskedFor, CanSendWrites
<1>6. ASSUME Restore, listens' = listens PROVE AskedFor(q, n)'
    <2>1. Followed(up', Ends(q), Begins(q, n)) /\ Meets(up', Begins(q, n))
        BY <1>0, <1>2, <1>6, AskedRestored
    <2> QED BY <2>1 DEF AskedFor
<1>7. ASSUME NEW t \in Token \cup {NoToken}, RefreshAuth(t), listens' = listens,
             UNCHANGED <<down, heard, state>>
      PROVE  AskedFor(q, n)'
    <2>1. CanSendWrites' => CanSendWrites
        BY <1>7 DEF CanSendWrites
    <2>2. CASE ~Connected
        BY <1>3, <1>4, <1>7, <2>1, <2>2 DEF RefreshAuth
    <2>3. CASE Connected
        <3>1. PICK m : m = (IF t = NoToken THEN Unauth ELSE AuthRequest(t, FALSE))
            OBVIOUS
        <3>2. m \in Request /\ m \notin Ends(q)
            BY <3>1, RequestTypes DEF Ends, Unauth, AuthRequest
        <3>3. up' = Append(up, m)
            BY <1>7, <2>3, <3>1 DEF RefreshAuth
        <3> QED BY <1>0, <1>3, <1>7, <2>1, <3>2, <3>3, AskedSent
    <2> QED BY <2>2, <2>3
<1>8. ASSUME NEW w \in Query, Listen(w) PROVE AskedFor(q, n)'
    <2>1. CASE ~Connected
        <3>1. up' = <<>> /\ state' # "connected"
            BY <1>8, <2>1 DEF TypeInv, QuietWire, Listen, Connected, machine
        <3> QED BY <1>1, <3>1 DEF AskedFor, CanSendWrites
    <2>2. CASE Connected
        <3>1. PICK m : m = ListenTo(w, asks')
            OBVIOUS
        <3>2. asks' \in 1..MaxListens
            BY <1>0, <1>8, ConnectionBoundAssumption DEF TypeOK, Listen
        <3>3. m \in Request /\ m \notin Ends(q) /\ up' = Append(up, m)
              /\ UNCHANGED <<down, heard, state>>
            BY <1>8, <2>2, <3>1, <3>2, RequestTypes DEF Listen, Ends, ListenTo, machine
        <3>4. CASE w = q
            <4>1. n = asks'
                BY <1>0, <1>8, <3>4 DEF Listen
            <4>2. m \in Begins(q, n)
                BY <3>1, <3>3, <3>4, <4>1 DEF Begins, ListenTo
            <4>3. Followed(up', Ends(q), Begins(q, n)) /\ Meets(up', Begins(q, n))
                BY <1>0, <3>3, <4>2, FollowedAppend, MeetsAppend
            <4> QED BY <4>3 DEF AskedFor
        <3>5. CASE w # q
            <4>1. listens[q] = n
                BY <1>0, <1>8, <3>5 DEF Listen
            <4>2. CanSendWrites' => CanSendWrites
                BY <3>3 DEF CanSendWrites
            <4> QED BY <1>0, <1>2, <3>3, <4>1, <4>2, AskedSent
        <3> QED BY <3>4, <3>5
    <2> QED BY <2>1, <2>2
<1>9. ASSUME NEW w \in Query, Unlisten(w) PROVE AskedFor(q, n)'
    <2>1. w # q /\ listens[q] = n
        BY <1>0, <1>9 DEF Unlisten
    <2>2. (CanSendWrites' => CanSendWrites) /\ UNCHANGED <<down, heard>>
        BY <1>9 DEF Unlisten, machine, CanSendWrites
    <2>3. CASE ~Connected
        BY <1>2, <1>4, <1>9, <2>1, <2>2, <2>3 DEF Unlisten
    <2>4. CASE Connected
        <3>1. PICK m : m = UnlistenTo(w)
            OBVIOUS
        <3>2. m \in Request /\ m \notin Ends(q)
            BY <2>1, <3>1, RequestTypes DEF Ends, UnlistenTo
        <3>3. up' = Append(up, m)
            BY <1>9, <2>4, <3>1 DEF Unlisten
        <3> QED BY <1>0, <1>2, <2>1, <2>2, <3>2, <3>3, AskedSent
    <2> QED BY <2>3, <2>4
<1>10. CASE PutData
    <2>1. (CanSendWrites' => CanSendWrites) /\ UNCHANGED <<down, heard, listens>>
        BY <1>10 DEF PutData, machine, listening, CanSendWrites
    <2>2. CASE ~CanSendWrites
        BY <1>3, <1>4, <1>10, <2>1, <2>2 DEF PutData
    <2>3. CASE CanSendWrites
        <3>1. PICK m : m = PutOf(Cardinality(Made) + 1)
            OBVIOUS
        <3>2. up' = Append(up, m)
            BY <1>10, <2>3, <3>1 DEF PutData
        <3>3. up' \in Seq(Request)
            BY WireStep DEF WireOK
        <3>4. m \in Request
            <4>1. /\ Len(up) \in Nat /\ Len(up') = Len(up) + 1 /\ up'[Len(up) + 1] = m
                BY <1>0, <3>2, LenProperties, AppendProperties
            <4>2. Len(up) + 1 \in DOMAIN up'
                BY <3>3, <4>1, LenProperties
            <4> QED BY <3>3, <4>1, <4>2, LenProperties, ElementOfSeq
        <3>5. m \notin Ends(q)
            BY <3>1 DEF Ends, PutOf
        <3> QED BY <1>0, <1>3, <2>1, <3>2, <3>4, <3>5, AskedSent
    <2> QED BY <2>2, <2>3
<1>11. CASE SignIn \/ SignOut
    <2>1. valid \in Token \cup {NoToken} /\ NoToken \in Token \cup {NoToken}
        BY <1>0 DEF TypeOK
    <2> QED BY <1>7, <1>11, <2>1 DEF SignIn, SignOut, machine, listening
<1>12. ASSUME NEW f \in fetches, Fetched(f) PROVE AskedFor(q, n)'
    <2>1. /\ UNCHANGED <<down, heard, listens>>
          /\ cached' \in Token \cup {NoToken}
        BY <1>0, <1>12 DEF TypeOK, Fetched, listening
    <2>2. CASE f.latest /\ state = "getting token"
        <3>1. up' = up /\ ~CanSendWrites'
            BY <1>12, <2>2 DEF Fetched, CanSendWrites
        <3> QED BY <1>3, <1>4, <2>1, <3>1
    <2>3. CASE ~(f.latest /\ state = "getting token") /\ cached' = cached
        <3>1. up' = up /\ state' = state
            BY <1>12, <2>3 DEF Fetched
        <3> QED BY <1>3, <1>4, <2>1, <3>1 DEF CanSendWrites
    <2>4. CASE ~(f.latest /\ state = "getting token") /\ cached' # cached
        <3>1. RefreshAuth(cached') /\ state' = state
            BY <1>12, <2>4 DEF Fetched
        <3>2. PICK t \in Token \cup {NoToken} : t = cached'
            BY <2>1
        <3>3. RefreshAuth(t)
            BY <3>1, <3>2 DEF RefreshAuth
        <3> QED BY <1>7, <2>1, <3>1, <3>3
    <2> QED BY <2>2, <2>3, <2>4
<1>13. CASE Interrupt
    <2>1. CASE state \in {"connecting", "authenticating", "connected"}
        BY <1>5, <1>13, <2>1 DEF Interrupt, HangUp
    <2>2. CASE state \notin {"connecting", "authenticating", "connected"}
        <3>1. UNCHANGED <<up, down, heard, listens>> /\ ~CanSendWrites'
            BY <1>13, <2>2 DEF Interrupt, net, CanSendWrites
        <3> QED BY <1>3, <1>4, <3>1
    <2> QED BY <2>1, <2>2
<1>14. CASE Lose \/ OnKill \/ RecvRevoked
    BY <1>5, <1>14 DEF Lose, OnKill, RecvRevoked, HangUp
<1>15. CASE Nudge \/ Revoke \/ \E r \in {"waiting for open", "repo"} : Resume(r)
    BY <1>3, <1>4, <1>15 DEF Nudge, Revoke, Resume, machine, listening, net, CanSendWrites
<1>16. CASE Retry \/ \E f \in fetches : FetchFails(f)
    BY <1>3, <1>4, <1>16 DEF Retry, FetchFails, listening, net, CanSendWrites
<1>17. CASE OnReady
    <2>1. listens' = listens /\ UNCHANGED <<down, heard>>
        BY <1>17 DEF OnReady
    <2>2. CASE token = NoToken
        BY <1>6, <1>17, <2>1, <2>2 DEF OnReady
    <2>3. CASE token # NoToken
        <3>1. PICK m : m = AuthRequest(token, TRUE)
            OBVIOUS
        <3>2. m \in Request /\ m \notin Ends(q)
            BY <1>0, <2>3, <3>1, RequestTypes DEF TypeOK, Ends, AuthRequest
        <3>3. up' = Append(up, m) /\ ~CanSendWrites'
            BY <1>17, <2>3, <3>1 DEF OnReady, CanSendWrites
        <3> QED BY <1>0, <1>3, <2>1, <3>2, <3>3, AskedSent
    <2> QED BY <2>2, <2>3
<1>18. ASSUME Receive PROVE Head(down) \in Message /\ down # <<>>
    <2>1. down # <<>>
        BY <1>18 DEF Receive, RecvAuth, RecvRevoked, RecvCancel, RecvListen, RecvPut, Receives
    <2> QED BY <1>0, <2>1, SeqTypes
<1>19. CASE RecvAuth
    <2>1. CASE ~Head(down).ok
        BY <1>5, <1>19, <2>1 DEF RecvAuth, HangUp
    <2>2. CASE Head(down).ok /\ Head(down).restore
        BY <1>6, <1>19, <2>2 DEF RecvAuth
    <2>3. CASE Head(down).ok /\ ~Head(down).restore
        <3>1. CanSendWrites
            BY <1>19, <2>3, RestoredBefore DEF CanSendWrites
        <3>2. UNCHANGED <<up, heard, listens>> /\ down' = Tail(down) /\ down # <<>>
              /\ Head(down) \notin Denies(q, n)
            BY <1>19, <2>3 DEF RecvAuth, Receives, Arrived, Denies
        <3> QED BY <1>0, <1>3, <3>1, <3>2, AskedReceived
    <2> QED BY <2>1, <2>2, <2>3
<1>20. CASE RecvPut
    <2>1. /\ UNCHANGED <<up, heard, listens, state>> /\ down' = Tail(down) /\ down # <<>>
          /\ Head(down) \notin Denies(q, n)
        BY <1>20 DEF RecvPut, Receives, Arrived, Denies, machine, listening
    <2> QED BY <1>0, <1>3, <2>1, AskedReceived DEF CanSendWrites
<1>21. CASE RecvCancel
    <2>1. /\ UNCHANGED <<up, heard, state>> /\ down' = Tail(down) /\ down # <<>>
          /\ Head(down).kind = "cancel" /\ listens' = [listens EXCEPT ![Head(down).query] = 0]
        BY <1>21 DEF RecvCancel, Receives, Arrived, machine
    <2>2. Head(down).query # q /\ listens[q] = n
        BY <1>0, <2>1
    <2>3. Head(down) \notin Denies(q, n)
        BY <2>1, <2>2 DEF Denies
    <2> QED BY <1>0, <1>2, <2>1, <2>2, <2>3, AskedReceived DEF CanSendWrites
<1>22. CASE RecvListen
    <2>1. /\ UNCHANGED <<up, heard, state>> /\ down' = Tail(down) /\ down # <<>>
          /\ Head(down).kind = "listen"
          /\ listens' = IF listens[Head(down).query] = Head(down).spec /\ ~Head(down).ok
                        THEN [listens EXCEPT ![Head(down).query] = 0] ELSE listens
        BY <1>22 DEF RecvListen, Receives, Arrived, machine
    <2>2. listens[q] = n /\ ~(Head(down).query = q /\ Head(down).spec = n /\ ~Head(down).ok)
        BY <1>0, <2>1
    <2>3. Head(down) \notin Denies(q, n)
        BY <2>1, <2>2 DEF Denies
    <2> QED BY <1>0, <1>2, <2>1, <2>2, <2>3, AskedReceived DEF CanSendWrites
<1>23. CASE Serve
    <2>1. listens' = listens
        BY <1>23 DEF Serve, ServeAuth, ServeUnauth, ServeListen, ServeUnlisten, ServePut,
                     ServerOnly, listening
    <2> QED BY <1>0, <1>3, <1>23, <2>1, AskedServed
<1>24. CASE ServerRevokes
    <2>1. PICK m \in Message : m = [kind |-> "revoked"]
        BY DEF Message
    <2> QED BY <1>0, <1>3, <1>24, <2>1, AskedPushed
            DEF ServerRevokes, ServerOnly, Answer, machine, listening
<1>25. ASSUME NEW w \in Query, ServerCancels(w) PROVE AskedFor(q, n)'
    <2>1. PICK m \in Message : m = [kind |-> "cancel", query |-> w]
        BY DEF Message
    <2>2. q \in heard => q \in heard' \/ m \in Denies(q, n)
        BY <1>25, <2>1 DEF ServerCancels, Denies
    <2> QED BY <1>0, <1>3, <1>25, <2>1, <2>2, AskedPushed
            DEF ServerCancels, ServerOnly, Answer, machine, listening
<1> QED
    BY <1>8, <1>9, <1>10, <1>11, <1>12, <1>13, <1>14, <1>15, <1>16, <1>17, <1>19, <1>20,
       <1>21, <1>22, <1>23, <1>24, <1>25
    DEF Next, App, Fault, FetchDone, Receive

\* The requests and messages of AskedFor are those the refinement looks at.
LEMMA AllAskedIsAsked ==
    ASSUME TypeOK, AllAsked, CanSendWrites
    PROVE  {q \in Wanted : Asked(q)} = Wanted
<1> SUFFICES ASSUME NEW q \in Wanted PROVE Asked(q)
    OBVIOUS
<1>0. /\ q \in Query /\ AskedFor(q, listens[q])
      /\ \A i \in DOMAIN up : up[i] \in Request
      /\ \A i \in DOMAIN down : down[i] \in Message
    BY LenProperties, ElementOfSeq DEF TypeOK, AllAsked, Wanted
<1>1. CASE Meets(up, Begins(q, listens[q]))
    <2>1. \A m \in Begins(q, listens[q]) : m = ListenTo(q, listens[q])
        BY DEF Begins, Request, ListenTo
    <2> QED BY <1>1, <2>1 DEF Meets, Asked
<1>2. CASE q \in heard /\ ~Meets(up, Ends(q))
    <2>1. UnlistenTo(q) \in Ends(q)
        BY <1>0, RequestTypes DEF Ends, UnlistenTo
    <2> QED BY <1>2, <2>1 DEF Meets, Asked
<1>3. CASE Meets(down, Denies(q, listens[q]))
    <2>1. \A m \in Denies(q, listens[q]) :
            \/ m = [kind |-> "listen", query |-> q, spec |-> listens[q], ok |-> FALSE]
            \/ m = [kind |-> "cancel", query |-> q]
        BY DEF Denies, Message
    <2> QED BY <1>3, <2>1 DEF Meets, Asked
<1> QED BY <1>0, <1>1, <1>2, <1>3 DEF AskedFor

-----------------------------------------------------------------------------
(* The theorems.                                                           *)

\* The whole inductive invariant.
IInv ==
    /\ TypeInv /\ AttemptInv /\ RestoresFirst
    /\ HeldIsReleased /\ KeepInv /\ OrderInv /\ AllAsked

LEMMA InitInv ==
    ASSUME Init
    PROVE  IInv
<1>1. TypeOK
    <2>1. <<>> \in Seq(Put) /\ <<>> \in Seq(Request) /\ <<>> \in Seq(Message)
        BY SeqTypes
    <2>2. 0 \in Token /\ 0 \in 0..MaxListens /\ 0 \in 0..MaxEvents
        BY ConnectionBoundAssumption DEF Token
    <2>3. listens \in [Query -> 0..MaxListens]
        BY <2>2 DEF Init
    <2> QED BY <2>1, <2>2, <2>3 DEF Init, TypeOK, LinkState, Reason
<1>2. UnackedInFlight
    <2>1. up = <<>> /\ down = <<>> /\ unacked = 0
        BY DEF Init
    <2>2. Cardinality(ListensIn(up)) = 0 /\ Cardinality(ListensIn(down)) = 0
        BY <2>1, ListensEmpty
    <2> QED BY <2>1, <2>2 DEF UnackedInFlight
<1>3. QuietWire /\ AttemptInv /\ RestoresFirst /\ HeldIsReleased
    BY DEF Init, QuietWire, AttemptInv, OneAttempt, RestoresFirst, HeldIsReleased
<1>4. WireKept
    BY GuardedEmpty DEF Init, WireKept, Connected
<1>5. TokensKept
    BY DEF Init, TokensKept, Wanted
<1>6. OrderInv
    <2>1. PutsKept /\ RestoresOnce
        BY EmptyChannels DEF Init, PutsKept, RestoresOnce, CanSendWrites
    <2>2. called = <<>> /\ held = <<>> /\ outstanding = <<>> /\ DOMAIN <<>> = {}
        <3>1. DOMAIN <<>> = {}
            OBVIOUS
        <3> QED BY <3>1 DEF Init
    <2>3. Answered = {} /\ DOMAIN outstanding = {}
        BY <2>2 DEF Answered, Called
    <2>4. Numbered
        BY <2>3, 1..0 = {} DEF Numbered
    <2> QED BY <2>1, <2>4 DEF OrderInv
<1>7. AllAsked
    BY DEF Init, AllAsked, Wanted
<1> QED BY <1>1, <1>2, <1>3, <1>4, <1>5, <1>6, <1>7 DEF IInv, TypeInv, KeepInv

LEMMA NextInv ==
    ASSUME IInv, [Next]_vars
    PROVE  IInv'
<1>1. CASE Next
    <2>1. TypeInv'
        BY <1>1, TypeStep, WireStep, QuietStep DEF IInv, TypeInv, WireOK
    <2>2. AttemptInv' /\ RestoresFirst'
        BY <1>1, AttemptStep, RestoresFirstStep DEF IInv
    <2>3. HeldIsReleased' /\ KeepInv'
        BY <1>1, HeldStep, KeepStep DEF IInv
    <2>4. OrderInv'
        BY <1>1, OrderStep DEF IInv
    <2>5. AllAsked'
        BY <1>1, AskedStep DEF IInv
    <2> QED BY <2>1, <2>2, <2>3, <2>4, <2>5 DEF IInv
<1>2. CASE UNCHANGED vars
    <2> USE <1>2 DEF vars, machine, listening, writing, net, auth, counts
    <2>1. TypeInv'
        <3>1. TypeOK'
            BY DEF IInv, TypeInv, TypeOK
        <3> QED BY <3>1 DEF IInv, TypeInv, UnackedInFlight, QuietWire, Connected
    <2>2. AttemptInv' /\ RestoresFirst' /\ HeldIsReleased'
        BY DEF IInv, AttemptInv, OneAttempt, RestoresFirst, HeldIsReleased, CanSendWrites, Wanted
    <2>3. KeepInv'
        BY DEF IInv, KeepInv, WireKept, TokensKept, Authorised, Connected, Wanted
    <2>4. OrderInv'
        BY DEF IInv, OrderInv, PutsKept, RestoresOnce, Numbered, CanSendWrites, Waiting, Answered,
               Called
    <2>5. AllAsked'
        BY DEF IInv, AllAsked, AskedFor, CanSendWrites, Wanted
    <2> QED BY <2>1, <2>2, <2>3, <2>4, <2>5 DEF IInv
<1> QED BY <1>1, <1>2

LEMMA AlwaysInv == Spec => []IInv
BY InitInv, NextInv, PTL DEF Spec

\* The state of FPersistentConnection and of both channels keeps its types:
\* also the count of unanswered listens, which is decremented without a look
\* at its value, never goes below zero.
THEOREM TypeCorrect == Spec => []TypeOK
<1>1. IInv => TypeOK
    BY DEF IInv, TypeInv
<1> QED BY <1>1, AlwaysInv, PTL

\* unackedListensCount is the number of listens whose answer is under way,
\* whatever is lost, restored or asked for twice.
THEOREM UnackedInFlightCorrect == Spec => []UnackedInFlight
<1>1. IInv => UnackedInFlight
    BY DEF IInv, TypeInv
<1> QED BY <1>1, AlwaysInv, PTL

\* Whenever nobody interrupts it, the machine has a timer, a fetch or a
\* websocket under way, and never two of them that would both connect.
THEOREM OneAttemptCorrect == Spec => []OneAttempt
<1>1. IInv => OneAttempt
    BY DEF IInv, AttemptInv
<1> QED BY <1>1, AlwaysInv, PTL

\* Answers of writes that are held back for listens always have a listen to
\* release them, as long as anything is listened to.
THEOREM HeldIsReleasedCorrect == Spec => []HeldIsReleased
<1>1. IInv => HeldIsReleased
    BY DEF IInv
<1> QED BY <1>1, AlwaysInv, PTL

\* No token that expires or is refused takes a listen away before somebody
\* has signed out: only removing the observer does.
THEOREM KeptWhileSignedInCorrect == Spec => KeptWhileSignedIn
<1> DEFINE Stays == \A q \in Query : listens[q] # 0 /\ listens'[q] = 0 /\ ~signedOut
                                        => Unlisten(q)
<1>1. ASSUME IInv, [Next]_vars PROVE [Stays]_vars
    BY <1>1, ListensStay DEF IInv
<1> QED BY <1>1, AlwaysInv, PTL DEF Spec, KeptWhileSignedIn

\* As long as there is a listen, the completion block of a write runs only when
\* those of all older writes run with it or have run: answers arrive oldest
\* first on every connection, and those held back are released together.
THEOREM CallsInOrderCorrect == Spec => CallsInOrder
<1> DEFINE Order == \A p \in Called' \ Called : 1..(p - 1) \subseteq Called' \/ Wanted = {}
<1>1. ASSUME IInv, [Next]_vars PROVE [Order]_vars
    BY <1>1, CalledInOrder DEF IInv
<1> QED BY <1>1, AlwaysInv, PTL DEF Spec, CallsInOrder

-----------------------------------------------------------------------------
(* The connection implements Wire.                                         *)

\* What Wire knows of the connection follows from its state alone.
WireView ==
    /\ (IF CanSendWrites THEN {q \in Wanted : Asked(q)} ELSE {})
            = (IF CanSendWrites THEN Wanted ELSE {})
    /\ (IF CanSendWrites THEN PutsIn(down) \o PutsIn(up) ELSE <<>>)
            = (IF CanSendWrites THEN outstanding ELSE <<>>)

LEMMA ViewKept == IInv => WireView
<1>1. CASE CanSendWrites
    BY <1>1, AllAskedIsAsked, CarriesQueue DEF IInv, TypeInv, OrderInv, WireView
<1>2. CASE ~CanSendWrites
    BY <1>2 DEF WireView
<1> QED BY <1>1, <1>2

LEMMA ViewKeptNext == IInv' => WireView'
BY ViewKept, PTL

\* What a step can do to that: connect or disconnect, change what is wanted or
\* what waits for an answer, but never two of them.
LEMMA WireSteps ==
    ASSUME IInv, Next
    PROVE  \/ UNCHANGED <<CanSendWrites, Wanted, outstanding>>
           \/ CanSendWrites' # CanSendWrites /\ UNCHANGED <<Wanted, outstanding>>
           \/ /\ UNCHANGED <<CanSendWrites, outstanding>>
              /\ \E q \in Query : Wanted' = Wanted \cup {q} \/ Wanted' = Wanted \ {q}
           \/ /\ UNCHANGED <<CanSendWrites, Wanted>>
              /\ \E p \in Put : outstanding' = Append(outstanding, p)
           \/ /\ UNCHANGED <<CanSendWrites, Wanted>>
              /\ CanSendWrites /\ outstanding # <<>> /\ outstanding' = Tail(outstanding)
<1>0. TypeOK /\ listens \in [Query -> 0..MaxListens] /\ down \in Seq(Message)
    BY DEF IInv, TypeInv, TypeOK
<1>1. CASE UNCHANGED <<listens, outstanding>>
    BY <1>1 DEF Wanted
<1>2. ASSUME NEW q \in Query, listens' = [listens EXCEPT ![q] = 0],
             UNCHANGED <<state, outstanding>>
      PROVE  Wanted' = Wanted \ {q} /\ UNCHANGED <<CanSendWrites, outstanding>>
    BY <1>0, <1>2 DEF Wanted, CanSendWrites
<1>3. ASSUME NEW q \in Query, Listen(q)
      PROVE  Wanted' = Wanted \cup {q} /\ UNCHANGED <<CanSendWrites, outstanding>>
    <2>1. asks' \in 1..MaxListens
        BY <1>0, <1>3, ConnectionBoundAssumption DEF TypeOK, Listen
    <2>2. Wanted' = Wanted \cup {q}
        BY <1>0, <1>3, <2>1 DEF Listen, Wanted
    <2> QED BY <1>3, <2>2 DEF Listen, machine, writing, CanSendWrites
<1>4. ASSUME NEW q \in Query, Unlisten(q)
      PROVE  Wanted' = Wanted \ {q} /\ UNCHANGED <<CanSendWrites, outstanding>>
    BY <1>2, <1>4 DEF Unlisten, machine, writing
<1>5. CASE PutData
    <2>1. PICK p \in Put : p = Cardinality(Made) + 1
        BY <1>0, <1>5, NextPutType DEF PutData
    <2> QED BY <1>5, <2>1 DEF PutData, machine, listening, CanSendWrites, Wanted
<1>6. CASE RecvPut
    <2>1. /\ state = "connected" \/ state = "authenticating"
          /\ Puts(down) # {}
          /\ outstanding # <<>> /\ outstanding' = Tail(outstanding)
        BY <1>6, AnswerTaken DEF IInv, TypeInv, OrderInv
    <2>2. CanSendWrites
        BY <2>1 DEF IInv, OrderInv, PutsKept
    <2>3. UNCHANGED <<CanSendWrites, Wanted>>
        BY <1>6 DEF RecvPut, machine, listening, CanSendWrites, Wanted
    <2> QED BY <2>1, <2>2, <2>3
<1>7. CASE RecvCancel
    <2>1. PICK q \in Query : q = Head(down).query
        <3>1. down # <<>> /\ Head(down).kind = "cancel"
            BY <1>7 DEF RecvCancel, Receives
        <3>2. Head(down) \in Message
            BY <1>0, <3>1, SeqTypes
        <3> QED BY <3>1, <3>2 DEF Message
    <2> QED BY <1>2, <1>7, <2>1 DEF RecvCancel, machine, writing
<1>8. CASE RecvListen
    <2>1. PICK q \in Query : q = Head(down).query
        <3>1. down # <<>> /\ Head(down).kind = "listen"
            BY <1>8 DEF RecvListen, Receives
        <3>2. Head(down) \in Message
            BY <1>0, <3>1, SeqTypes
        <3> QED BY <3>1, <3>2 DEF Message
    <2>2. UNCHANGED <<state, outstanding>>
        BY <1>8 DEF RecvListen, machine
    <2>3. listens' = [listens EXCEPT ![q] = 0] \/ listens' = listens
        BY <1>8, <2>1 DEF RecvListen
    <2> QED BY <1>1, <1>2, <2>2, <2>3
<1>9. CASE SignIn \/ SignOut \/ Interrupt \/ Nudge \/ \E r \in {"waiting for open", "repo"} : Resume(r)
    BY <1>1, <1>9 DEF SignIn, SignOut, Interrupt, Nudge, Resume, listening, writing
<1>10. CASE Fault
    BY <1>1, <1>10 DEF Fault, Lose, OnKill, Revoke, FetchFails, listening, writing
<1>11. CASE Retry \/ FetchDone \/ OnReady
    BY <1>1, <1>11 DEF Retry, FetchDone, Fetched, OnReady, listening, writing
<1>12. CASE RecvAuth \/ RecvRevoked
    BY <1>1, <1>12 DEF RecvAuth, RecvRevoked, writing
<1>13. CASE Serve \/ ServerRevokes \/ \E q \in Query : ServerCancels(q)
    BY <1>1, <1>13 DEF Serve, ServeAuth, ServeUnauth, ServeListen, ServeUnlisten, ServePut,
                       ServerRevokes, ServerCancels, ServerOnly, listening, writing
<1> QED
    BY <1>3, <1>4, <1>5, <1>6, <1>7, <1>8, <1>9, <1>10, <1>11, <1>12, <1>13
    DEF Next, App, Receive

\* The connection is what RealtimeSync takes it for: through restores, tokens
\* refused and sign-outs, a connection that sends writes has asked for exactly
\* what is observed, and carries every write without an answer once and in order.
THEOREM RefinesWireCorrect == Spec => RefinesWire
<1>1. Init => W!Init
    BY DEF Init, W!Init, CanSendWrites, Wanted
<1>2. ASSUME IInv, IInv', [Next]_vars
      PROVE  [W!Next]_(W!wireVars)
    <2>1. WireView /\ WireView'
        BY <1>2, ViewKept, ViewKeptNext
    <2>2. CASE UNCHANGED <<CanSendWrites, Wanted, outstanding>>
        BY <2>1, <2>2 DEF WireView, W!wireVars
    <2>3. CASE CanSendWrites' # CanSendWrites /\ UNCHANGED <<Wanted, outstanding>>
        <3>1. CASE CanSendWrites /\ ~CanSendWrites'
            <4>1. W!Close
                BY <2>1, <2>3, <3>1 DEF WireView, W!Close
            <4> QED BY <4>1 DEF W!Next
        <3>2. CASE ~CanSendWrites /\ CanSendWrites'
            <4>1. W!Open
                BY <2>1, <2>3, <3>2 DEF WireView, W!Open
            <4> QED BY <4>1 DEF W!Next
        <3> QED BY <2>3, <3>1, <3>2 DEF CanSendWrites
    <2>4. ASSUME NEW q \in Query, Wanted' = Wanted \cup {q},
                 UNCHANGED <<CanSendWrites, outstanding>>
          PROVE  W!Next
        <3>1. W!Ask(q)
            BY <2>1, <2>4 DEF WireView, W!Ask
        <3> QED BY <3>1 DEF W!Next
    <2>5. ASSUME NEW q \in Query, Wanted' = Wanted \ {q},
                 UNCHANGED <<CanSendWrites, outstanding>>
          PROVE  W!Next
        <3>1. W!Forget(q)
            BY <2>1, <2>5 DEF WireView, W!Forget
        <3> QED BY <3>1 DEF W!Next
    <2>6. ASSUME NEW p \in Put, outstanding' = Append(outstanding, p),
                 UNCHANGED <<CanSendWrites, Wanted>>
          PROVE  W!Next
        <3>1. W!Write(p)
            BY <2>1, <2>6 DEF WireView, W!Write
        <3> QED BY <3>1 DEF W!Next
    <2>7. CASE /\ CanSendWrites /\ outstanding # <<>> /\ outstanding' = Tail(outstanding)
               /\ UNCHANGED <<CanSendWrites, Wanted>>
        <3>1. W!Answer
            BY <2>1, <2>7 DEF WireView, W!Answer
        <3> QED BY <3>1 DEF W!Next
    <2>8. CASE UNCHANGED vars
        BY <2>2, <2>8 DEF vars, machine, listening, writing, CanSendWrites, Wanted
    <2>9. CASE Next
        BY <1>2, <2>2, <2>3, <2>4, <2>5, <2>6, <2>7, <2>9, WireSteps
    <2> QED BY <1>2, <2>8, <2>9
<1> QED BY <1>1, <1>2, AlwaysInv, PTL DEF Spec, RefinesWire, W!Spec
=============================================================================
