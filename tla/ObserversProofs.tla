--------------------------- MODULE ObserversProofs ---------------------------
(***************************************************************************)
(* Proofs about Observers, for any tree of the paths the app observes, any *)
(* reads, teams and bounds: the listens are the topmost observed paths, no *)
(* details leave an observer behind, complete views agree, no change is    *)
(* missed while listens move, and once nothing is under way the screens    *)
(* show what the server has.  One inductive invariant, Inv, carries them:  *)
(* the library's own, SyncInv, and what joins the screens to it,           *)
(* ScreensInv.                                                             *)
(***************************************************************************)
EXTENDS Observers, TLAPS, FiniteSetTheorems, SequenceTheorems

Tops(V) == {p \in V : ~Covered(p, V)}

-----------------------------------------------------------------------------
(* Sets listed in some order, and sequences of messages.                   *)

\* An enumeration that takes each element once takes them all.
LEMMA Listed ==
    ASSUME NEW S, IsFiniteSet(S), NEW s \in SetToSeqs(S)
    PROVE  s \in Seq(S) /\ \A x \in S : \E i \in DOMAIN s : s[i] = x
<1>1. PICK n \in Nat : n = Cardinality(S)
  BY FS_CardinalityType
<1>2. s \in [1..n -> S] /\ \A i, j \in 1..n : i # j => s[i] # s[j]
  BY <1>1 DEF SetToSeqs
<1>3. s \in Injection(1..n, S)
  BY <1>2 DEF Injection, IsInjective
<1>4. IsFiniteSet(1..n) /\ Cardinality(1..n) = n
  BY FS_Interval
<1>5. s \in Surjection(1..n, S)
  BY <1>1, <1>3, <1>4, FS_Injection
<1>6. \A x \in S : \E i \in 1..n : s[i] = x
  BY <1>5 DEF Surjection
<1> QED  BY <1>1, <1>2, <1>6, SeqDef

LEMMA ListedSomehow ==
    ASSUME NEW S, IsFiniteSet(S)
    PROVE  /\ SetToSeq(S) \in Seq(S)
           /\ \A x \in S : \E i \in DOMAIN SetToSeq(S) : SetToSeq(S)[i] = x
<1>1. PICK n \in Nat : n = Cardinality(S)
  BY FS_CardinalityType
<1>2. IsFiniteSet(1..n) /\ Cardinality(1..n) = n
  BY FS_Interval
<1>3. PICK f \in Bijection(1..n, S) : TRUE
  BY <1>1, <1>2, FS_SameCardinalityBij DEF ExistsBijection
<1>4. f \in [1..n -> S] /\ IsInjective(f)
  BY <1>3 DEF Bijection, Injection, IsInjective
<1>5. SetToSeq(S) \in [1..n -> S] /\ IsInjective(SetToSeq(S))
  BY <1>1, <1>4 DEF SetToSeq
<1>6. SetToSeq(S) \in SetToSeqs(S)
  BY <1>1, <1>5 DEF SetToSeqs, IsInjective
<1> QED  BY <1>6, Listed

LEMMA TailAt ==
    ASSUME NEW S, NEW s \in Seq(S), s # <<>>
    PROVE  /\ Head(s) \in S /\ Tail(s) \in Seq(S)
           /\ \E n \in Nat : /\ DOMAIN s = 1..(n + 1) /\ DOMAIN Tail(s) = 1..n
                             /\ Head(s) = s[1]
                             /\ \A i \in 1..n : Tail(s)[i] = s[i + 1]
<1>1. /\ Len(s) \in Nat \ {0} /\ DOMAIN s = 1..Len(s)
      /\ Head(s) = s[1] /\ Head(s) \in S
      /\ Tail(s) \in Seq(S) /\ DOMAIN Tail(s) = 1..(Len(s) - 1)
      /\ \A i \in 1..(Len(s) - 1) : Tail(s)[i] = s[i + 1]
  <2>1. /\ Len(s) \in Nat /\ DOMAIN s = 1..Len(s) /\ Len(s) # 0
    BY LenProperties, EmptySeq
  <2>2. /\ Head(s) \in S /\ Tail(s) \in Seq(S) /\ Len(Tail(s)) = Len(s) - 1
        /\ \A i \in 1..Len(Tail(s)) : Tail(s)[i] = s[i + 1]
    BY HeadTailProperties
  <2>3. DOMAIN Tail(s) = 1..Len(Tail(s))
    BY <2>2, LenProperties
  <2>4. Head(s) = s[1]
    BY <2>1, HeadTailProperties
  <2> QED  BY <2>1, <2>2, <2>3, <2>4
<1>2. PICK n \in Nat : Len(s) = n + 1
  <2>1. Len(s) - 1 \in Nat /\ Len(s) = (Len(s) - 1) + 1
    BY <1>1
  <2> QED  BY <2>1
<1>3. n + 1 - 1 = n
  OBVIOUS
<1> QED  BY <1>1, <1>2, <1>3

\* Where the elements of two sequences of lengths a and b stand in the joined one.
Joined(s, t, a, b) ==
    /\ DOMAIN s = 1..a /\ DOMAIN t = 1..b /\ DOMAIN (s \o t) = 1..(a + b)
    /\ \A i \in 1..a : (s \o t)[i] = s[i]
    /\ \A i \in 1..b : (s \o t)[a + i] = t[i]

LEMMA ConcatAt ==
    ASSUME NEW S, NEW s \in Seq(S), NEW t \in Seq(S)
    PROVE  /\ s \o t \in Seq(S)
           /\ \E a \in Nat : \E b \in Nat : Joined(s, t, a, b)
<1>1. PICK a \in Nat : Len(s) = a
  BY LenProperties
<1>2. PICK b \in Nat : Len(t) = b
  BY LenProperties
<1>3. /\ s \o t \in Seq(S) /\ Len(s \o t) = Len(s) + Len(t)
      /\ \A i \in 1..(Len(s) + Len(t)) :
            (s \o t)[i] = IF i <= Len(s) THEN s[i] ELSE t[i - Len(s)]
  BY ConcatProperties
<1>4. DOMAIN s = 1..a /\ DOMAIN t = 1..b /\ DOMAIN (s \o t) = 1..(a + b)
  BY <1>1, <1>2, <1>3, LenProperties
<1>5. \A i \in 1..a : (s \o t)[i] = s[i]
  BY <1>1, <1>2, <1>3
<1>6. ASSUME NEW i \in 1..b PROVE (s \o t)[a + i] = t[i]
  <2>1. a + i \in 1..(a + b) /\ ~(a + i <= a) /\ a + i - a = i
    OBVIOUS
  <2> QED  BY <1>1, <1>2, <1>3, <2>1
<1>7. Joined(s, t, a, b)
  BY <1>4, <1>5, <1>6 DEF Joined
<1> QED  BY <1>3, <1>7

\* Messages of a set G are there; everything in B is followed, or preceded, by
\* something in G.
Has(s, G)       == \E i \in DOMAIN s : s[i] \in G
Follows(s, B, G)  == \A i \in DOMAIN s : s[i] \in B => \E j \in DOMAIN s : i < j /\ s[j] \in G
Precedes(s, B, G) == \A i \in DOMAIN s : s[i] \in B => \E j \in DOMAIN s : j < i /\ s[j] \in G

LEMMA TailHas ==
    ASSUME NEW S, NEW s \in Seq(S), s # <<>>
    PROVE  /\ \A G : Has(s, G) <=> Head(s) \in G \/ Has(Tail(s), G)
           /\ \A B, G : Follows(s, B, G) => Follows(Tail(s), B, G)
           /\ \A B, G : Follows(s, B, G) /\ Head(s) \in B => Has(Tail(s), G)
           /\ \A B, G : Precedes(s, B, G) => Head(s) \notin B
           /\ \A B, G : Precedes(s, B, G) /\ Head(s) \notin G => Precedes(Tail(s), B, G)
<1>1. PICK n \in Nat : /\ DOMAIN s = 1..(n + 1) /\ DOMAIN Tail(s) = 1..n
                       /\ Head(s) = s[1]
                       /\ \A i \in 1..n : Tail(s)[i] = s[i + 1]
  BY TailAt
<1>2. PICK t : t = Tail(s)
  OBVIOUS
<1>3. /\ 1 \in 1..(n + 1)
      /\ \A i \in 1..n : i + 1 \in 1..(n + 1) /\ 1 < i + 1
      /\ \A i \in 1..(n + 1) : i = 1 \/ (i - 1 \in 1..n /\ (i - 1) + 1 = i)
  OBVIOUS
<1>4. \A i \in 1..(n + 1) : i = 1 \/ (i - 1 \in 1..n /\ s[i] = t[i - 1])
  BY <1>1, <1>2, <1>3
<1>5. ASSUME NEW G PROVE Has(s, G) <=> Head(s) \in G \/ Has(t, G)
  BY <1>1, <1>2, <1>3, <1>4 DEF Has
<1>6. ASSUME NEW B, NEW G, Follows(s, B, G)
      PROVE  Follows(t, B, G) /\ (Head(s) \in B => Has(t, G))
  <2>1. ASSUME NEW i \in 1..n, t[i] \in B PROVE \E j \in 1..n : i < j /\ t[j] \in G
    <3>1. PICK j \in 1..(n + 1) : i + 1 < j /\ s[j] \in G
      BY <1>1, <1>2, <1>3, <1>6, <2>1 DEF Follows
    <3>2. j - 1 \in 1..n /\ i < j - 1 /\ t[j - 1] \in G
      BY <1>4, <3>1
    <3> QED  BY <3>2
  <2>2. ASSUME Head(s) \in B PROVE \E j \in 1..n : t[j] \in G
    <3>1. PICK j \in 1..(n + 1) : 1 < j /\ s[j] \in G
      BY <1>1, <1>3, <1>6, <2>2 DEF Follows
    <3> QED  BY <1>4, <3>1
  <2> QED  BY <1>1, <1>2, <2>1, <2>2 DEF Follows, Has
<1>7. ASSUME NEW B, NEW G, Precedes(s, B, G) PROVE Head(s) \notin B
  <2> SUFFICES ASSUME Head(s) \in B PROVE FALSE
    OBVIOUS
  <2>1. \E j \in 1..(n + 1) : j < 1
    BY <1>1, <1>3, <1>7 DEF Precedes
  <2> QED  BY <2>1
<1>8. ASSUME NEW B, NEW G, Precedes(s, B, G), Head(s) \notin G PROVE Precedes(t, B, G)
  <2> SUFFICES ASSUME NEW i \in 1..n, t[i] \in B PROVE \E j \in 1..n : j < i /\ t[j] \in G
    BY <1>1, <1>2 DEF Precedes
  <2>1. PICK j \in 1..(n + 1) : j < i + 1 /\ s[j] \in G
    BY <1>1, <1>2, <1>3, <1>8 DEF Precedes
  <2>2. j - 1 \in 1..n /\ j - 1 < i /\ t[j - 1] \in G
    BY <1>1, <1>4, <1>8, <2>1
  <2> QED  BY <2>2
<1> QED  BY <1>2, <1>5, <1>6, <1>7, <1>8

LEMMA ConcatHas ==
    ASSUME NEW S, NEW s \in Seq(S), NEW t \in Seq(S)
    PROVE  /\ \A G : Has(s \o t, G) <=> Has(s, G) \/ Has(t, G)
           /\ \A B, G : Follows(s, B, G) \/ ~Has(s, B) \/ Has(t, G) =>
                            (~Has(t, B) => Follows(s \o t, B, G))
           /\ \A B, G : Precedes(s, B, G) =>
                            (~Has(t, B) \/ Has(s, G) \/ Precedes(t, B, G) => Precedes(s \o t, B, G))
<1>1. PICK a \in Nat : \E b \in Nat : Joined(s, t, a, b)
  BY ConcatAt
<1>2. PICK b \in Nat : Joined(s, t, a, b)
  BY <1>1
<1>3. PICK r : r = s \o t
  OBVIOUS
<1>4. /\ \A i \in 1..a : i \in 1..(a + b)
      /\ \A i \in 1..b : a + i \in 1..(a + b) /\ \A j \in 1..a : j < a + i
      /\ \A i \in 1..(a + b) : i \in 1..a \/ (i - a \in 1..b /\ a + (i - a) = i)
  OBVIOUS
<1>5. \A i \in 1..(a + b) : (i \in 1..a /\ r[i] = s[i]) \/ (i - a \in 1..b /\ r[i] = t[i - a])
  BY <1>2, <1>3, <1>4 DEF Joined
<1>6. \A i \in 1..b : r[a + i] = t[i]
  BY <1>2, <1>3 DEF Joined
<1>7. \A i \in 1..a : r[i] = s[i]
  BY <1>2, <1>3 DEF Joined
<1>8. ASSUME NEW G PROVE Has(r, G) <=> Has(s, G) \/ Has(t, G)
  BY <1>2, <1>3, <1>4, <1>5, <1>6, <1>7 DEF Joined, Has
<1>9. ASSUME NEW B, NEW G, Follows(s, B, G) \/ ~Has(s, B) \/ Has(t, G), ~Has(t, B)
      PROVE  Follows(r, B, G)
  <2> SUFFICES ASSUME NEW i \in 1..(a + b), r[i] \in B
               PROVE  \E j \in 1..(a + b) : i < j /\ r[j] \in G
    BY <1>2, <1>3 DEF Joined, Follows
  <2>1. i \in 1..a /\ s[i] \in B
    BY <1>2, <1>5, <1>9 DEF Joined, Has
  <2>2. CASE Has(t, G)
    <3>1. PICK j \in 1..b : t[j] \in G
      BY <1>2, <2>2 DEF Joined, Has
    <3>2. a + j \in 1..(a + b) /\ i < a + j /\ r[a + j] \in G
      BY <1>4, <1>6, <2>1, <3>1
    <3> QED  BY <3>2
  <2>3. CASE Follows(s, B, G)
    <3>1. PICK j \in 1..a : i < j /\ s[j] \in G
      BY <1>2, <2>1, <2>3 DEF Joined, Follows
    <3> QED  BY <1>4, <1>7, <3>1
  <2> QED  BY <1>2, <1>9, <2>1, <2>2, <2>3 DEF Joined, Has
<1>10. ASSUME NEW B, NEW G, Precedes(s, B, G), ~Has(t, B) \/ Has(s, G) \/ Precedes(t, B, G)
       PROVE  Precedes(r, B, G)
  <2> SUFFICES ASSUME NEW i \in 1..(a + b), r[i] \in B
               PROVE  \E j \in 1..(a + b) : j < i /\ r[j] \in G
    BY <1>2, <1>3 DEF Joined, Precedes
  <2>1. CASE i \in 1..a /\ s[i] \in B
    <3>1. PICK j \in 1..a : j < i /\ s[j] \in G
      BY <1>2, <1>10, <2>1 DEF Joined, Precedes
    <3> QED  BY <1>4, <1>7, <3>1
  <2>2. CASE i - a \in 1..b /\ t[i - a] \in B /\ Has(s, G)
    <3>1. PICK j \in 1..a : s[j] \in G
      BY <1>2, <2>2 DEF Joined, Has
    <3>2. j < i
      BY <2>2
    <3> QED  BY <1>4, <1>7, <3>1, <3>2
  <2>3. CASE i - a \in 1..b /\ t[i - a] \in B /\ Precedes(t, B, G)
    <3>1. PICK j \in 1..b : j < i - a /\ t[j] \in G
      BY <1>2, <2>3 DEF Joined, Precedes
    <3>2. a + j \in 1..(a + b) /\ a + j < i /\ r[a + j] \in G
      BY <1>4, <1>6, <3>1
    <3> QED  BY <3>2
  <2> QED  BY <1>2, <1>5, <1>7, <1>10, <2>1, <2>2, <2>3 DEF Joined, Has
<1> QED  BY <1>3, <1>8, <1>9, <1>10

\* Every older message about an event has a version that is not newer.
NotNewer(m, n) == m.kind = "data" /\ n.kind = "data" =>
                    \A x \in DOMAIN m.node \cap DOMAIN n.node : m.node[x] <= n.node[x]
Sorted(s) == \A i, j \in DOMAIN s : i < j => NotNewer(s[i], s[j])

LEMMA TailSorted ==
    ASSUME NEW S, NEW s \in Seq(S), s # <<>>, Sorted(s)
    PROVE  /\ Sorted(Tail(s))
           /\ \A i \in DOMAIN Tail(s) : NotNewer(Head(s), Tail(s)[i])
<1>1. PICK n \in Nat : /\ DOMAIN s = 1..(n + 1) /\ DOMAIN Tail(s) = 1..n
                       /\ Head(s) = s[1]
                       /\ \A i \in 1..n : Tail(s)[i] = s[i + 1]
  BY TailAt
<1>2. PICK t : t = Tail(s)
  OBVIOUS
<1>3. /\ 1 \in 1..(n + 1)
      /\ \A i \in 1..n : i + 1 \in 1..(n + 1) /\ 1 < i + 1
      /\ \A i, j \in 1..n : i < j => i + 1 < j + 1
  OBVIOUS
<1>4. ASSUME NEW i \in 1..n PROVE NotNewer(Head(s), t[i])
  BY <1>1, <1>2, <1>3 DEF Sorted
<1>5. ASSUME NEW i \in 1..n, NEW j \in 1..n, i < j PROVE NotNewer(t[i], t[j])
  BY <1>1, <1>2, <1>3, <1>5 DEF Sorted
<1> QED  BY <1>1, <1>2, <1>4, <1>5 DEF Sorted

LEMMA ConcatSorted ==
    ASSUME NEW S, NEW s \in Seq(S), NEW t \in Seq(S), Sorted(s), Sorted(t),
           \A i \in DOMAIN s, j \in DOMAIN t : NotNewer(s[i], t[j])
    PROVE  Sorted(s \o t)
<1>1. PICK a \in Nat : \E b \in Nat : Joined(s, t, a, b)
  BY ConcatAt
<1>2. PICK b \in Nat : Joined(s, t, a, b)
  BY <1>1
<1>3. PICK r : r = s \o t
  OBVIOUS
<1>4. \A i \in 1..(a + b) : i \in 1..a \/ (i - a \in 1..b /\ a + (i - a) = i)
  OBVIOUS
<1>5. \A i \in 1..(a + b) : (i \in 1..a /\ r[i] = s[i]) \/ (i - a \in 1..b /\ r[i] = t[i - a])
  BY <1>2, <1>3, <1>4 DEF Joined
<1>6. ASSUME NEW i \in 1..(a + b), NEW j \in 1..(a + b), i < j PROVE NotNewer(r[i], r[j])
  <2>1. CASE i \in 1..a /\ r[i] = s[i] /\ j \in 1..a /\ r[j] = s[j]
    BY <1>2, <1>6, <2>1 DEF Joined, Sorted
  <2>2. CASE i \in 1..a /\ r[i] = s[i] /\ j - a \in 1..b /\ r[j] = t[j - a]
    BY <1>2, <2>2 DEF Joined
  <2>3. CASE i - a \in 1..b /\ r[i] = t[i - a] /\ j - a \in 1..b /\ r[j] = t[j - a]
    <3>1. i - a < j - a
      BY <1>6
    <3> QED  BY <1>2, <2>3, <3>1 DEF Joined, Sorted
  <2>4. ~(i - a \in 1..b /\ j \in 1..a)
    BY <1>6
  <2> QED  BY <1>5, <2>1, <2>2, <2>3, <2>4
<1> QED  BY <1>2, <1>3, <1>6 DEF Joined, Sorted

-----------------------------------------------------------------------------
(* The tree of paths, and the nodes the paths hold.                        *)

AllNodes == Node(Teams)

LEMMA Tree ==
    /\ Tab \in Path /\ Teams \in Path /\ Tab # Teams
    /\ Over[Teams] = {} /\ Over[Tab] = {Teams}
    /\ \A p \in Path : Over[p] \subseteq {Teams, Tab} /\ p \notin Over[p]
    /\ \A p \in Path : p # Teams => Teams \in Over[p]
    /\ \A p, q \in Path : Parent[q] = p => p = Tab /\ Tab \in Over[q]
    /\ \A q \in Path : Tab \in Over[q] => Parent[q] = Tab
    /\ \A x \in Leaf : x \in Path /\ x # Teams /\ x # Tab
BY TreeAssumption, PathAssumption, OverAssumption

LEMMA Unders ==
    /\ Under(Teams) = Leaf
    /\ \A p \in Path : Under(p) \subseteq Leaf
    /\ \A p \in Path : \A q \in Over[p] : Under(p) \subseteq Under(q)
    /\ \A x \in Leaf : Under(x) = {x}
    /\ \A p, q \in Path : p = q \/ p \in Over[q] \/ q \in Over[p] \/ Under(p) \cap Under(q) = {}
    /\ \A p, q \in Path : \A x \in Under(q) : x \in Under(p) <=> x = p \/ p \in Over[x]
<1>1. Under(Teams) = Leaf /\ \A p \in Path : Under(p) \subseteq Leaf
  BY Tree DEF Under
<1>2. ASSUME NEW p \in Path, NEW q \in Over[p] PROVE Under(p) \subseteq Under(q)
  BY OverAssumption, Tree DEF Under
<1>3. ASSUME NEW x \in Leaf PROVE Under(x) = {x}
  BY Tree DEF Under
<1>4. ASSUME NEW p \in Path, NEW q \in Path, NEW x \in Under(p), x \in Under(q)
      PROVE  p = q \/ p \in Over[q] \/ q \in Over[p]
  BY OverAssumption, PathAssumption, <1>4 DEF Under
<1>5. \A p, q \in Path : \A x \in Under(q) : x \in Under(p) <=> x = p \/ p \in Over[x]
  BY DEF Under
<1> QED  BY <1>1, <1>2, <1>3, <1>4, <1>5

LEMMA NodeFacts ==
    /\ \A n \in AllNodes : /\ DOMAIN n \subseteq Leaf /\ n = [x \in DOMAIN n |-> n[x]]
                        /\ \A x \in DOMAIN n : n[x] \in Version
    /\ \A p \in Path : \A n : n \in Node(p) <=> n \in AllNodes /\ DOMAIN n \subseteq Under(p)
    /\ Empty \in AllNodes /\ DOMAIN Empty = {}
    /\ \A S \in SUBSET Leaf : \A f \in [S -> Version] : f \in AllNodes
    /\ Version \subseteq Nat
<1>1. ASSUME NEW n \in AllNodes
      PROVE  /\ DOMAIN n \subseteq Leaf /\ n = [x \in DOMAIN n |-> n[x]]
             /\ \A x \in DOMAIN n : n[x] \in Version
  <2>1. PICK S \in SUBSET Leaf : n \in [S -> Version]
    BY Unders DEF AllNodes, Node
  <2> QED  BY <2>1
<1>2. ASSUME NEW S \in SUBSET Leaf, NEW f \in [S -> Version] PROVE f \in AllNodes
  BY Unders DEF AllNodes, Node
<1>3. ASSUME NEW p \in Path, NEW n, n \in Node(p) PROVE n \in AllNodes /\ DOMAIN n \subseteq Under(p)
  <2>1. PICK S \in SUBSET Under(p) : n \in [S -> Version]
    BY <1>3 DEF Node
  <2> QED  BY <1>2, <2>1, Unders
<1>4. ASSUME NEW p \in Path, NEW n, n \in AllNodes, DOMAIN n \subseteq Under(p) PROVE n \in Node(p)
  <2>1. n \in [DOMAIN n -> Version]
    BY <1>1, <1>4
  <2> QED  BY <1>4, <2>1 DEF Node
<1>5. Empty \in AllNodes /\ DOMAIN Empty = {}
  <2>1. DOMAIN Empty = {} /\ Empty \in [{} -> Version]
    BY DEF Empty
  <2> QED  BY <1>2, <2>1
<1>6. Version \subseteq Nat
  BY FiniteAssumption DEF Version
<1> QED  BY <1>1, <1>2, <1>3, <1>4, <1>5, <1>6

\* AllNodes with the same versions of the same events are the same node.
LEMMA SameNode ==
    ASSUME NEW m \in AllNodes, NEW n \in AllNodes, DOMAIN m = DOMAIN n,
           \A x \in DOMAIN m : m[x] = n[x]
    PROVE  m = n
BY NodeFacts

LEMMA CutFacts ==
    ASSUME NEW n \in AllNodes, NEW p \in Path
    PROVE  /\ Cut(n, p) \in AllNodes /\ DOMAIN Cut(n, p) = DOMAIN n \cap Under(p)
           /\ \A x \in DOMAIN n \cap Under(p) : Cut(n, p)[x] = n[x]
<1>1. Cut(n, p) \in [DOMAIN n \cap Under(p) -> Version]
  BY NodeFacts DEF Cut
<1>2. DOMAIN n \cap Under(p) \in SUBSET Leaf
  BY NodeFacts
<1> QED  BY <1>1, <1>2, NodeFacts DEF Cut

LEMMA LayFacts ==
    ASSUME NEW n \in AllNodes, NEW m \in AllNodes
    PROVE  /\ Lay(n, m) \in AllNodes /\ DOMAIN Lay(n, m) = DOMAIN n \cup DOMAIN m
           /\ \A x \in DOMAIN m : Lay(n, m)[x] = m[x]
           /\ \A x \in DOMAIN n \ DOMAIN m : Lay(n, m)[x] = n[x]
<1>1. Lay(n, m) \in [DOMAIN n \cup DOMAIN m -> Version]
  BY NodeFacts DEF Lay
<1>2. DOMAIN n \cup DOMAIN m \in SUBSET Leaf
  BY NodeFacts
<1> QED  BY <1>1, <1>2, NodeFacts DEF Lay

-----------------------------------------------------------------------------
(* The types.                                                              *)

Requests ==
    {m \in [kind : {"listen"}, path : Path, hash : AllNodes, current : BOOLEAN] :
        DOMAIN m.hash \subseteq Under(m.path)}
    \cup [kind : {"unlisten"}, path : Path]
Messages ==
    [kind : {"answer"}, path : Path, current : BOOLEAN]
    \cup {m \in [kind : {"data"}, path : Path, node : AllNodes] : DOMAIN m.node = Under(m.path)}
Events ==
    {e \in [to : Observer \cup {"closed"}, node : AllNodes] :
        e.to = "tab" => DOMAIN e.node \subseteq Under(Tab)}
Views == [full : BOOLEAN, node : AllNodes]

CacheTypes ==
    /\ regs \in [Path -> SUBSET Observer] /\ listens \subseteq Path
    /\ view \in [Path -> Views] /\ \A p \in Path : DOMAIN view[p].node \subseteq Under(p)
WireTypes ==
    /\ online \in BOOLEAN /\ heard \subseteq Path
    /\ up \in Seq(Requests) /\ down \in Seq(Messages)
DataTypes ==
    /\ db \in [Leaf -> Version]
    /\ counts \in [writes : Nat, visits : Nat, moves : Nat, drops : Nat]
    /\ counts.writes <= MaxWrites /\ \A x \in Leaf : db[x] <= counts.writes + 1
ScreenTypes ==
    /\ mainq \in Seq(Events)
    /\ tab \in [loaded : BOOLEAN, node : AllNodes] /\ DOMAIN tab.node \subseteq Under(Tab)
    /\ details \in [at : {"closed", "hidden", "visible"}, ref : Path, event : AllNodes]
    /\ teamIdGlobal \in Team
    /\ reads \in [Read -> {"new", "asked", "done"}]

Types == CacheTypes /\ WireTypes /\ DataTypes /\ ScreenTypes

LEMMA TypesOK == Types => TypeOK
<1> SUFFICES ASSUME Types PROVE TypeOK
  OBVIOUS
<1> USE DEF Types
<1>1. \A p \in Path : view[p] \in ViewType(p)
  <2> SUFFICES ASSUME NEW p \in Path PROVE view[p] \in ViewType(p)
    OBVIOUS
  <2>1. view[p] \in Views /\ view[p].node \in Node(p)
    BY NodeFacts DEF CacheTypes, Views
  <2> QED  BY <2>1 DEF Views, ViewType
<1>2. ASSUME NEW i \in DOMAIN up
      PROVE  \/ up[i].kind = "unlisten" /\ up[i].path \in Path
             \/ up[i].kind = "listen" /\ up[i].path \in Path /\ up[i].hash \in Node(up[i].path)
  <2>1. up[i] \in Requests
    BY ElementOfSeq, LenProperties DEF WireTypes
  <2> QED  BY <2>1, NodeFacts DEF Requests
<1>3. ASSUME NEW i \in DOMAIN down
      PROVE  \/ down[i].kind = "answer" /\ down[i].path \in Path
             \/ down[i].kind = "data" /\ down[i].node \in Node(down[i].path)
  <2>1. down[i] \in Messages
    BY ElementOfSeq, LenProperties DEF WireTypes
  <2> QED  BY <2>1, NodeFacts DEF Messages
<1>4. ASSUME NEW i \in DOMAIN mainq
      PROVE  mainq[i].to \in Observer \cup {"closed"} /\ mainq[i].node \in Node(Teams)
  <2>1. mainq[i] \in Events
    BY ElementOfSeq, LenProperties DEF ScreenTypes
  <2> QED  BY <2>1 DEF Events, AllNodes
<1>5. tab.node \in Node(Tab)
  BY NodeFacts, Tree DEF ScreenTypes
<1> QED
  BY <1>1, <1>2, <1>3, <1>4, <1>5 DEF TypeOK, CacheTypes, WireTypes, DataTypes, ScreenTypes

-----------------------------------------------------------------------------
(* The views.                                                              *)

\* A path without registrations has no view; a view that is not complete is
\* empty, save the tab's, which takes the events below it as they come.
Unviewed  == \A p \in Path : p \in Viewed \/ view[p] = NoView
HalfEmpty == \A p \in Path : p = Tab \/ view[p].full \/ view[p].node = Empty

\* What is complete holds all events below it; complete views agree; whatever
\* is below a complete view is complete.
FullHasAll == \A p \in Path : view[p].full => DOMAIN view[p].node = Under(p)
FullAgree  ==
    \A p, q \in Path : view[p].full /\ view[q].full =>
        \A x \in Under(p) \cap Under(q) : view[p].node[x] = view[q].node[x]
FullBelow  == \A p \in Viewed : \A q \in Over[p] : view[q].full => view[p].full

\* No details are opened before the tab's view is complete.
TabFirst == view[Tab].full \/ \A p \in Path \ {Tab, Teams} : regs[p] = {}

ViewsInv == Unviewed /\ HalfEmpty /\ FullHasAll /\ FullAgree /\ FullBelow

\* A new view is complete if one above it is, and starts empty otherwise.
LEMMA NewView ==
    ASSUME CacheTypes, ViewsInv, TabFirst, NEW p \in Path, p \notin Viewed
    PROVE  /\ CacheFor(p) \in Views /\ DOMAIN CacheFor(p).node \subseteq Under(p)
           /\ CacheFor(p).full =>
                \E q \in Over[p] : view[q].full /\ CacheFor(p).node = Cut(view[q].node, p)
           /\ ~CacheFor(p).full =>
                CacheFor(p).node = Empty /\ \A q \in Over[p] : ~view[q].full
<1> DEFINE above    == {q \in Over[p] : view[q].full}
           children == {q \in Path : Parent[q] = p /\ view[q].full}
           top      == CHOOSE q \in above : above \cap Over[q] = {}
<1>1. children = {}
  <2> SUFFICES ASSUME NEW q \in Path, Parent[q] = p, view[q].full PROVE FALSE
    OBVIOUS
  <2>1. p = Tab /\ q # Tab /\ q # Teams
    BY Tree
  <2>2. view[Tab] = NoView
    BY <2>1 DEF ViewsInv, Unviewed
  <2>3. regs[q] = {}
    BY <2>1, <2>2 DEF TabFirst, NoView
  <2>4. view[q] = NoView
    BY <2>3 DEF ViewsInv, Unviewed, Viewed
  <2> QED  BY <2>4 DEF NoView
<1>2. CASE above = {}
  <2>1. CacheFor(p) = [full |-> FALSE,
            node |-> [x \in UNION {DOMAIN view[q].node : q \in children} |->
                        view[CHOOSE q \in children : x \in DOMAIN view[q].node].node[x]]]
    BY <1>2 DEF CacheFor
  <2>2. UNION {DOMAIN view[q].node : q \in children} = {}
    BY <1>1
  <2>3. [x \in UNION {DOMAIN view[q].node : q \in children} |->
            view[CHOOSE q \in children : x \in DOMAIN view[q].node].node[x]] = Empty
    BY <2>2 DEF Empty
  <2>4. CacheFor(p) = [full |-> FALSE, node |-> Empty]
    BY <2>1, <2>3
  <2> QED  BY <1>2, <2>4, NodeFacts DEF Views
<1>3. CASE above # {}
  <2>1. top \in above
    <3>1. above \subseteq {Teams, Tab}
      BY Tree
    <3>2. \E q \in above : above \cap Over[q] = {}
      BY <1>3, <3>1, Tree
    <3>3. PICK A : A = above
      OBVIOUS
    <3>4. top = CHOOSE q \in A : A \cap Over[q] = {}
      BY <3>3
    <3>5. \E q \in A : A \cap Over[q] = {}
      BY <3>2, <3>3
    <3> HIDE DEF top, above
    <3>6. top \in A
      BY <3>4, <3>5
    <3> QED  BY <3>3, <3>6 DEF above
  <2>2. CacheFor(p) = [full |-> TRUE, node |-> Cut(view[top].node, p)]
    BY <1>3 DEF CacheFor
  <2> HIDE DEF top
  <2>3. top \in Over[p] /\ view[top].full /\ top \in Path
    BY <2>1, OverAssumption
  <2>4. view[top].node \in AllNodes
    BY <2>3 DEF CacheTypes, Views
  <2>5. PICK n \in AllNodes : n = Cut(view[top].node, p) /\ DOMAIN n \subseteq Under(p)
    BY <2>4, CutFacts
  <2>6. CacheFor(p) = [full |-> TRUE, node |-> n]
    BY <2>2, <2>5
  <2>7. CacheFor(p).full /\ CacheFor(p).node = n /\ CacheFor(p) \in Views
    BY <2>6 DEF Views
  <2> QED  BY <2>3, <2>5, <2>7
<1> QED  BY <1>2, <1>3

LEMMA NoViewFacts ==
    NoView \in Views /\ DOMAIN NoView.node = {} /\ ~NoView.full /\ NoView.node = Empty
BY NodeFacts DEF NoView, Views

ViewTypes == view \in [Path -> Views] /\ \A p \in Path : DOMAIN view[p].node \subseteq Under(p)

\* Views hold nothing that no view held before.
NothingNew ==
    \A q \in Path : \A x \in DOMAIN view'[q].node :
        \E r \in Path : x \in DOMAIN view[r].node /\ view'[q].node[x] = view[r].node[x]

LEMMA AddViews ==
    ASSUME CacheTypes, ViewsInv, TabFirst,
           NEW os \in SUBSET Observer, os # {}, NEW p \in Path, AddRegistrations(os, p)
    PROVE  /\ regs' = [regs EXCEPT ![p] = @ \cup os] /\ regs' \in [Path -> SUBSET Observer]
           /\ Viewed' = Viewed \cup {p} /\ ViewTypes' /\ ViewsInv' /\ NothingNew
           /\ \A q \in Path : q \in Viewed \/ q # p => view'[q] = view[q]
<1>1. regs' = [regs EXCEPT ![p] = @ \cup os] /\ regs' \in [Path -> SUBSET Observer]
  BY DEF AddRegistrations, CacheTypes
<1>2. Viewed' = Viewed \cup {p} /\ Viewed \subseteq Path
  BY <1>1 DEF Viewed, CacheTypes
<1>3. CASE p \in Viewed
  <2>1. view' = view /\ Viewed' = Viewed
    BY <1>2, <1>3 DEF AddRegistrations
  <2>2. ViewTypes' /\ NothingNew
    BY <2>1 DEF CacheTypes, ViewTypes, NothingNew
  <2>3. ViewsInv'
    BY <2>1 DEF ViewsInv, Unviewed, HalfEmpty, FullHasAll, FullAgree, FullBelow
  <2> QED  BY <1>1, <1>2, <2>1, <2>2, <2>3
<1>4. CASE p \notin Viewed
  <2>1. PICK w \in Views :
            /\ w = CacheFor(p) /\ DOMAIN w.node \subseteq Under(p)
            /\ w.full => \E q \in Over[p] : view[q].full /\ w.node = Cut(view[q].node, p)
            /\ ~w.full => w.node = Empty /\ \A q \in Over[p] : ~view[q].full
    BY <1>4, NewView
  <2>2. view' = [view EXCEPT ![p] = w]
    BY <1>4, <2>1 DEF AddRegistrations
  <2>3. /\ view \in [Path -> Views] /\ view' \in [Path -> Views] /\ view'[p] = w
        /\ \A q \in Path \ {p} : view'[q] = view[q]
    BY <2>2 DEF CacheTypes
  <2>4. ViewTypes'
    BY <2>1, <2>3 DEF CacheTypes, ViewTypes
  <2>5. ~view[p].full
    BY <1>4 DEF ViewsInv, Unviewed, NoView
  <2>6. ASSUME w.full
        PROVE  \E q \in Path : /\ q \in Over[p] /\ view[q].full
                               /\ DOMAIN w.node = Under(p) /\ Under(p) \subseteq Under(q)
                               /\ DOMAIN view[q].node = Under(q)
                               /\ \A x \in Under(p) : w.node[x] = view[q].node[x]
    <3>1. PICK q \in Over[p] : view[q].full /\ w.node = Cut(view[q].node, p)
      BY <2>1, <2>6
    <3>2. q \in Path /\ Under(p) \subseteq Under(q)
      BY OverAssumption, Unders
    <3>3. view[q].node \in AllNodes /\ DOMAIN view[q].node = Under(q)
      BY <2>3, <3>1, <3>2 DEF Views, ViewsInv, FullHasAll
    <3>4. DOMAIN w.node = Under(p) /\ \A x \in Under(p) : w.node[x] = view[q].node[x]
      <4>1. PICK n \in AllNodes : n = view[q].node
        BY <3>3
      <4>2. w.node = Cut(n, p) /\ DOMAIN n \cap Under(p) = Under(p)
        BY <3>1, <3>2, <3>3, <4>1
      <4>3. /\ DOMAIN Cut(n, p) = DOMAIN n \cap Under(p)
            /\ \A x \in DOMAIN n \cap Under(p) : Cut(n, p)[x] = n[x]
        BY CutFacts
      <4>4. PICK c : c = Cut(n, p) /\ c = w.node
        BY <4>2
      <4> QED  BY <4>1, <4>2, <4>3, <4>4
    <3> QED  BY <3>1, <3>2, <3>3, <3>4
  <2>7. Unviewed'
    BY <1>2, <2>3 DEF ViewsInv, Unviewed, NoView
  <2>8. HalfEmpty'
    BY <2>1, <2>3 DEF ViewsInv, HalfEmpty
  <2>9. FullHasAll'
    BY <2>3, <2>6 DEF ViewsInv, FullHasAll
  <2>10. FullAgree'
    <3>1. ASSUME NEW q \in Path \ {p}, w.full, view[q].full, NEW x \in Under(p), x \in Under(q)
          PROVE  w.node[x] = view[q].node[x]
      <4>1. PICK r \in Path : view[r].full /\ x \in Under(r) /\ w.node[x] = view[r].node[x]
        BY <2>6, <3>1
      <4> QED  BY <3>1, <4>1 DEF ViewsInv, FullAgree
    <3> QED  BY <2>3, <3>1 DEF ViewsInv, FullAgree
  <2>11. FullBelow'
    <3> SUFFICES ASSUME NEW q \in Viewed \cup {p}, NEW r \in Over[q], view'[r].full
                 PROVE  view'[q].full
      BY <1>2 DEF FullBelow
    <3>1. r \in Path /\ q \in Path /\ r # q
      BY <1>2, OverAssumption
    <3>2. CASE q = p
      BY <2>1, <2>3, <3>1, <3>2
    <3>3. CASE q # p /\ r # p
      BY <2>3, <3>1, <3>3 DEF ViewsInv, FullBelow
    <3>4. CASE r = p
      <4>1. PICK t \in Over[p] : view[t].full
        BY <2>3, <2>6, <3>4
      <4>2. t \in Over[q] /\ q \in Viewed /\ view'[q] = view[q]
        BY <2>3, <3>1, <3>4, <4>1, OverAssumption
      <4> QED  BY <4>1, <4>2 DEF ViewsInv, FullBelow
    <3> QED  BY <3>2, <3>3, <3>4
  <2>12. NothingNew
    <3> SUFFICES ASSUME NEW q \in Path, NEW x \in DOMAIN view'[q].node
                 PROVE  \E r \in Path : /\ x \in DOMAIN view[r].node
                                        /\ view'[q].node[x] = view[r].node[x]
      BY DEF NothingNew
    <3>1. CASE q # p
      BY <2>3, <3>1
    <3>2. CASE q = p
      <4>1. w.full
        BY <2>1, <2>3, <3>2, NodeFacts
      <4> QED  BY <2>3, <2>6, <3>2, <4>1
    <3> QED  BY <3>1, <3>2
  <2> QED  BY <1>1, <1>2, <1>4, <2>3, <2>4, <2>7, <2>8, <2>9, <2>10, <2>11, <2>12 DEF ViewsInv
<1> QED  BY <1>3, <1>4

LEMMA RemoveViews ==
    ASSUME CacheTypes, ViewsInv, NEW os, NEW p \in Path, RemoveRegistrations(os, p)
    PROVE  /\ regs' = [regs EXCEPT ![p] = @ \ os] /\ regs' \in [Path -> SUBSET Observer]
           /\ Viewed' = IF regs[p] \ os = {} THEN Viewed \ {p} ELSE Viewed
           /\ ViewTypes' /\ ViewsInv' /\ NothingNew
           /\ \A q \in Path : q \in Viewed' \/ q # p => view'[q] = view[q]
<1>1. regs' = [regs EXCEPT ![p] = @ \ os] /\ regs' \in [Path -> SUBSET Observer]
  BY DEF RemoveRegistrations, CacheTypes
<1>2. /\ Viewed' = (IF regs[p] \ os = {} THEN Viewed \ {p} ELSE Viewed)
      /\ Viewed \subseteq Path /\ Viewed' \subseteq Viewed
  BY <1>1 DEF Viewed, CacheTypes
<1>3. NoView \in Views /\ DOMAIN NoView.node = {} /\ ~NoView.full /\ NoView.node = Empty
  BY NoViewFacts
<1>4. /\ view \in [Path -> Views] /\ view' \in [Path -> Views]
      /\ \A q \in Path : q \in Viewed' \/ q # p => view'[q] = view[q]
      /\ \A q \in Path : view'[q] = view[q] \/ view'[q] = NoView
      /\ \A q \in Path \ Viewed' : view'[q] = NoView
  <2>1. view' = IF regs[p] \ os = {} THEN [view EXCEPT ![p] = NoView] ELSE view
    BY DEF RemoveRegistrations
  <2> QED  BY <1>2, <1>3, <2>1 DEF CacheTypes, ViewsInv, Unviewed
<1>5. ViewTypes' /\ NothingNew
  BY <1>3, <1>4 DEF CacheTypes, ViewTypes, NothingNew
<1>6. Unviewed' /\ HalfEmpty' /\ FullHasAll' /\ FullAgree'
  BY <1>3, <1>4 DEF ViewsInv, Unviewed, HalfEmpty, FullHasAll, FullAgree
<1>7. FullBelow'
  <2> SUFFICES ASSUME NEW q \in Viewed', NEW r \in Over[q], view'[r].full PROVE view'[q].full
    BY DEF FullBelow
  <2>1. r \in Path /\ q \in Viewed /\ view'[q] = view[q] /\ view'[r] = view[r]
    BY <1>2, <1>3, <1>4, OverAssumption
  <2> QED  BY <2>1 DEF ViewsInv, FullBelow
<1> QED  BY <1>1, <1>2, <1>4, <1>5, <1>6, <1>7 DEF ViewsInv

\* What a change of the server does to each view.
LEMMA OverwriteAt ==
    ASSUME CacheTypes, NEW c \in Path, NEW n \in AllNodes, DOMAIN n = Under(c), Overwrite(c, n),
           NEW p \in Path
    PROVE  /\ view'[p] \in Views /\ DOMAIN view'[p].node \subseteq Under(p)
           /\ p \notin Viewed => view'[p] = NoView
           /\ p \in Viewed /\ (p = c \/ c \in Over[p]) =>
                /\ view'[p].full /\ DOMAIN view'[p].node = Under(p) /\ Under(p) \subseteq Under(c)
                /\ \A x \in Under(p) : view'[p].node[x] = n[x]
           /\ p \in Viewed /\ p \in Over[c] /\ (view[p].full \/ Parent[c] = p) =>
                /\ view'[p].full = view[p].full /\ Under(c) \subseteq Under(p)
                /\ DOMAIN view'[p].node = DOMAIN view[p].node \cup Under(c)
                /\ \A x \in Under(c) : view'[p].node[x] = n[x]
                /\ \A x \in DOMAIN view[p].node \ Under(c) : view'[p].node[x] = view[p].node[x]
           /\ p \in Viewed /\ p # c /\ c \notin Over[p]
              /\ ~(p \in Over[c] /\ (view[p].full \/ Parent[c] = p)) => view'[p] = view[p]
<1>1. view[p] \in Views /\ view[p].node \in AllNodes /\ DOMAIN view[p].node \subseteq Under(p)
  BY DEF CacheTypes, Views
<1>2. p \in Over[c] => p # c /\ c \notin Over[p] /\ Under(c) \subseteq Under(p)
  BY OverAssumption, Unders
<1>3. view'[p] =
        IF p \notin Viewed THEN NoView ELSE
        CASE p = c \/ c \in Over[p] -> [full |-> TRUE, node |-> Cut(n, p)]
          [] p \in Over[c] /\ (view[p].full \/ Parent[c] = p)
                                    -> [view[p] EXCEPT !.node = Lay(@, n)]
          [] OTHER                  -> view[p]
  BY DEF Overwrite
<1>4. CASE p \notin Viewed
  <2>1. view'[p] = NoView
    BY <1>3, <1>4
  <2> QED  BY <1>4, <2>1, NoViewFacts
<1>5. CASE p \in Viewed /\ (p = c \/ c \in Over[p])
  <2>1. view'[p] = [full |-> TRUE, node |-> Cut(n, p)]
    BY <1>2, <1>3, <1>5
  <2>2. Under(p) \subseteq Under(c)
    BY <1>5, Unders
  <2>3. PICK m \in AllNodes : /\ m = Cut(n, p) /\ DOMAIN m = Under(p)
                              /\ \A x \in Under(p) : m[x] = n[x]
    <3>1. /\ Cut(n, p) \in AllNodes /\ DOMAIN Cut(n, p) = DOMAIN n \cap Under(p)
          /\ \A x \in DOMAIN n \cap Under(p) : Cut(n, p)[x] = n[x]
      BY CutFacts
    <3> QED  BY <2>2, <3>1
  <2>4. view'[p] \in Views /\ view'[p].full /\ view'[p].node = m
    BY <2>1, <2>3 DEF Views
  <2> QED  BY <1>2, <1>5, <2>2, <2>3, <2>4
<1>6. CASE p \in Viewed /\ p \in Over[c] /\ (view[p].full \/ Parent[c] = p)
  <2>1. view'[p] = [view[p] EXCEPT !.node = Lay(@, n)]
    BY <1>2, <1>3, <1>6
  <2>2. PICK v \in AllNodes : v = view[p].node
    BY <1>1
  <2>3. PICK m \in AllNodes : /\ m = Lay(v, n) /\ DOMAIN m = DOMAIN v \cup DOMAIN n
                              /\ \A x \in DOMAIN n : m[x] = n[x]
                              /\ \A x \in DOMAIN v \ DOMAIN n : m[x] = v[x]
    <3>1. /\ Lay(v, n) \in AllNodes /\ DOMAIN Lay(v, n) = DOMAIN v \cup DOMAIN n
          /\ \A x \in DOMAIN n : Lay(v, n)[x] = n[x]
          /\ \A x \in DOMAIN v \ DOMAIN n : Lay(v, n)[x] = v[x]
      BY LayFacts
    <3> QED  BY <3>1
  <2>4. view'[p] \in Views /\ view'[p].full = view[p].full /\ view'[p].node = m
    BY <1>1, <2>1, <2>2, <2>3 DEF Views
  <2> QED  BY <1>1, <1>2, <1>6, <2>2, <2>3, <2>4
<1>7. CASE p \in Viewed /\ p # c /\ c \notin Over[p]
           /\ ~(p \in Over[c] /\ (view[p].full \/ Parent[c] = p))
  <2>1. view'[p] = view[p]
    BY <1>3, <1>7
  <2> QED  BY <1>1, <1>7, <2>1
<1> QED  BY <1>4, <1>5, <1>6, <1>7

LEMMA OverwriteViews ==
    ASSUME CacheTypes, ViewsInv, TabFirst, UNCHANGED regs,
           NEW c \in Path, NEW n \in AllNodes, DOMAIN n = Under(c), Overwrite(c, n)
    PROVE  ViewTypes' /\ ViewsInv' /\ \A p \in Path : view[p].full => view'[p].full
<1>1. Viewed' = Viewed /\ Viewed \subseteq Path
  BY DEF Viewed
<1>2. ~NoView.full /\ NoView.node = Empty
  BY DEF NoView
<1>3. ViewTypes'
  <2>1. view' = [p \in Path |-> view'[p]]
    BY DEF Overwrite
  <2>2. \A p \in Path : view'[p] \in Views /\ DOMAIN view'[p].node \subseteq Under(p)
    BY OverwriteAt
  <2> QED  BY <2>1, <2>2 DEF ViewTypes
<1>4. Unviewed'
  BY <1>1, OverwriteAt DEF Unviewed
<1>5. \A p \in Path : view[p].full => p \in Viewed /\ view'[p].full
  BY <1>2, OverwriteAt DEF ViewsInv, Unviewed
<1>6. HalfEmpty'
  <2> SUFFICES ASSUME NEW p \in Path, p # Tab, ~view'[p].full PROVE view'[p].node = Empty
    BY DEF HalfEmpty
  <2>1. p \in Viewed => view'[p] = view[p]
    <3>1. Parent[c] # p
      BY Tree
    <3> QED  BY <1>5, <3>1, OverwriteAt
  <2> QED  BY <1>2, <2>1, OverwriteAt DEF ViewsInv, HalfEmpty
\* Whatever is complete then has the events of the change from it, and its
\* others as before.
<1>7. ASSUME NEW p \in Path, view'[p].full
      PROVE  /\ DOMAIN view'[p].node = Under(p)
             /\ \A x \in Under(p) \cap Under(c) : view'[p].node[x] = n[x]
             /\ \A x \in Under(p) \ Under(c) : view[p].full /\ view'[p].node[x] = view[p].node[x]
  <2>1. p \in Viewed
    BY <1>2, <1>7, OverwriteAt
  <2>2. CASE p = c \/ c \in Over[p]
    BY <2>1, <2>2, OverwriteAt
  <2>3. CASE p # c /\ c \notin Over[p] /\ p \in Over[c]
    <3>1. view[p].full
      BY <1>7, <2>1, <2>3, OverwriteAt
    <3>2. DOMAIN view[p].node = Under(p)
      BY <3>1 DEF ViewsInv, FullHasAll
    <3>3. /\ Under(c) \subseteq Under(p)
          /\ DOMAIN view'[p].node = DOMAIN view[p].node \cup Under(c)
          /\ \A x \in Under(c) : view'[p].node[x] = n[x]
          /\ \A x \in DOMAIN view[p].node \ Under(c) : view'[p].node[x] = view[p].node[x]
      BY <2>1, <2>3, <3>1, OverwriteAt
    <3> QED  BY <3>1, <3>2, <3>3
  <2>4. CASE p # c /\ c \notin Over[p] /\ p \notin Over[c]
    <3>1. view'[p] = view[p]
      BY <2>1, <2>4, OverwriteAt
    <3>2. Under(p) \cap Under(c) = {}
      BY <2>4, Unders
    <3> QED  BY <1>7, <3>1, <3>2 DEF ViewsInv, FullHasAll
  <2> QED  BY <2>2, <2>3, <2>4
<1>8. FullHasAll'
  BY <1>7 DEF FullHasAll
<1>9. FullAgree'
  <2> SUFFICES ASSUME NEW p \in Path, NEW q \in Path, view'[p].full, view'[q].full,
                      NEW x \in Under(p), x \in Under(q)
               PROVE  view'[p].node[x] = view'[q].node[x]
    BY DEF FullAgree
  <2>1. CASE x \in Under(c)
    BY <1>7, <2>1
  <2>2. CASE x \notin Under(c)
    <3>1. view[p].full /\ view'[p].node[x] = view[p].node[x]
      BY <1>7, <2>2
    <3>2. view[q].full /\ view'[q].node[x] = view[q].node[x]
      BY <1>7, <2>2
    <3> QED  BY <3>1, <3>2 DEF ViewsInv, FullAgree
  <2> QED  BY <2>1, <2>2
<1>10. FullBelow'
  <2> SUFFICES ASSUME NEW p \in Viewed, NEW q \in Over[p], view'[q].full PROVE view'[p].full
    BY <1>1 DEF FullBelow
  <2>1. p \in Path /\ q \in Path
    BY <1>1, OverAssumption
  <2>2. CASE p = c \/ c \in Over[p]
    BY <2>1, <2>2, OverwriteAt
  <2>3. CASE ~(p = c \/ c \in Over[p])
    <3>1. q # c /\ c \notin Over[q]
      BY <2>1, <2>3, OverAssumption
    <3>2. view[q].full
      <4>1. q \in Viewed
        BY <1>2, <2>1, OverwriteAt
      <4> QED  BY <2>1, <3>1, <4>1, OverwriteAt
    <3> QED  BY <1>5, <2>1, <3>2 DEF ViewsInv, FullBelow
  <2> QED  BY <2>2, <2>3
<1> QED  BY <1>3, <1>4, <1>5, <1>6, <1>8, <1>9, <1>10 DEF ViewsInv

\* What the answer to a listen does to the views, if the view at its path holds
\* all that is below the path.
LEMMA AnswerViews ==
    ASSUME CacheTypes, ViewsInv, TabFirst, UNCHANGED regs,
           NEW c \in Path, c \in Viewed, DOMAIN view[c].node = Under(c),
           view' = [p \in Path |-> IF p \in Viewed /\ (p = c \/ c \in Over[p])
                                   THEN [view[p] EXCEPT !.full = TRUE] ELSE view[p]]
    PROVE  /\ ViewTypes' /\ ViewsInv' /\ view'[c].full
           /\ \A p \in Path : /\ view'[p].node = view[p].node /\ (view[p].full => view'[p].full)
                              /\ view'[p] = view[p] \/ view'[p].full
<1>1. Viewed' = Viewed /\ Viewed \subseteq Path
  BY DEF Viewed
<1>2. ASSUME NEW p \in Path
      PROVE  /\ view'[p] \in Views /\ view'[p].node = view[p].node
             /\ view'[p].full = (view[p].full \/ (p \in Viewed /\ (p = c \/ c \in Over[p])))
  <2>1. view[p] \in Views
    BY DEF CacheTypes
  <2> QED  BY <2>1 DEF Views
<1>3. ASSUME NEW p \in Path PROVE view'[p] = view[p] \/ view'[p].full
  BY <1>2
<1>4. ViewTypes'
  BY <1>2 DEF CacheTypes, ViewTypes
<1>5. Unviewed' /\ HalfEmpty'
  BY <1>1, <1>2 DEF ViewsInv, Unviewed, HalfEmpty
<1>6. FullBelow'
  BY <1>1, <1>2, OverAssumption DEF ViewsInv, FullBelow
<1>7. \A p \in Path : view[p].full => p \in Viewed
  BY NoViewFacts DEF ViewsInv, Unviewed
\* What becomes complete is the view at the path, or there are no events.
<1>8. ASSUME NEW p \in Path, view'[p].full, ~view[p].full, Under(p) # {}
      PROVE  p = c /\ c = Tab /\ ~view[Tab].full
  <2>1. p \in Viewed /\ (p = c \/ c \in Over[p])
    BY <1>2, <1>8
  <2>2. ~view[c].full
    BY <1>8, <2>1 DEF ViewsInv, FullBelow
  <2>3. c = Tab
    <3> SUFFICES ASSUME c # Tab PROVE FALSE
      OBVIOUS
    <3>1. view[c].node = Empty
      BY <2>2 DEF ViewsInv, HalfEmpty
    <3>2. Under(c) = {}
      BY <3>1, NodeFacts
    <3>3. Under(p) \subseteq Under(c)
      BY <2>1, Unders
    <3> QED  BY <1>8, <3>2, <3>3
  <2>4. p # c => p \notin {Tab, Teams}
    BY <2>1, <2>3, Tree
  <2>5. p = c
    BY <2>1, <2>2, <2>3, <2>4 DEF TabFirst, Viewed
  <2> QED  BY <2>2, <2>3, <2>5
<1>9. FullHasAll'
  <2> SUFFICES ASSUME NEW p \in Path, view'[p].full PROVE DOMAIN view[p].node = Under(p)
    BY <1>2 DEF FullHasAll
  <2>1. CASE view[p].full
    BY <2>1 DEF ViewsInv, FullHasAll
  <2>2. CASE ~view[p].full /\ Under(p) = {}
    BY <2>2 DEF CacheTypes
  <2>3. CASE ~view[p].full /\ Under(p) # {}
    BY <1>8, <2>3
  <2> QED  BY <2>1, <2>2, <2>3
<1>10. FullAgree'
  <2>1. ASSUME NEW p \in Path, NEW q \in Path, view'[p].full, ~view[p].full, view'[q].full,
               NEW x \in Under(p), x \in Under(q)
        PROVE  p = q
    <3>1. p = Tab /\ c = Tab /\ ~view[Tab].full
      BY <1>8, <2>1
    <3>2. CASE view[q].full
      <4>1. q \in Viewed /\ q # Tab
        BY <1>7, <3>1, <3>2
      <4>2. q = Teams
        BY <3>1, <4>1 DEF TabFirst, Viewed
      <4>3. view[Tab].full
        BY <3>1, <3>2, <4>2, Tree DEF ViewsInv, FullBelow
      <4> QED  BY <3>1, <4>3
    <3>3. CASE ~view[q].full
      BY <1>8, <2>1, <3>1, <3>3
    <3> QED  BY <3>2, <3>3
  <2> SUFFICES ASSUME NEW p \in Path, NEW q \in Path, view'[p].full, view'[q].full,
                      NEW x \in Under(p), x \in Under(q)
               PROVE  view[p].node[x] = view[q].node[x]
    BY <1>2 DEF FullAgree
  <2>2. CASE view[p].full /\ view[q].full
    BY <2>2 DEF ViewsInv, FullAgree
  <2>3. CASE ~view[p].full \/ ~view[q].full
    <3>1. p = q
      BY <2>1, <2>3
    <3> QED  BY <3>1
  <2> QED  BY <2>2, <2>3
<1> QED  BY <1>2, <1>3, <1>4, <1>5, <1>6, <1>9, <1>10 DEF ViewsInv

-----------------------------------------------------------------------------
(* The wire.                                                               *)

Asks(q)    == {m \in Requests : m.kind = "listen" /\ m.path = q /\ m.current}
Stops(q)   == {m \in Requests : m.kind = "unlisten" /\ m.path = q}
Answers(q) == {m \in Messages : m.kind = "answer" /\ m.path = q /\ m.current}
Data(q)    == {m \in Messages : m.kind = "data" /\ m.path = q}
Tells(x)   == {m \in Messages : m.kind = "data" /\ x \in DOMAIN m.node /\ m.node[x] = db[x]}

\* What is lost with a connection; what is current belongs to a listen.
OfflineQuiet    == online \/ (up = <<>> /\ down = <<>> /\ heard = {})
CurrentListened == \A q \in Path : Has(up, Asks(q)) \/ Has(down, Answers(q)) => q \in listens

\* The hash sent with a listen is of versions the view still has, or newer.
Behind(m) == \A q \in Path : m \in Asks(q) =>
                \A x \in DOMAIN m.hash : x \in DOMAIN view[q].node /\ m.hash[x] <= view[q].node[x]
HashHeld  == \A i \in DOMAIN up : Behind(up[i])

\* A path that is listened to again asks for it after what stops it, and
\* before the answer comes the data, unless the view has all of it.
StopsFollowed  == \A q \in listens : Follows(up, Stops(q), Asks(q))
AnswersPreceded ==
    \A q \in Path : DOMAIN view[q].node = Under(q) \/ Precedes(down, Answers(q), Data(q))

\* Versions only grow on their way from the server to the views.
InOrder ==
    /\ \A p \in Path : \A x \in DOMAIN view[p].node : view[p].node[x] <= db[x]
    /\ \A p \in Path : \A i \in DOMAIN down : down[i].kind = "data" =>
            \A x \in DOMAIN down[i].node \cap DOMAIN view[p].node :
                view[p].node[x] <= down[i].node[x]
    /\ \A i \in DOMAIN down : down[i].kind = "data" =>
            \A x \in DOMAIN down[i].node : down[i].node[x] <= db[x]
    /\ Sorted(down)

\* Every listen is about to be heard of, or the server has heard of it.
UpToDate(q, x) == x \in DOMAIN view[q].node /\ view[q].node[x] = db[x]
HeardOf(q) ==
    /\ q \in heard /\ ~Has(up, Stops(q))
    /\ view[q].full \/ Has(down, Answers(q))
    /\ DOMAIN view[q].node = Under(q) \/ Has(down, Data(q))
    /\ \A x \in Under(q) : Has(down, Tells(x)) \/ UpToDate(q, x)
ListensHeard == online => \A q \in listens : Has(up, Asks(q)) \/ HeardOf(q)

WireInv == /\ OfflineQuiet /\ CurrentListened /\ HashHeld /\ StopsFollowed
           /\ AnswersPreceded /\ InOrder /\ ListensHeard

\* What outdating the listens at some paths leaves as it is.
LEMMA OutdateUp ==
    ASSUME NEW S \in SUBSET Path, NEW s \in Seq(Requests)
    PROVE  /\ Outdate(S, s) \in Seq(Requests) /\ DOMAIN Outdate(S, s) = DOMAIN s
           /\ \A i \in DOMAIN s : \A q \in Path :
                /\ Outdate(S, s)[i] \in Stops(q) <=> s[i] \in Stops(q)
                /\ Outdate(S, s)[i] \in Asks(q) =>
                        q \notin S /\ Outdate(S, s)[i] = s[i]
                /\ s[i] \in Asks(q) /\ q \notin S => Outdate(S, s)[i] = s[i]
<1>1. PICK n \in Nat : DOMAIN s = 1..n
  BY LenProperties
<1>2. PICK r : r = Outdate(S, s)
  OBVIOUS
<1>3. /\ DOMAIN r = 1..n
      /\ \A i \in 1..n : r[i] = IF s[i].path \in S /\ s[i].kind \in {"listen", "answer"}
                                THEN [s[i] EXCEPT !.current = FALSE] ELSE s[i]
  BY <1>1, <1>2 DEF Outdate
<1>4. ASSUME NEW i \in 1..n
      PROVE  /\ r[i] \in Requests
             /\ \A q \in Path : /\ r[i] \in Stops(q) <=> s[i] \in Stops(q)
                                /\ r[i] \in Asks(q) => q \notin S /\ r[i] = s[i]
                                /\ s[i] \in Asks(q) /\ q \notin S => r[i] = s[i]
  <2>1. PICK m \in Requests : m = s[i]
    BY <1>1, ElementOfSeq, LenProperties
  <2>2. CASE m.path \in S /\ m.kind = "listen"
    <3>1. PICK o : o = [m EXCEPT !.current = FALSE]
      OBVIOUS
    <3>2. o \in Requests /\ o.kind = "listen" /\ o.path = m.path /\ ~o.current /\ r[i] = o
      BY <1>3, <2>1, <2>2, <3>1 DEF Requests
    <3> QED  BY <2>1, <2>2, <3>2 DEF Stops, Asks
  <2>3. CASE ~(m.path \in S /\ m.kind = "listen")
    <3>1. r[i] = m
      BY <1>3, <2>1, <2>3 DEF Requests
    <3> QED  BY <2>1, <2>3, <3>1 DEF Stops, Asks
  <2> QED  BY <2>2, <2>3
<1>5. r \in Seq(Requests)
  <2>1. r = [i \in 1..n |-> r[i]]
    BY <1>1, <1>2 DEF Outdate
  <2>2. r \in [1..n -> Requests]
    BY <1>4, <2>1
  <2> QED  BY <2>2, SeqDef
<1> QED  BY <1>1, <1>2, <1>3, <1>4, <1>5

LEMMA OutdateDown ==
    ASSUME NEW S \in SUBSET Path, NEW s \in Seq(Messages)
    PROVE  /\ Outdate(S, s) \in Seq(Messages) /\ DOMAIN Outdate(S, s) = DOMAIN s
           /\ \A i \in DOMAIN s :
                /\ s[i].kind = "data" \/ Outdate(S, s)[i].kind = "data" => Outdate(S, s)[i] = s[i]
                /\ \A q \in Path :
                    /\ Outdate(S, s)[i] \in Answers(q) =>
                            q \notin S /\ Outdate(S, s)[i] = s[i]
                    /\ s[i] \in Answers(q) /\ q \notin S => Outdate(S, s)[i] = s[i]
<1>1. PICK n \in Nat : DOMAIN s = 1..n
  BY LenProperties
<1>2. PICK r : r = Outdate(S, s)
  OBVIOUS
<1>3. /\ DOMAIN r = 1..n
      /\ \A i \in 1..n : r[i] = IF s[i].path \in S /\ s[i].kind \in {"listen", "answer"}
                                THEN [s[i] EXCEPT !.current = FALSE] ELSE s[i]
  BY <1>1, <1>2 DEF Outdate
<1>4. ASSUME NEW i \in 1..n
      PROVE  /\ r[i] \in Messages
             /\ s[i].kind = "data" \/ r[i].kind = "data" => r[i] = s[i]
             /\ \A q \in Path : /\ r[i] \in Answers(q) => q \notin S /\ r[i] = s[i]
                                /\ s[i] \in Answers(q) /\ q \notin S => r[i] = s[i]
  <2>1. PICK m \in Messages : m = s[i]
    BY <1>1, ElementOfSeq, LenProperties
  <2>2. CASE m.path \in S /\ m.kind = "answer"
    <3>1. PICK o : o = [m EXCEPT !.current = FALSE]
      OBVIOUS
    <3>2. o \in Messages /\ o.kind = "answer" /\ o.path = m.path /\ ~o.current /\ r[i] = o
      BY <1>3, <2>1, <2>2, <3>1 DEF Messages
    <3> QED  BY <2>1, <2>2, <3>2 DEF Answers
  <2>3. CASE ~(m.path \in S /\ m.kind = "answer")
    <3>1. r[i] = m
      BY <1>3, <2>1, <2>3 DEF Messages
    <3> QED  BY <2>1, <2>3, <3>1 DEF Answers
  <2> QED  BY <2>2, <2>3
<1>5. r \in Seq(Messages)
  <2>1. r = [i \in 1..n |-> r[i]]
    BY <1>1, <1>2 DEF Outdate
  <2>2. r \in [1..n -> Messages]
    BY <1>4, <2>1
  <2> QED  BY <2>2, SeqDef
<1> QED  BY <1>1, <1>2, <1>3, <1>4, <1>5

\* The listens and unlistens that are sent when listens move.
LEMMA SentListens ==
    ASSUME ViewTypes', NEW S \in SUBSET Path, NEW on \in SetToSeqs(S)
    PROVE  LET ons == [i \in DOMAIN on |-> ListenTo(on[i])]
           IN  /\ ons \in Seq(Requests)
               /\ \A q \in S : Has(ons, Asks(q))
               /\ \A i \in DOMAIN ons : \A q \in Path : ons[i] \notin Stops(q)
               /\ \A i \in DOMAIN ons : \A q \in Path :
                        ons[i] \in Asks(q) => q \in S /\ ons[i].hash = view'[q].node
<1> DEFINE ons == [i \in DOMAIN on |-> ListenTo(on[i])]
<1>1. IsFiniteSet(S)
  BY FiniteAssumption, FS_Subset
<1>2. on \in Seq(S) /\ \A q \in S : \E i \in DOMAIN on : on[i] = q
  BY <1>1, Listed
<1>3. PICK n \in Nat : DOMAIN on = 1..n /\ \A i \in 1..n : on[i] \in S
  BY <1>2, LenProperties, ElementOfSeq
<1>4. ASSUME NEW q \in S
      PROVE  /\ ListenTo(q) \in Requests /\ ListenTo(q) \in Asks(q)
             /\ ListenTo(q).kind = "listen" /\ ListenTo(q).path = q
             /\ ListenTo(q).hash = view'[q].node
  <2>1. view'[q] \in Views /\ DOMAIN view'[q].node \subseteq Under(q)
    BY DEF ViewTypes
  <2>2. PICK m : m = [kind |-> "listen", path |-> q, hash |-> view'[q].node, current |-> TRUE]
    OBVIOUS
  <2>3. m \in Requests /\ m.kind = "listen" /\ m.path = q /\ m.current /\ m.hash = view'[q].node
    BY <2>1, <2>2 DEF Requests, Views
  <2> QED  BY <2>2, <2>3 DEF ListenTo, Asks
<1>5. DOMAIN ons = 1..n /\ \A i \in 1..n : ons[i] = ListenTo(on[i])
  BY <1>3
<1>6. ons \in Seq(Requests)
  <2>1. ons \in [1..n -> Requests]
    BY <1>3, <1>4
  <2> QED  BY <2>1, SeqDef
<1>7. ASSUME NEW q \in S PROVE Has(ons, Asks(q))
  <2>1. PICK i \in 1..n : on[i] = q
    BY <1>2, <1>3
  <2> QED  BY <1>4, <1>5, <2>1 DEF Has
<1>8. ASSUME NEW i \in 1..n, NEW q \in Path
      PROVE  ons[i] \notin Stops(q) /\ (ons[i] \in Asks(q) => q \in S /\ ons[i].hash = view'[q].node)
  <2>1. PICK r \in S : r = on[i] /\ ons[i] = ListenTo(r)
    BY <1>3, <1>5
  <2> QED  BY <1>4, <2>1 DEF Asks, Stops
<1> QED  BY <1>5, <1>6, <1>7, <1>8

LEMMA SentUnlistens ==
    ASSUME NEW S \in SUBSET Path, NEW off \in SetToSeqs(S)
    PROVE  LET offs == [i \in DOMAIN off |-> UnlistenTo(off[i])]
           IN  /\ offs \in Seq(Requests)
               /\ \A i \in DOMAIN offs : \A q \in Path :
                        offs[i] \notin Asks(q) /\ (offs[i] \in Stops(q) => q \in S)
<1> DEFINE offs == [i \in DOMAIN off |-> UnlistenTo(off[i])]
<1>1. IsFiniteSet(S)
  BY FiniteAssumption, FS_Subset
<1>2. off \in Seq(S)
  BY <1>1, Listed
<1>3. PICK n \in Nat : DOMAIN off = 1..n /\ \A i \in 1..n : off[i] \in S
  BY <1>2, LenProperties, ElementOfSeq
<1>4. ASSUME NEW q \in S
      PROVE  /\ UnlistenTo(q) \in Requests
             /\ UnlistenTo(q).kind = "unlisten" /\ UnlistenTo(q).path = q
  BY DEF UnlistenTo, Requests
<1>5. DOMAIN offs = 1..n /\ \A i \in 1..n : offs[i] = UnlistenTo(off[i])
  BY <1>3
<1>6. offs \in Seq(Requests)
  <2>1. offs \in [1..n -> Requests]
    BY <1>3, <1>4
  <2> QED  BY <2>1, SeqDef
<1>7. ASSUME NEW i \in 1..n, NEW q \in Path
      PROVE  offs[i] \notin Asks(q) /\ (offs[i] \in Stops(q) => q \in S)
  <2>1. PICK r \in S : r = off[i] /\ offs[i] = UnlistenTo(r)
    BY <1>3, <1>5
  <2> QED  BY <1>4, <2>1 DEF Asks, Stops
<1> QED  BY <1>5, <1>6, <1>7

\* The requests after listens moved: those to stop are no longer current, and
\* those to start are asked for after everything else.
LEMMA MoveUp ==
    ASSUME WireTypes, WireInv, ViewTypes', UNCHANGED online,
           NEW start \in SUBSET Path, NEW stop \in SUBSET Path, start \cap stop = {},
           SendListens(start, stop)
    PROVE  /\ up' \in Seq(Requests) /\ (~online => up' = <<>>)
           /\ \A q \in Path \ stop : Has(up, Asks(q)) => Has(up', Asks(q))
           /\ \A q \in start : online => Has(up', Asks(q))
           /\ \A q \in Path : Has(up', Asks(q)) => q \notin stop /\ (q \in start \/ Has(up, Asks(q)))
           /\ \A q \in Path \ stop : Has(up', Stops(q)) => Has(up, Stops(q))
           /\ \A q \in Path \ stop : \/ Follows(up, Stops(q), Asks(q))
                                     \/ q \in start
                                     => Follows(up', Stops(q), Asks(q))
           /\ \A B : /\ \A i \in DOMAIN up : \A q \in Path \ stop :
                            up[i] \in Asks(q) => up[i] \notin B
                     /\ \A q \in start : \A m \in Asks(q) : m.hash = view'[q].node => m \notin B
                     /\ B \subseteq UNION {Asks(q) : q \in Path}
                     => ~Has(up', B)
<1>1. CASE ~online
  <2>1. up = <<>> /\ up' = <<>>
    BY <1>1 DEF WireInv, OfflineQuiet, SendListens
  <2>2. up' \in Seq(Requests)
    BY <2>1, EmptySeq
  <2>3. \A i \in DOMAIN up' : FALSE
    BY <2>1
  <2> QED  BY <1>1, <2>1, <2>2, <2>3 DEF Has, Follows
<1>2. CASE online
  <2>1. PICK on \in SetToSeqs(start), off \in SetToSeqs(stop) :
            up' = (Outdate(stop, up) \o [i \in DOMAIN on |-> ListenTo(on[i])])
                  \o [i \in DOMAIN off |-> UnlistenTo(off[i])]
    BY <1>2 DEF SendListens
  <2>2. PICK o \in Seq(Requests) :
            /\ o = Outdate(stop, up) /\ DOMAIN o = DOMAIN up
            /\ \A i \in DOMAIN up : \A q \in Path :
                /\ o[i] \in Stops(q) <=> up[i] \in Stops(q)
                /\ o[i] \in Asks(q) => q \notin stop /\ o[i] = up[i]
                /\ up[i] \in Asks(q) /\ q \notin stop => o[i] = up[i]
    <3>1. up \in Seq(Requests)
      BY DEF WireTypes
    <3>2. /\ Outdate(stop, up) \in Seq(Requests) /\ DOMAIN Outdate(stop, up) = DOMAIN up
          /\ \A i \in DOMAIN up : \A q \in Path :
                /\ Outdate(stop, up)[i] \in Stops(q) <=> up[i] \in Stops(q)
                /\ Outdate(stop, up)[i] \in Asks(q) =>
                        q \notin stop /\ Outdate(stop, up)[i] = up[i]
                /\ up[i] \in Asks(q) /\ q \notin stop => Outdate(stop, up)[i] = up[i]
      BY <3>1, OutdateUp
    <3> QED  BY <3>2
  <2>3. PICK ons \in Seq(Requests) :
            /\ ons = [i \in DOMAIN on |-> ListenTo(on[i])]
            /\ \A q \in start : Has(ons, Asks(q))
            /\ \A i \in DOMAIN ons : \A q \in Path : ons[i] \notin Stops(q)
            /\ \A i \in DOMAIN ons : \A q \in Path :
                    ons[i] \in Asks(q) => q \in start /\ ons[i].hash = view'[q].node
    <3> DEFINE sent == [i \in DOMAIN on |-> ListenTo(on[i])]
    <3>1. /\ sent \in Seq(Requests)
          /\ \A q \in start : Has(sent, Asks(q))
          /\ \A i \in DOMAIN sent : \A q \in Path : sent[i] \notin Stops(q)
          /\ \A i \in DOMAIN sent : \A q \in Path :
                sent[i] \in Asks(q) => q \in start /\ sent[i].hash = view'[q].node
      BY SentListens
    <3>2. PICK ons : ons = sent
      OBVIOUS
    <3> HIDE DEF sent
    <3> QED  BY <3>1, <3>2 DEF sent
  <2>4. PICK offs \in Seq(Requests) :
            /\ offs = [i \in DOMAIN off |-> UnlistenTo(off[i])]
            /\ \A i \in DOMAIN offs : \A q \in Path :
                    offs[i] \notin Asks(q) /\ (offs[i] \in Stops(q) => q \in stop)
    <3> DEFINE sent == [i \in DOMAIN off |-> UnlistenTo(off[i])]
    <3>1. /\ sent \in Seq(Requests)
          /\ \A i \in DOMAIN sent : \A q \in Path :
                sent[i] \notin Asks(q) /\ (sent[i] \in Stops(q) => q \in stop)
      BY SentUnlistens
    <3>2. PICK offs : offs = sent
      OBVIOUS
    <3> HIDE DEF sent
    <3> QED  BY <3>1, <3>2 DEF sent
  <2>5. PICK s \in Seq(Requests) : s = o \o ons
    BY ConcatAt
  <2>6. up' = s \o offs
    BY <2>1, <2>2, <2>3, <2>4, <2>5
  <2>7. up' \in Seq(Requests)
    BY <2>6, ConcatAt
  <2>8. /\ \A G : Has(s, G) <=> Has(o, G) \/ Has(ons, G)
        /\ \A G : Has(up', G) <=> Has(o, G) \/ Has(ons, G) \/ Has(offs, G)
    <3>1. \A G : Has(s, G) <=> Has(o, G) \/ Has(ons, G)
      BY <2>5, ConcatHas
    <3>2. \A G : Has(up', G) <=> Has(s, G) \/ Has(offs, G)
      BY <2>6, ConcatHas
    <3> QED  BY <3>1, <3>2
  <2>9. ASSUME NEW q \in Path
        PROVE  /\ Has(o, Stops(q)) <=> Has(up, Stops(q))
               /\ Has(o, Asks(q)) <=> (q \notin stop /\ Has(up, Asks(q)))
               /\ ~Has(ons, Stops(q)) /\ (Has(ons, Asks(q)) => q \in start)
               /\ ~Has(offs, Asks(q)) /\ (Has(offs, Stops(q)) => q \in stop)
    BY <2>2, <2>3, <2>4 DEF Has
  <2>10. ASSUME NEW q \in Path \ stop, Follows(up, Stops(q), Asks(q)) \/ q \in start
         PROVE  Follows(up', Stops(q), Asks(q))
    <3>1. Follows(up, Stops(q), Asks(q)) => Follows(o, Stops(q), Asks(q))
      BY <2>2 DEF Follows
    <3>2. Follows(o, Stops(q), Asks(q)) \/ Has(ons, Asks(q))
      BY <2>3, <2>10, <3>1
    <3>3. Follows(s, Stops(q), Asks(q))
      <4>1. ~Has(ons, Stops(q))
        BY <2>9
      <4>2. PICK B, G : B = Stops(q) /\ G = Asks(q)
        OBVIOUS
      <4>3. Follows(o, B, G) \/ Has(ons, G)
        BY <3>2, <4>2
      <4>4. Follows(o \o ons, B, G)
        BY <4>1, <4>2, <4>3, ConcatHas
      <4> QED  BY <2>5, <4>2, <4>4
    <3>4. ~Has(offs, Stops(q))
      BY <2>9
    <3> QED  BY <2>6, <3>3, <3>4, ConcatHas
  <2>11. ASSUME NEW B,
                \A i \in DOMAIN up : \A q \in Path \ stop : up[i] \in Asks(q) => up[i] \notin B,
                \A q \in start : \A m \in Asks(q) : m.hash = view'[q].node => m \notin B,
                B \subseteq UNION {Asks(q) : q \in Path}
         PROVE  ~Has(up', B)
    <3>1. ~Has(o, B)
      BY <2>2, <2>11 DEF Has
    <3>2. ~Has(ons, B)
      BY <2>3, <2>11 DEF Has
    <3>3. ~Has(offs, B)
      BY <2>4, <2>11 DEF Has
    <3> QED  BY <2>8, <3>1, <3>2, <3>3
  <2>12. /\ \A q \in Path \ stop : Has(up, Asks(q)) => Has(up', Asks(q))
         /\ \A q \in start : Has(up', Asks(q))
         /\ \A q \in Path : Has(up', Asks(q)) =>
                                q \notin stop /\ (q \in start \/ Has(up, Asks(q)))
         /\ \A q \in Path \ stop : Has(up', Stops(q)) => Has(up, Stops(q))
    BY <2>3, <2>8, <2>9
  <2> QED  BY <1>2, <2>7, <2>10, <2>11, <2>12
<1> QED  BY <1>1, <1>2

\* The messages: the answers to what was stopped are no longer current.
LEMMA MoveDown ==
    ASSUME WireTypes, NEW stop \in SUBSET Path, down' = Outdate(stop, down)
    PROVE  /\ down' \in Seq(Messages) /\ DOMAIN down' = DOMAIN down
           /\ \A i \in DOMAIN down : down'[i].kind = "data" \/ down[i].kind = "data"
                                        => down'[i] = down[i]
           /\ \A q \in Path : Has(down', Answers(q)) <=> q \notin stop /\ Has(down, Answers(q))
           /\ \A G : (\A m \in G : m.kind = "data") => (Has(down', G) <=> Has(down, G))
           /\ \A q \in Path \ stop : Precedes(down, Answers(q), Data(q)) =>
                                        Precedes(down', Answers(q), Data(q))
           /\ Sorted(down) => Sorted(down')
<1>1. PICK d \in Seq(Messages) :
        /\ d = down' /\ DOMAIN d = DOMAIN down
        /\ \A i \in DOMAIN down :
            /\ down[i].kind = "data" \/ d[i].kind = "data" => d[i] = down[i]
            /\ \A q \in Path : /\ d[i] \in Answers(q) => q \notin stop /\ d[i] = down[i]
                               /\ down[i] \in Answers(q) /\ q \notin stop => d[i] = down[i]
  <2>1. down \in Seq(Messages)
    BY DEF WireTypes
  <2>2. /\ Outdate(stop, down) \in Seq(Messages) /\ DOMAIN Outdate(stop, down) = DOMAIN down
        /\ \A i \in DOMAIN down :
            /\ down[i].kind = "data" \/ Outdate(stop, down)[i].kind = "data" =>
                    Outdate(stop, down)[i] = down[i]
            /\ \A q \in Path :
                /\ Outdate(stop, down)[i] \in Answers(q) =>
                        q \notin stop /\ Outdate(stop, down)[i] = down[i]
                /\ down[i] \in Answers(q) /\ q \notin stop => Outdate(stop, down)[i] = down[i]
    BY <2>1, OutdateDown
  <2> QED  BY <2>2
<1>2. ASSUME NEW q \in Path
      PROVE  Has(d, Answers(q)) <=> q \notin stop /\ Has(down, Answers(q))
  BY <1>1 DEF Has
<1>3. ASSUME NEW G, \A m \in G : m.kind = "data" PROVE Has(d, G) <=> Has(down, G)
  BY <1>1, <1>3 DEF Has
<1>4. ASSUME NEW q \in Path \ stop, Precedes(down, Answers(q), Data(q))
      PROVE  Precedes(d, Answers(q), Data(q))
  BY <1>1, <1>4 DEF Precedes, Data
<1>5. ASSUME Sorted(down) PROVE Sorted(d)
  BY <1>1, <1>5 DEF Sorted, NotNewer
<1> QED  BY <1>1, <1>2, <1>3, <1>4, <1>5

\* Moving the listens keeps all that is said about the wire.
LEMMA MoveWire ==
    ASSUME CacheTypes, WireTypes, DataTypes, WireInv, ViewTypes',
           NEW start \in SUBSET Path, NEW stop \in SUBSET Path, start \cap stop = {},
           SendListens(start, stop), UNCHANGED <<online, heard, db>>, NothingNew,
           \A q \in listens \ stop : view'[q] = view[q]
    PROVE  WireTypes' /\ listens' \in SUBSET Path /\ WireInv'
<1>1. /\ listens' = (listens \cup start) \ stop /\ down' = Outdate(stop, down)
      /\ listens \subseteq Path
  BY DEF SendListens, CacheTypes
<1>2. UNCHANGED online /\ db' = db /\ heard' = heard
  OBVIOUS
<1> DEFINE Held(m) == \A q \in Path : m \in Asks(q) =>
                        \A x \in DOMAIN m.hash : /\ x \in DOMAIN view'[q].node
                                                 /\ m.hash[x] <= view'[q].node[x]
           Ahead   == {m \in UNION {Asks(q) : q \in Path} : ~Held(m)}
<1>3. /\ up' \in Seq(Requests) /\ (~online => up' = <<>>)
      /\ \A q \in Path \ stop : Has(up, Asks(q)) => Has(up', Asks(q))
      /\ \A q \in start : online => Has(up', Asks(q))
      /\ \A q \in Path : Has(up', Asks(q)) => q \notin stop /\ (q \in start \/ Has(up, Asks(q)))
      /\ \A q \in Path \ stop : Has(up', Stops(q)) => Has(up, Stops(q))
      /\ \A q \in Path \ stop : \/ Follows(up, Stops(q), Asks(q))
                                \/ q \in start
                                => Follows(up', Stops(q), Asks(q))
  BY <1>2, MoveUp
<1>4. /\ down' \in Seq(Messages) /\ DOMAIN down' = DOMAIN down
      /\ \A i \in DOMAIN down : down'[i].kind = "data" \/ down[i].kind = "data"
                                   => down'[i] = down[i]
      /\ \A q \in Path : Has(down', Answers(q)) <=> q \notin stop /\ Has(down, Answers(q))
      /\ \A G : (\A m \in G : m.kind = "data") => (Has(down', G) <=> Has(down, G))
      /\ \A q \in Path \ stop : Precedes(down, Answers(q), Data(q)) =>
                                   Precedes(down', Answers(q), Data(q))
      /\ Sorted(down) => Sorted(down')
  BY <1>1, MoveDown
<1>5. WireTypes'
  BY <1>2, <1>3, <1>4 DEF WireTypes
<1>6. OfflineQuiet'
  <2>1. CASE online
    BY <1>2, <2>1 DEF OfflineQuiet
  <2>2. CASE ~online
    <3>1. down = <<>> /\ heard = {}
      BY <2>2 DEF WireInv, OfflineQuiet
    <3>2. down' = <<>>
      <4>1. down' = [i \in DOMAIN down |-> down'[i]]
        BY <1>1 DEF Outdate
      <4>2. \A i \in DOMAIN down' : FALSE
        BY <1>4, <3>1
      <4>3. PICK n \in Nat : DOMAIN down' = 1..n /\ n = Len(down')
        BY <1>4, LenProperties
      <4>4. n = 0
        BY <4>2, <4>3
      <4> QED  BY <1>4, <4>3, <4>4, EmptySeq
    <3> QED  BY <1>2, <1>3, <2>2, <3>1, <3>2 DEF OfflineQuiet
  <2> QED  BY <2>1, <2>2
<1>7. CurrentListened'
  BY <1>1, <1>3, <1>4 DEF WireInv, CurrentListened
<1>8. HashHeld'
  <2>1. ASSUME NEW i \in DOMAIN up, NEW q \in Path \ stop, up[i] \in Asks(q) PROVE up[i] \notin Ahead
    <3>1. Has(up, Asks(q))
      BY <2>1 DEF Has
    <3>2. view'[q] = view[q]
      BY <3>1 DEF WireInv, CurrentListened
    <3>3. \A r \in Path : up[i] \in Asks(r) => r = q
      BY <2>1 DEF Asks
    <3> QED  BY <2>1, <3>2, <3>3 DEF WireInv, HashHeld, Behind
  <2>2. ASSUME NEW q \in start, NEW m \in Asks(q), m.hash = view'[q].node PROVE m \notin Ahead
    <3>1. \A r \in Path : m \in Asks(r) => r = q
      BY DEF Asks
    <3>2. view'[q].node \in AllNodes
      BY DEF ViewTypes, Views
    <3>3. \A x \in DOMAIN view'[q].node : view'[q].node[x] <= view'[q].node[x]
      BY <3>2, NodeFacts
    <3> QED  BY <2>2, <3>1, <3>3
  <2>3. Ahead \subseteq UNION {Asks(q) : q \in Path}
    OBVIOUS
  <2> HIDE DEF Ahead
  <2>4. ~Has(up', Ahead)
    BY <1>2, <2>1, <2>2, <2>3, MoveUp
  <2>5. ASSUME NEW i \in DOMAIN up' PROVE Held(up'[i])
    <3>1. up'[i] \notin Ahead
      BY <2>4 DEF Has
    <3>2. PICK m : m = up'[i]
      OBVIOUS
    <3>3. m \in UNION {Asks(q) : q \in Path} => Held(m)
      BY <3>1, <3>2 DEF Ahead
    <3> QED  BY <3>2, <3>3
  <2> QED  BY <2>5 DEF HashHeld, Behind
<1>9. StopsFollowed'
  BY <1>1, <1>3 DEF WireInv, StopsFollowed
<1>10. AnswersPreceded'
  <2> SUFFICES ASSUME NEW q \in Path, DOMAIN view'[q].node # Under(q)
               PROVE  Precedes(down', Answers(q), Data(q))
    BY DEF AnswersPreceded
  <2>1. CASE q \in listens \ stop
    BY <1>4, <2>1 DEF WireInv, AnswersPreceded
  <2>2. CASE q \notin listens \ stop
    <3>1. ~Has(down', Answers(q))
      BY <1>4, <2>2 DEF WireInv, CurrentListened
    <3> QED  BY <3>1 DEF Has, Precedes
  <2> QED  BY <2>1, <2>2
<1>11. InOrder'
  <2>1. ASSUME NEW p \in Path, NEW x \in DOMAIN view'[p].node
        PROVE  /\ view'[p].node[x] <= db[x]
               /\ \A i \in DOMAIN down : down[i].kind = "data" /\ x \in DOMAIN down[i].node =>
                        view'[p].node[x] <= down[i].node[x]
    <3>1. PICK r \in Path : x \in DOMAIN view[r].node /\ view'[p].node[x] = view[r].node[x]
      BY DEF NothingNew
    <3> QED  BY <3>1 DEF WireInv, InOrder
  <2>2. Sorted(down')
    BY <1>4 DEF WireInv, InOrder
  <2> QED  BY <1>2, <1>4, <2>1, <2>2 DEF WireInv, InOrder
<1>12. ListensHeard'
  <2> SUFFICES ASSUME online, NEW q \in listens', ~Has(up', Asks(q)) PROVE HeardOf(q)'
    BY <1>2 DEF ListensHeard
  <2>1. q \in listens \ stop /\ q \in Path \ stop /\ ~Has(up, Asks(q))
    BY <1>1, <1>3
  <2>2. HeardOf(q) /\ view'[q] = view[q]
    BY <2>1 DEF WireInv, ListensHeard
  <2>3. \A x : Tells(x)' = Tells(x)
    BY <1>2 DEF Tells
  <2>4. \A x : Has(down', Tells(x)) <=> Has(down, Tells(x))
    BY <1>4 DEF Tells
  <2>5. Has(down', Data(q)) <=> Has(down, Data(q))
    BY <1>4 DEF Data
  <2>6. Has(down', Answers(q)) <=> Has(down, Answers(q))
    BY <1>4, <2>1
  <2>7. ~Has(up', Stops(q))
    BY <1>3, <2>1, <2>2 DEF HeardOf
  <2> QED  BY <1>2, <2>2, <2>3, <2>4, <2>5, <2>6, <2>7 DEF HeardOf, UpToDate
<1> QED
  BY <1>1, <1>5, <1>6, <1>7, <1>8, <1>9, <1>10, <1>11, <1>12 DEF WireInv

\* So does a change of views that are not listened to themselves.
LEMMA StayWire ==
    ASSUME CacheTypes, WireTypes, WireInv, NothingNew,
           UNCHANGED <<listens, online, up, down, heard, db>>,
           \A q \in listens : view'[q] = view[q]
    PROVE  WireTypes' /\ listens' \in SUBSET Path /\ WireInv'
<1>1. WireTypes' /\ listens' \in SUBSET Path
  BY DEF CacheTypes, WireTypes
<1>2. OfflineQuiet' /\ CurrentListened' /\ StopsFollowed'
  BY DEF WireInv, OfflineQuiet, CurrentListened, StopsFollowed
<1>3. HashHeld'
  <2> SUFFICES ASSUME NEW i \in DOMAIN up, NEW q \in Path, up[i] \in Asks(q)
               PROVE  \A x \in DOMAIN up[i].hash : /\ x \in DOMAIN view'[q].node
                                                  /\ up[i].hash[x] <= view'[q].node[x]
    BY DEF HashHeld, Behind
  <2>1. Has(up, Asks(q))
    BY DEF Has
  <2>2. view'[q] = view[q]
    BY <2>1 DEF WireInv, CurrentListened
  <2> QED  BY <2>2 DEF WireInv, HashHeld, Behind
<1>4. AnswersPreceded'
  <2> SUFFICES ASSUME NEW q \in Path, DOMAIN view'[q].node # Under(q)
               PROVE  Precedes(down, Answers(q), Data(q))
    BY DEF AnswersPreceded
  <2>1. CASE q \in listens
    BY <2>1 DEF WireInv, AnswersPreceded
  <2>2. CASE q \notin listens
    <3>1. ~Has(down, Answers(q))
      BY <2>2 DEF WireInv, CurrentListened
    <3> QED  BY <3>1 DEF Has, Precedes
  <2> QED  BY <2>1, <2>2
<1>5. InOrder'
  <2>1. ASSUME NEW p \in Path, NEW x \in DOMAIN view'[p].node
        PROVE  /\ view'[p].node[x] <= db[x]
               /\ \A i \in DOMAIN down : down[i].kind = "data" /\ x \in DOMAIN down[i].node =>
                        view'[p].node[x] <= down[i].node[x]
    <3>1. PICK r \in Path : x \in DOMAIN view[r].node /\ view'[p].node[x] = view[r].node[x]
      BY DEF NothingNew
    <3> QED  BY <3>1 DEF WireInv, InOrder
  <2> QED  BY <2>1 DEF WireInv, InOrder
<1>6. ListensHeard'
  <2>1. \A x : Tells(x)' = Tells(x)
    BY DEF Tells
  <2>2. ASSUME NEW q \in listens, HeardOf(q) PROVE HeardOf(q)'
    BY <2>1, <2>2 DEF HeardOf, UpToDate
  <2> QED  BY <2>2 DEF WireInv, ListensHeard
<1> QED  BY <1>1, <1>2, <1>3, <1>4, <1>5, <1>6 DEF WireInv

-----------------------------------------------------------------------------
(* The four ways to move the listens, as facts about sets of paths.        *)

\* An observer below a view changes no listen.
LEMMA AddCovered ==
    ASSUME NEW V \in SUBSET Path, NEW p \in Path, Covered(p, V)
    PROVE  Tops(V \cup {p}) = Tops(V)
BY OverAssumption DEF Tops, Covered

\* A view that nothing covers takes the listens of the topmost below it.
LEMMA AddUncovered ==
    ASSUME NEW V \in SUBSET Path, NEW p \in Path, ~Covered(p, V)
    PROVE  Tops(V \cup {p}) = (Tops(V) \cup {p}) \ TopsBelow(p, V)
BY OverAssumption DEF Tops, Covered, TopsBelow

\* A covered view is removed without a change of listens.
LEMMA RemoveCovered ==
    ASSUME NEW V \in SUBSET Path, NEW p \in V, Covered(p, V)
    PROVE  Tops(V \ {p}) = Tops(V)
BY OverAssumption DEF Tops, Covered

\* A view that is not covered gives its listen to the topmost below it.
LEMMA RemoveUncovered ==
    ASSUME NEW V \in SUBSET Path, NEW p \in V, ~Covered(p, V)
    PROVE  Tops(V \ {p}) = (Tops(V) \cup TopsBelow(p, V)) \ {p}
BY OverAssumption DEF Tops, Covered, TopsBelow

-----------------------------------------------------------------------------
(* The cache and the wire together, under each operation.                  *)

SyncInv == CacheTypes /\ WireTypes /\ ViewsInv /\ WireInv /\ ListensAreTops

LEMMA AddSync ==
    ASSUME SyncInv, DataTypes, TabFirst, NEW os \in SUBSET Observer, os # {}, NEW p \in Path,
           AddRegistrations(os, p), UNCHANGED <<online, heard, db>>
    PROVE  SyncInv'
<1>1. /\ regs' = [regs EXCEPT ![p] = @ \cup os] /\ regs' \in [Path -> SUBSET Observer]
      /\ Viewed' = Viewed \cup {p} /\ ViewTypes' /\ ViewsInv' /\ NothingNew
      /\ \A q \in Path : q \in Viewed \/ q # p => view'[q] = view[q]
  BY AddViews DEF SyncInv
<1>2. listens = Tops(Viewed) /\ Viewed \subseteq Path /\ listens \subseteq Viewed
  BY DEF SyncInv, ListensAreTops, Tops, Viewed
<1>3. \A q \in listens : view'[q] = view[q]
  BY <1>1, <1>2
<1>4. WireTypes' /\ listens' \in SUBSET Path /\ WireInv'
  <2>1. CASE p \in Viewed \/ Covered(p, Viewed)
    <3>1. UNCHANGED <<listens, up, down>>
      BY <2>1 DEF AddRegistrations
    <3> QED  BY <1>1, <1>3, <3>1, StayWire DEF SyncInv
  <2>2. CASE p \notin Viewed /\ ~Covered(p, Viewed)
    <3>1. PICK S \in SUBSET Path : S = TopsBelow(p, Viewed) /\ p \notin S
      <4>1. TopsBelow(p, Viewed) \subseteq Path /\ p \notin TopsBelow(p, Viewed)
        BY <1>2, OverAssumption DEF TopsBelow
      <4> QED  BY <4>1
    <3>2. SendListens({p}, S)
      BY <2>2, <3>1 DEF AddRegistrations
    <3>3. {p} \in SUBSET Path /\ {p} \cap S = {}
      BY <3>1
    <3> QED  BY <1>1, <1>3, <3>2, <3>3, MoveWire DEF SyncInv
  <2> QED  BY <2>1, <2>2
<1>5. CacheTypes'
  BY <1>1, <1>4 DEF CacheTypes, ViewTypes
<1>6. ListensAreTops'
  <2>1. CASE p \in Viewed
    <3>1. listens' = listens /\ Viewed' = Viewed
      BY <1>1, <2>1 DEF AddRegistrations
    <3> QED  BY <3>1, <1>2 DEF ListensAreTops, Tops
  <2>2. CASE Covered(p, Viewed)
    <3>1. listens' = listens
      BY <2>2 DEF AddRegistrations
    <3> QED  BY <1>1, <1>2, <2>2, <3>1, AddCovered DEF ListensAreTops, Tops
  <2>3. CASE p \notin Viewed /\ ~Covered(p, Viewed)
    <3>1. listens' = (listens \cup {p}) \ TopsBelow(p, Viewed)
      BY <2>3 DEF AddRegistrations, SendListens
    <3> QED  BY <1>1, <1>2, <2>3, <3>1, AddUncovered DEF ListensAreTops, Tops
  <2> QED  BY <2>1, <2>2, <2>3
<1> QED  BY <1>1, <1>4, <1>5, <1>6 DEF SyncInv

LEMMA RemoveSync ==
    ASSUME SyncInv, DataTypes, NEW os, NEW p \in Path,
           RemoveRegistrations(os, p), UNCHANGED <<online, heard, db>>
    PROVE  SyncInv'
<1>1. /\ regs' = [regs EXCEPT ![p] = @ \ os] /\ regs' \in [Path -> SUBSET Observer]
      /\ Viewed' = (IF regs[p] \ os = {} THEN Viewed \ {p} ELSE Viewed)
      /\ ViewTypes' /\ ViewsInv' /\ NothingNew
      /\ \A q \in Path : q \in Viewed' \/ q # p => view'[q] = view[q]
  BY RemoveViews DEF SyncInv
<1>2. listens = Tops(Viewed) /\ Viewed \subseteq Path /\ listens \subseteq Viewed
  BY DEF SyncInv, ListensAreTops, Tops, Viewed
<1>3. CASE regs[p] \ os = {} /\ p \in Viewed /\ ~Covered(p, Viewed)
  <2>1. PICK S \in SUBSET Path : S = TopsBelow(p, Viewed) /\ p \notin S
    <3>1. TopsBelow(p, Viewed) \subseteq Path /\ p \notin TopsBelow(p, Viewed)
      BY <1>2, OverAssumption DEF TopsBelow
    <3> QED  BY <3>1
  <2>2. SendListens(S, {p})
    BY <1>3, <2>1 DEF RemoveRegistrations
  <2>3. {p} \in SUBSET Path /\ S \cap {p} = {}
    BY <2>1
  <2>4. \A q \in listens \ {p} : view'[q] = view[q]
    BY <1>1, <1>2
  <2>5. WireTypes' /\ listens' \in SUBSET Path /\ WireInv'
    BY <1>1, <2>2, <2>3, <2>4, MoveWire DEF SyncInv
  <2>6. listens' = (listens \cup TopsBelow(p, Viewed)) \ {p}
    BY <2>1, <2>2 DEF SendListens
  <2>7. ListensAreTops'
    BY <1>1, <1>2, <1>3, <2>6, RemoveUncovered DEF ListensAreTops, Tops
  <2> QED  BY <1>1, <2>5, <2>7 DEF SyncInv, CacheTypes, ViewTypes
<1>4. CASE ~(regs[p] \ os = {} /\ p \in Viewed /\ ~Covered(p, Viewed))
  <2>1. UNCHANGED <<listens, up, down>>
    BY <1>4 DEF RemoveRegistrations
  <2>2. \A q \in listens : view'[q] = view[q]
    <3> SUFFICES ASSUME p \in listens PROVE p \in Viewed'
      BY <1>1, <1>2
    <3>1. p \in Viewed /\ ~Covered(p, Viewed)
      BY <1>2 DEF Tops
    <3> QED  BY <1>1, <1>4, <3>1
  <2>3. WireTypes' /\ listens' \in SUBSET Path /\ WireInv'
    BY <1>1, <2>1, <2>2, StayWire DEF SyncInv
  <2>4. ListensAreTops'
    <3>1. CASE Viewed' = Viewed
      BY <1>2, <2>1, <3>1 DEF ListensAreTops, Tops
    <3>2. CASE regs[p] \ os = {} /\ p \in Viewed /\ Covered(p, Viewed)
      BY <1>1, <1>2, <2>1, <3>2, RemoveCovered DEF ListensAreTops, Tops
    <3> QED  BY <1>1, <1>4, <3>1, <3>2
  <2> QED  BY <1>1, <2>3, <2>4 DEF SyncInv, CacheTypes, ViewTypes
<1> QED  BY <1>3, <1>4

\* The oldest message, and what is left behind it.
LEMMA Received ==
    ASSUME WireTypes, down # <<>>, down' = Tail(down)
    PROVE  /\ Head(down) \in Messages /\ down' \in Seq(Messages)
           /\ \E i \in DOMAIN down : down[i] = Head(down)
           /\ \A i \in DOMAIN down' : \E j \in DOMAIN down : down'[i] = down[j]
           /\ \A G : Has(down, G) <=> Head(down) \in G \/ Has(down', G)
           /\ \A B, G : Precedes(down, B, G) => Head(down) \notin B
           /\ \A B, G : Precedes(down, B, G) /\ Head(down) \notin G => Precedes(down', B, G)
           /\ Sorted(down) => /\ Sorted(down')
                              /\ \A i \in DOMAIN down' : NotNewer(Head(down), down'[i])
<1>1. down \in Seq(Messages)
  BY DEF WireTypes
<1>2. PICK n \in Nat : /\ DOMAIN down = 1..(n + 1) /\ DOMAIN down' = 1..n
                       /\ Head(down) = down[1]
                       /\ \A i \in 1..n : down'[i] = down[i + 1]
  BY <1>1, TailAt
<1>3. Head(down) \in Messages /\ down' \in Seq(Messages)
  BY <1>1, TailAt
<1>4. 1 \in 1..(n + 1) /\ \A i \in 1..n : i + 1 \in 1..(n + 1)
  OBVIOUS
<1>5. /\ \A G : Has(down, G) <=> Head(down) \in G \/ Has(down', G)
      /\ \A B, G : Precedes(down, B, G) => Head(down) \notin B
      /\ \A B, G : Precedes(down, B, G) /\ Head(down) \notin G => Precedes(down', B, G)
  BY <1>1, TailHas
<1>6. Sorted(down) => /\ Sorted(down')
                      /\ \A i \in DOMAIN down' : NotNewer(Head(down), down'[i])
  BY <1>1, TailSorted
<1> QED  BY <1>2, <1>3, <1>4, <1>5, <1>6

\* Data that arrives: the views go on to what the server had when it was sent.
LEMMA DataSync ==
    ASSUME SyncInv, DataTypes, TabFirst, RecvData
    PROVE  SyncInv' /\ \A p \in Path : view[p].full => view'[p].full
<1>1. /\ CacheTypes /\ WireTypes /\ ViewsInv /\ WireInv
      /\ UNCHANGED <<regs, listens, online, up, heard, db>>
      /\ down # <<>> /\ Head(down).kind = "data" /\ down' = Tail(down)
      /\ Overwrite(Head(down).path, Head(down).node)
  BY DEF SyncInv, RecvData, Receives
<1>2. /\ down' \in Seq(Messages)
      /\ \A i \in DOMAIN down' : \E j \in DOMAIN down : down'[i] = down[j]
      /\ \A G : Has(down, G) <=> Head(down) \in G \/ Has(down', G)
      /\ \A B, G : Precedes(down, B, G) /\ Head(down) \notin G => Precedes(down', B, G)
      /\ Sorted(down') /\ \A i \in DOMAIN down' : NotNewer(Head(down), down'[i])
  BY <1>1, Received DEF WireInv, InOrder
<1>3. PICK m \in Messages : m = Head(down) /\ \E i \in DOMAIN down : down[i] = m
  BY <1>1, Received
<1>4. PICK c \in Path : c = m.path
  BY <1>3 DEF Messages
<1>5. PICK n \in AllNodes : n = m.node /\ DOMAIN n = Under(c) /\ Overwrite(c, n)
  BY <1>1, <1>3, <1>4 DEF Messages
<1>6. /\ m.kind = "data"
      /\ \A q \in Path : m \notin Answers(q) /\ (m \in Data(q) <=> q = c)
      /\ \A x : m \in Tells(x) <=> x \in Under(c) /\ n[x] = db[x]
  BY <1>1, <1>3, <1>4, <1>5 DEF Answers, Data, Tells
<1>7. ViewTypes' /\ ViewsInv' /\ \A p \in Path : view[p].full => view'[p].full
  BY <1>1, <1>5, OverwriteViews
<1>8. Viewed' = Viewed /\ listens \subseteq Viewed /\ listens \subseteq Path
  BY <1>1 DEF Viewed, SyncInv, ListensAreTops, CacheTypes
<1>9. \A x \in Under(c) : /\ n[x] <= db[x] /\ n[x] \in Nat
                          /\ \A p \in Path : x \in DOMAIN view[p].node => view[p].node[x] <= n[x]
  <2>1. PICK i \in DOMAIN down : down[i] = m
    BY <1>3
  <2>2. \A x \in Under(c) : n[x] \in Nat
    BY <1>5, NodeFacts
  <2>3. \A x \in Under(c) : n[x] <= db[x]
    BY <1>1, <1>5, <1>6, <2>1 DEF WireInv, InOrder
  <2>4. \A p \in Path : \A x \in Under(c) \cap DOMAIN view[p].node : view[p].node[x] <= n[x]
    BY <1>1, <1>5, <1>6, <2>1 DEF WireInv, InOrder
  <2> QED  BY <2>2, <2>3, <2>4
<1>10. ASSUME NEW p \in Path, NEW x \in DOMAIN view'[p].node
       PROVE  \/ x \in Under(c) /\ view'[p].node[x] = n[x]
              \/ x \in DOMAIN view[p].node /\ view'[p].node[x] = view[p].node[x]
  <2>1. p \in Viewed
    BY <1>1, <1>5, <1>10, OverwriteAt, NoViewFacts
  <2>2. CASE p = c \/ c \in Over[p]
    BY <1>1, <1>5, <1>10, <2>1, <2>2, OverwriteAt
  <2>3. CASE p # c /\ c \notin Over[p] /\ p \in Over[c] /\ (view[p].full \/ Parent[c] = p)
    <3>1. /\ DOMAIN view'[p].node = DOMAIN view[p].node \cup Under(c)
          /\ \A y \in Under(c) : view'[p].node[y] = n[y]
          /\ \A y \in DOMAIN view[p].node \ Under(c) : view'[p].node[y] = view[p].node[y]
      BY <1>1, <1>5, <2>1, <2>3, OverwriteAt
    <3> QED  BY <1>10, <3>1
  <2>4. CASE p # c /\ c \notin Over[p] /\ ~(p \in Over[c] /\ (view[p].full \/ Parent[c] = p))
    <3>1. view'[p] = view[p]
      BY <1>1, <1>5, <2>1, <2>4, OverwriteAt
    <3> QED  BY <1>10, <3>1
  <2> QED  BY <2>2, <2>3, <2>4
<1>11. ASSUME NEW p \in Path PROVE DOMAIN view[p].node \subseteq DOMAIN view'[p].node
  <2>1. CASE p \notin Viewed
    <3>1. view[p] = NoView
      BY <1>1, <2>1 DEF ViewsInv, Unviewed
    <3> QED  BY <3>1, NoViewFacts
  <2>2. CASE p \in Viewed /\ (p = c \/ c \in Over[p])
    <3>1. DOMAIN view'[p].node = Under(p)
      BY <1>1, <1>5, <2>2, OverwriteAt
    <3> QED  BY <1>1, <3>1 DEF CacheTypes
  <2>3. CASE p \in Viewed /\ ~(p = c \/ c \in Over[p])
    BY <1>1, <1>5, <2>3, OverwriteAt
  <2> QED  BY <2>1, <2>2, <2>3
<1>12. ASSUME NEW p \in Path, NEW x \in DOMAIN view[p].node
       PROVE  /\ x \in DOMAIN view'[p].node /\ view[p].node[x] <= view'[p].node[x]
              /\ view[p].node[x] \in Nat /\ view'[p].node[x] \in Nat
  <2>1. x \in DOMAIN view'[p].node
    BY <1>11, <1>12
  <2>2. view[p].node[x] \in Nat /\ view'[p].node[x] \in Nat
    <3>1. view[p].node \in AllNodes /\ view'[p].node \in AllNodes
      BY <1>1, <1>7 DEF CacheTypes, ViewTypes, Views
    <3> QED  BY <1>12, <2>1, <3>1, NodeFacts
  <2>3. CASE x \in Under(c) /\ view'[p].node[x] = n[x]
    BY <1>9, <1>12, <2>1, <2>2, <2>3
  <2>4. CASE view'[p].node[x] = view[p].node[x]
    BY <2>1, <2>2, <2>4
  <2> QED  BY <1>10, <2>1, <2>3, <2>4
<1>13. ASSUME NEW p \in Path, NEW x \in DOMAIN view'[p].node
       PROVE  /\ view'[p].node[x] <= db[x]
              /\ \A i \in DOMAIN down' : down'[i].kind = "data" /\ x \in DOMAIN down'[i].node =>
                        view'[p].node[x] <= down'[i].node[x]
  <2>1. CASE x \in Under(c) /\ view'[p].node[x] = n[x]
    BY <1>2, <1>3, <1>5, <1>6, <1>9, <2>1 DEF NotNewer
  <2>2. CASE x \in DOMAIN view[p].node /\ view'[p].node[x] = view[p].node[x]
    BY <1>1, <1>2, <2>2 DEF WireInv, InOrder
  <2> QED  BY <1>10, <1>13, <2>1, <2>2
<1>14. InOrder'
  <2>1. \A i \in DOMAIN down' : down'[i].kind = "data" =>
            \A x \in DOMAIN down'[i].node : down'[i].node[x] <= db[x]
    BY <1>1, <1>2 DEF WireInv, InOrder
  <2> QED  BY <1>1, <1>2, <1>13, <2>1 DEF InOrder
<1>15. OfflineQuiet' /\ CurrentListened' /\ StopsFollowed'
  <2>1. online
    BY <1>1 DEF WireInv, OfflineQuiet
  <2> QED  BY <1>1, <1>2, <2>1 DEF WireInv, OfflineQuiet, CurrentListened, StopsFollowed
<1>16. HashHeld'
  <2> SUFFICES ASSUME NEW i \in DOMAIN up, NEW q \in Path, up[i] \in Asks(q),
                      NEW x \in DOMAIN up[i].hash
               PROVE  x \in DOMAIN view'[q].node /\ up[i].hash[x] <= view'[q].node[x]
    BY <1>1 DEF HashHeld, Behind
  <2>1. x \in DOMAIN view[q].node /\ up[i].hash[x] <= view[q].node[x]
    BY <1>1 DEF WireInv, HashHeld, Behind
  <2>2. up[i].hash[x] \in Nat
    BY NodeFacts DEF Asks, Requests
  <2> QED  BY <1>12, <2>1, <2>2
<1>17. ASSUME NEW q \in Path, DOMAIN view[q].node = Under(q) PROVE DOMAIN view'[q].node = Under(q)
  BY <1>7, <1>11, <1>17 DEF ViewTypes
<1>18. c \in Viewed => DOMAIN view'[c].node = Under(c)
  BY <1>1, <1>5, OverwriteAt
<1>19. AnswersPreceded'
  <2> SUFFICES ASSUME NEW q \in Path, DOMAIN view'[q].node # Under(q)
               PROVE  Precedes(down', Answers(q), Data(q))
    BY DEF AnswersPreceded
  <2>1. Precedes(down, Answers(q), Data(q))
    BY <1>1, <1>17 DEF WireInv, AnswersPreceded
  <2>2. CASE m \in Data(q)
    <3>1. ~Has(down', Answers(q))
      BY <1>1, <1>2, <1>6, <1>8, <1>18, <2>2 DEF WireInv, CurrentListened
    <3> QED  BY <3>1 DEF Has, Precedes
  <2>3. CASE m \notin Data(q)
    BY <1>2, <1>3, <2>1, <2>3
  <2> QED  BY <2>2, <2>3
<1>20. ASSUME online, NEW q \in listens, HeardOf(q) PROVE HeardOf(q)'
  <2>1. q \in Path /\ q \in Viewed
    BY <1>8
  <2>2. view'[q].full \/ Has(down', Answers(q))
    BY <1>2, <1>3, <1>6, <1>7, <1>20, <2>1 DEF HeardOf
  <2>3. DOMAIN view'[q].node = Under(q) \/ Has(down', Data(q))
    BY <1>2, <1>3, <1>6, <1>17, <1>18, <1>20, <2>1 DEF HeardOf
  <2>4. ASSUME NEW x \in Under(q), UpToDate(q, x) PROVE UpToDate(q, x)'
    <3>1. x \in DOMAIN view'[q].node /\ view'[q].node[x] <= db[x] /\ db[x] <= view'[q].node[x]
      BY <1>12, <1>13, <2>1, <2>4 DEF UpToDate
    <3>2. view'[q].node[x] \in Nat /\ db[x] \in Nat
      BY <1>12, <2>1, <2>4 DEF UpToDate
    <3> QED  BY <1>1, <3>1, <3>2 DEF UpToDate
  <2>5. ASSUME NEW x \in Under(q), m \in Tells(x) PROVE Has(down', Tells(x)) \/ UpToDate(q, x)'
    <3>1. x \in Under(c) /\ n[x] = db[x]
      BY <1>6, <2>5
    <3>2. q = c \/ c \in Over[q] \/ q \in Over[c]
      BY <2>1, <3>1, Unders
    <3>3. CASE q = c \/ c \in Over[q]
      <4>1. DOMAIN view'[q].node = Under(q) /\ view'[q].node[x] = n[x]
        BY <1>1, <1>5, <2>1, <3>3, OverwriteAt
      <4> QED  BY <1>1, <3>1, <4>1 DEF UpToDate
    <3>4. CASE q \in Over[c] /\ (view[q].full \/ Parent[c] = q)
      <4>1. x \in DOMAIN view'[q].node /\ view'[q].node[x] = n[x]
        BY <1>1, <1>5, <2>1, <3>1, <3>4, OverwriteAt
      <4> QED  BY <1>1, <3>1, <4>1 DEF UpToDate
    <3>5. CASE q \in Over[c] /\ ~view[q].full /\ Parent[c] # q
      <4>1. q # Tab /\ q # c
        BY <3>5, Tree
      <4>2. view[q].node = Empty
        BY <1>1, <2>1, <3>5, <4>1 DEF ViewsInv, HalfEmpty
      <4>3. DOMAIN view[q].node # Under(q)
        BY <2>5, <4>2, NodeFacts
      <4>4. Has(down', Data(q))
        BY <1>2, <1>3, <1>6, <1>20, <2>1, <4>1, <4>3 DEF HeardOf
      <4>5. PICK i \in DOMAIN down' : down'[i] \in Data(q)
        BY <4>4 DEF Has
      <4>6. down'[i].kind = "data" /\ x \in DOMAIN down'[i].node /\ down'[i].node[x] \in Nat
        BY <2>5, <4>5, NodeFacts DEF Data, Messages
      <4>7. n[x] <= down'[i].node[x] /\ down'[i].node[x] <= db[x]
        BY <1>2, <1>3, <1>5, <1>6, <1>14, <1>1, <3>1, <4>6 DEF NotNewer, InOrder
      <4>8. down'[i].node[x] = db[x]
        BY <1>9, <3>1, <4>6, <4>7
      <4>9. down'[i] \in Tells(x)
        BY <4>5, <4>6, <4>8 DEF Data, Tells
      <4> QED  BY <4>9 DEF Has
    <3> QED  BY <3>2, <3>3, <3>4, <3>5
  <2>6. \A x \in Under(q) : Has(down', Tells(x)) \/ UpToDate(q, x)'
    BY <1>2, <1>3, <1>20, <2>4, <2>5 DEF HeardOf
  <2>7. \A x : Tells(x)' = Tells(x)
    BY <1>1 DEF Tells
  <2> QED  BY <1>1, <1>20, <2>2, <2>3, <2>6, <2>7 DEF HeardOf
<1>21. ListensHeard'
  BY <1>1, <1>20 DEF WireInv, ListensHeard
<1>22. CacheTypes' /\ WireTypes' /\ ListensAreTops'
  BY <1>1, <1>2, <1>7, <1>8
  DEF SyncInv, CacheTypes, WireTypes, ViewTypes, ListensAreTops, Covered
<1> QED
  BY <1>7, <1>14, <1>15, <1>16, <1>19, <1>21, <1>22 DEF SyncInv, WireInv

\* The answer to a listen: the view at its path is complete by then.
LEMMA AnswerSync ==
    ASSUME SyncInv, DataTypes, TabFirst, RecvAnswer
    PROVE  SyncInv' /\ \A p \in Path : view[p].full => view'[p].full
<1>1. /\ CacheTypes /\ WireTypes /\ ViewsInv /\ WireInv
      /\ UNCHANGED <<regs, listens, online, up, heard, db>>
      /\ down # <<>> /\ Head(down).kind = "answer" /\ down' = Tail(down)
  BY DEF SyncInv, RecvAnswer, Receives
<1>2. /\ down' \in Seq(Messages)
      /\ \A i \in DOMAIN down' : \E j \in DOMAIN down : down'[i] = down[j]
      /\ \A G : Has(down, G) <=> Head(down) \in G \/ Has(down', G)
      /\ \A B, G : Precedes(down, B, G) => Head(down) \notin B
      /\ \A B, G : Precedes(down, B, G) /\ Head(down) \notin G => Precedes(down', B, G)
      /\ Sorted(down')
  BY <1>1, Received DEF WireInv, InOrder
<1>3. PICK m \in Messages : m = Head(down) /\ m.kind = "answer"
  BY <1>1, Received
<1>4. PICK c \in Path : c = m.path
  BY <1>3 DEF Messages
<1>5. /\ \A q \in Path : m \notin Data(q) /\ (m \in Answers(q) <=> q = c /\ m.current)
      /\ \A x : m \notin Tells(x)
  BY <1>3, <1>4 DEF Answers, Data, Tells
<1>6. Viewed' = Viewed /\ listens \subseteq Viewed /\ listens \subseteq Path
  BY <1>1 DEF Viewed, SyncInv, ListensAreTops, CacheTypes
<1>7. view' = [p \in Path |-> IF m.current /\ p \in Viewed /\ (p = c \/ c \in Over[p])
                              THEN [view[p] EXCEPT !.full = TRUE] ELSE view[p]]
  BY <1>3, <1>4 DEF RecvAnswer
<1>8. /\ ViewTypes' /\ ViewsInv' /\ (m.current => view'[c].full)
      /\ \A p \in Path : view'[p].node = view[p].node /\ (view[p].full => view'[p].full)
  <2>1. CASE m.current
    <3>1. c \in listens
      BY <1>1, <1>2, <1>3, <1>5, <2>1 DEF WireInv, CurrentListened
    <3>2. DOMAIN view[c].node = Under(c)
      BY <1>1, <1>2, <1>3, <1>5, <2>1 DEF WireInv, AnswersPreceded
    <3>3. view' = [p \in Path |-> IF p \in Viewed /\ (p = c \/ c \in Over[p])
                                  THEN [view[p] EXCEPT !.full = TRUE] ELSE view[p]]
      BY <1>7, <2>1
    <3>4. c \in Viewed
      BY <1>6, <3>1
    <3> QED  BY <1>1, <3>2, <3>3, <3>4, AnswerViews
  <2>2. CASE ~m.current
    <3>1. view' = view
      <4>1. view' = [p \in Path |-> view[p]]
        BY <1>7, <2>2
      <4> QED  BY <1>1, <4>1 DEF CacheTypes
    <3>2. ViewTypes'
      BY <1>1, <3>1 DEF CacheTypes, ViewTypes
    <3>3. ViewsInv'
      BY <1>1, <1>6, <3>1 DEF ViewsInv, Unviewed, HalfEmpty, FullHasAll, FullAgree, FullBelow
    <3> QED  BY <2>2, <3>1, <3>2, <3>3
  <2> QED  BY <2>1, <2>2
<1>9. OfflineQuiet' /\ CurrentListened' /\ HashHeld' /\ StopsFollowed'
  <2>1. online
    BY <1>1 DEF WireInv, OfflineQuiet
  <2> QED
    BY <1>1, <1>2, <1>8, <2>1
    DEF WireInv, OfflineQuiet, CurrentListened, HashHeld, Behind, StopsFollowed
<1>10. AnswersPreceded'
  BY <1>1, <1>2, <1>3, <1>5, <1>8 DEF WireInv, AnswersPreceded
<1>11. InOrder'
  BY <1>1, <1>2, <1>8 DEF WireInv, InOrder
<1>12. ASSUME NEW q \in listens, HeardOf(q) PROVE HeardOf(q)'
  <2>1. q \in Path
    BY <1>6
  <2>2. \A x : Tells(x)' = Tells(x)
    BY <1>1 DEF Tells
  <2>3. view'[q].full \/ Has(down', Answers(q))
    BY <1>2, <1>3, <1>5, <1>8, <1>12, <2>1 DEF HeardOf
  <2>4. DOMAIN view'[q].node = Under(q) \/ Has(down', Data(q))
    BY <1>2, <1>3, <1>5, <1>8, <1>12, <2>1 DEF HeardOf
  <2>5. \A x \in Under(q) : Has(down', Tells(x)) \/ UpToDate(q, x)'
    BY <1>1, <1>2, <1>3, <1>5, <1>8, <1>12, <2>1 DEF HeardOf, UpToDate
  <2> QED  BY <1>1, <1>12, <2>2, <2>3, <2>4, <2>5 DEF HeardOf
<1>13. ListensHeard'
  BY <1>1, <1>12 DEF WireInv, ListensHeard
<1>14. CacheTypes' /\ WireTypes' /\ ListensAreTops'
  BY <1>1, <1>2, <1>6, <1>8
  DEF SyncInv, CacheTypes, WireTypes, ViewTypes, ListensAreTops, Covered
<1> QED
  BY <1>8, <1>9, <1>10, <1>11, <1>13, <1>14 DEF SyncInv, WireInv

\* One more message, or request, after the others.
LEMMA Sent ==
    ASSUME NEW S, NEW s \in Seq(S), NEW m \in S
    PROVE  /\ s \o <<m>> \in Seq(S)
           /\ \A i \in DOMAIN (s \o <<m>>) :
                (s \o <<m>>)[i] = m \/ \E j \in DOMAIN s : (s \o <<m>>)[i] = s[j]
           /\ \A G : Has(s \o <<m>>, G) <=> Has(s, G) \/ m \in G
           /\ \A B, G : Precedes(s, B, G) /\ (m \notin B \/ Has(s, G)) =>
                            Precedes(s \o <<m>>, B, G)
           /\ Sorted(s) /\ (\A i \in DOMAIN s : NotNewer(s[i], m)) => Sorted(s \o <<m>>)
<1>1. PICK t \in Seq(S) : t = <<m>> /\ DOMAIN t = 1..1 /\ t[1] = m
  <2>1. <<m>> \in Seq(S) /\ DOMAIN <<m>> = 1..1 /\ <<m>>[1] = m
    OBVIOUS
  <2> QED  BY <2>1
<1>2. \A G : Has(t, G) <=> m \in G
  BY <1>1 DEF Has
<1>3. Sorted(t)
  BY <1>1 DEF Sorted
<1>4. s \o t \in Seq(S)
  BY ConcatAt
<1>5. \A i \in DOMAIN (s \o t) : (s \o t)[i] = m \/ \E j \in DOMAIN s : (s \o t)[i] = s[j]
  <2>1. PICK a \in Nat : \E b \in Nat : Joined(s, t, a, b)
    BY ConcatAt
  <2>2. PICK b \in Nat : Joined(s, t, a, b)
    BY <2>1
  <2>3. PICK r : r = s \o t
    OBVIOUS
  <2>4. \A i \in 1..b : r[a + i] = m
    BY <1>1, <2>2, <2>3 DEF Joined
  <2>5. ASSUME NEW i \in 1..(a + b) PROVE r[i] = m \/ \E j \in DOMAIN s : r[i] = s[j]
    <3>1. i \in 1..a \/ (i - a \in 1..b /\ a + (i - a) = i)
      OBVIOUS
    <3> QED  BY <2>2, <2>3, <2>4, <3>1 DEF Joined
  <2> QED  BY <2>2, <2>3, <2>5 DEF Joined
<1>6. \A G : Has(s \o t, G) <=> Has(s, G) \/ m \in G
  BY <1>2, ConcatHas
<1>7. ASSUME NEW B, NEW G, Precedes(s, B, G), m \notin B \/ Has(s, G)
      PROVE  Precedes(s \o t, B, G)
  BY <1>2, <1>7, ConcatHas
<1>8. ASSUME Sorted(s), \A i \in DOMAIN s : NotNewer(s[i], m) PROVE Sorted(s \o t)
  <2>1. \A i \in DOMAIN s, j \in DOMAIN t : NotNewer(s[i], t[j])
    BY <1>1, <1>8
  <2> QED  BY <1>3, <1>8, <2>1, ConcatSorted
<1> QED  BY <1>1, <1>4, <1>5, <1>6, <1>7, <1>8

\* The oldest request, and what is left behind it.
LEMMA Served ==
    ASSUME WireTypes, up # <<>>, up' = Tail(up)
    PROVE  /\ Head(up) \in Requests /\ up' \in Seq(Requests)
           /\ \E i \in DOMAIN up : up[i] = Head(up)
           /\ \A i \in DOMAIN up' : \E j \in DOMAIN up : up'[i] = up[j]
           /\ \A G : Has(up, G) <=> Head(up) \in G \/ Has(up', G)
           /\ \A B, G : Follows(up, B, G) => Follows(up', B, G)
<1>1. up \in Seq(Requests)
  BY DEF WireTypes
<1>2. PICK n \in Nat : /\ DOMAIN up = 1..(n + 1) /\ DOMAIN up' = 1..n
                       /\ Head(up) = up[1]
                       /\ \A i \in 1..n : up'[i] = up[i + 1]
  BY <1>1, TailAt
<1>3. Head(up) \in Requests /\ up' \in Seq(Requests)
  BY <1>1, TailAt
<1>4. 1 \in 1..(n + 1) /\ \A i \in 1..n : i + 1 \in 1..(n + 1)
  OBVIOUS
<1>5. /\ \A G : Has(up, G) <=> Head(up) \in G \/ Has(up', G)
      /\ \A B, G : Follows(up, B, G) => Follows(up', B, G)
  BY <1>1, TailHas
<1> QED  BY <1>2, <1>3, <1>4, <1>5

\* The server answers a listen, with the data unless the hash says that the
\* device has it.
LEMMA ServeListenSync ==
    ASSUME SyncInv, DataTypes, ServeListen
    PROVE  SyncInv'
<1>1. /\ CacheTypes /\ WireTypes /\ ViewsInv /\ WireInv /\ ListensAreTops
      /\ UNCHANGED <<regs, view, listens, online, db>>
      /\ up # <<>> /\ Head(up).kind = "listen" /\ up' = Tail(up)
      /\ down \in Seq(Messages)
  BY DEF SyncInv, ServeListen, cache, WireTypes
<1>2. /\ up' \in Seq(Requests)
      /\ \A i \in DOMAIN up' : \E j \in DOMAIN up : up'[i] = up[j]
      /\ \A G : Has(up, G) <=> Head(up) \in G \/ Has(up', G)
      /\ \A B, G : Follows(up, B, G) => Follows(up', B, G)
  BY <1>1, Served
<1>3. PICK r \in Requests : r = Head(up) /\ r.kind = "listen" /\ \E i \in DOMAIN up : up[i] = r
  BY <1>1, Served
<1>4. PICK c \in Path : c = r.path /\ r.hash \in AllNodes
  BY <1>3 DEF Requests
<1>5. /\ \A q \in Path : r \notin Stops(q) /\ (r \in Asks(q) <=> q = c /\ r.current)
      /\ r.current \in BOOLEAN
  BY <1>3, <1>4 DEF Asks, Stops, Requests
<1>6. PICK n \in AllNodes : /\ n = Stored(c) /\ DOMAIN n = Under(c)
                            /\ \A x \in Under(c) : n[x] = db[x]
  <2>1. Stored(c) \in [Under(c) -> Version] /\ Under(c) \in SUBSET Leaf
    BY Unders DEF Stored, DataTypes
  <2>2. Stored(c) \in AllNodes
    BY <2>1, NodeFacts
  <2>3. DOMAIN Stored(c) = Under(c) /\ \A x \in Under(c) : Stored(c)[x] = db[x]
    BY DEF Stored
  <2> QED  BY <2>2, <2>3
<1>7. PICK d \in Messages : d = [kind |-> "data", path |-> c, node |-> n]
  BY <1>6 DEF Messages
<1>8. PICK a \in Messages : a = [kind |-> "answer", path |-> c, current |-> r.current]
  BY <1>5 DEF Messages
<1>9. /\ d.kind = "data" /\ d.node = n /\ a.kind = "answer"
      /\ \A q \in Path : /\ d \notin Answers(q) /\ (d \in Data(q) <=> q = c)
                         /\ a \notin Data(q) /\ (a \in Answers(q) <=> q = c /\ r.current)
      /\ \A x : a \notin Tells(x) /\ (d \in Tells(x) <=> x \in Under(c))
  BY <1>6, <1>7, <1>8 DEF Answers, Data, Tells
<1>10. PICK s \in Seq(Messages) : IF r.hash = n THEN s = down ELSE s = down \o <<d>>
  BY <1>1, Sent
<1>11. heard' = heard \cup {c} /\ down' = s \o <<a>>
  <2>1. AnswerTo(r) = a
    BY <1>4, <1>8 DEF AnswerTo
  <2>2. DataAt(c, Stored(c)) = d
    BY <1>6, <1>7 DEF DataAt
  <2>3. /\ heard' = heard \cup {c}
        /\ down' = down \o (IF r.hash = n THEN <<>> ELSE <<d>>) \o <<a>>
    BY <1>3, <1>4, <1>6, <2>1, <2>2 DEF ServeListen
  <2>4. down \o <<>> = down
    BY <1>1, ConcatEmptySeq
  <2> QED  BY <1>10, <2>3, <2>4
\* What the requests and the views say about the hash.
<1>12. ASSUME r.current, r.hash = n
       PROVE  /\ DOMAIN view[c].node = Under(c)
              /\ \A x \in Under(c) : view[c].node[x] = db[x]
  <2>1. \A x \in Under(c) : x \in DOMAIN view[c].node /\ db[x] <= view[c].node[x]
    BY <1>1, <1>3, <1>5, <1>6, <1>12 DEF WireInv, HashHeld, Behind
  <2>2. \A x \in DOMAIN view[c].node : view[c].node[x] <= db[x]
    BY <1>1 DEF WireInv, InOrder
  <2>3. \A x \in DOMAIN view[c].node : view[c].node[x] \in Nat /\ db[x] \in Nat /\ x \in Under(c)
    <3>1. view[c].node \in AllNodes /\ DOMAIN view[c].node \subseteq Under(c)
      BY <1>1 DEF CacheTypes, Views
    <3>2. db \in [Leaf -> Version] /\ Under(c) \subseteq Leaf
      BY Unders DEF DataTypes
    <3> QED  BY <3>1, <3>2, NodeFacts
  <2>4. DOMAIN view[c].node = Under(c)
    BY <2>1, <2>3
  <2>5. ASSUME NEW x \in Under(c) PROVE view[c].node[x] = db[x]
    BY <2>1, <2>2, <2>3
  <2> QED  BY <2>4, <2>5
<1>13. /\ \A i \in DOMAIN s : s[i] = d \/ \E j \in DOMAIN down : s[i] = down[j]
       /\ \A G : Has(s, G) <=> Has(down, G) \/ (r.hash # n /\ d \in G)
       /\ \A B, G : Precedes(down, B, G) /\ d \notin B => Precedes(s, B, G)
       /\ Sorted(s)
  <2>1. \A i \in DOMAIN down : NotNewer(down[i], d)
    BY <1>1, <1>6, <1>9 DEF WireInv, InOrder, NotNewer
  <2>2. Sorted(down)
    BY <1>1 DEF WireInv, InOrder
  <2>3. CASE r.hash = n
    BY <1>10, <2>2, <2>3
  <2>4. CASE r.hash # n
    <3>1. s = down \o <<d>>
      BY <1>10, <2>4
    <3>2. /\ \A i \in DOMAIN s : s[i] = d \/ \E j \in DOMAIN down : s[i] = down[j]
          /\ \A G : Has(s, G) <=> Has(down, G) \/ d \in G
          /\ \A B, G : Precedes(down, B, G) /\ d \notin B => Precedes(s, B, G)
          /\ Sorted(s)
      BY <1>1, <2>1, <2>2, <3>1, Sent
    <3> QED  BY <2>4, <3>2
  <2> QED  BY <2>3, <2>4
<1>14. /\ down' \in Seq(Messages)
       /\ \A i \in DOMAIN down' : down'[i] = a \/ \E j \in DOMAIN s : down'[i] = s[j]
       /\ \A G : Has(down', G) <=> Has(s, G) \/ a \in G
       /\ \A B, G : Precedes(s, B, G) /\ (a \notin B \/ Has(s, G)) => Precedes(down', B, G)
       /\ Sorted(down')
  <2>1. \A i \in DOMAIN s : NotNewer(s[i], a)
    BY <1>9 DEF NotNewer
  <2> QED  BY <1>11, <1>13, <2>1, Sent
<1>15. \A i \in DOMAIN down' : down'[i] \in {a, d} \/ \E j \in DOMAIN down : down'[i] = down[j]
  BY <1>13, <1>14
<1>16. OfflineQuiet'
  BY <1>1 DEF WireInv, OfflineQuiet
<1>17. CurrentListened'
  BY <1>1, <1>2, <1>3, <1>5, <1>9, <1>13, <1>14 DEF WireInv, CurrentListened
<1>18. HashHeld' /\ StopsFollowed'
  BY <1>1, <1>2 DEF WireInv, HashHeld, Behind, StopsFollowed
<1>19. AnswersPreceded'
  <2> SUFFICES ASSUME NEW q \in Path, DOMAIN view[q].node # Under(q)
               PROVE  Precedes(down', Answers(q), Data(q))
    BY <1>1 DEF AnswersPreceded
  <2>1. Precedes(s, Answers(q), Data(q))
    BY <1>1, <1>9, <1>13 DEF WireInv, AnswersPreceded
  <2>2. a \in Answers(q) => Has(s, Data(q))
    BY <1>9, <1>12, <1>13
  <2> QED  BY <1>14, <2>1, <2>2
<1>20. InOrder'
  <2>1. ASSUME NEW i \in DOMAIN down', down'[i].kind = "data"
        PROVE  /\ \A x \in DOMAIN down'[i].node : down'[i].node[x] <= db[x]
               /\ \A p \in Path : \A x \in DOMAIN down'[i].node \cap DOMAIN view[p].node :
                        view[p].node[x] <= down'[i].node[x]
    <3>1. CASE down'[i] = d
      <4>1. \A x \in Under(c) : db[x] <= db[x]
        BY Unders, NodeFacts DEF DataTypes
      <4>2. \A p \in Path : \A x \in DOMAIN view[p].node : view[p].node[x] <= db[x]
        BY <1>1 DEF WireInv, InOrder
      <4> QED  BY <1>6, <1>9, <3>1, <4>1, <4>2
    <3>2. CASE \E j \in DOMAIN down : down'[i] = down[j]
      BY <1>1, <2>1, <3>2 DEF WireInv, InOrder
    <3> QED  BY <1>9, <1>15, <2>1, <3>1, <3>2
  <2>2. \A p \in Path : \A x \in DOMAIN view[p].node : view[p].node[x] <= db[x]
    BY <1>1 DEF WireInv, InOrder
  <2> QED  BY <1>1, <1>14, <2>1, <2>2 DEF InOrder
<1>21. \A G : Has(down, G) => Has(down', G)
  BY <1>13, <1>14
<1>22. ListensHeard'
  <2> SUFFICES ASSUME online, NEW q \in listens, ~Has(up', Asks(q)) PROVE HeardOf(q)'
    BY <1>1 DEF ListensHeard
  <2>1. q \in Path /\ \A x : Tells(x)' = Tells(x)
    BY <1>1 DEF CacheTypes, Tells
  <2>2. CASE r \in Asks(q)
    <3>1. q = c /\ r.current
      BY <1>5, <2>1, <2>2
    <3>2. ~Has(up', Stops(q))
      <4>1. Follows(up', Stops(q), Asks(q))
        BY <1>1, <1>2 DEF WireInv, StopsFollowed
      <4> QED  BY <4>1 DEF Follows, Has
    <3>3. Has(down', Answers(q))
      BY <1>9, <1>14, <2>1, <3>1
    <3>4. CASE r.hash = n
      BY <1>1, <1>11, <1>12, <2>1, <3>1, <3>2, <3>3, <3>4 DEF HeardOf, UpToDate
    <3>5. CASE r.hash # n
      <4>1. Has(down', Data(q)) /\ \A x \in Under(q) : Has(down', Tells(x))
        BY <1>9, <1>13, <1>14, <2>1, <3>1, <3>5
      <4> QED  BY <1>1, <1>11, <2>1, <3>1, <3>2, <3>3, <4>1 DEF HeardOf
    <3> QED  BY <3>4, <3>5
  <2>3. CASE r \notin Asks(q)
    <3>1. HeardOf(q)
      BY <1>1, <1>2, <1>3, <2>3 DEF WireInv, ListensHeard
    <3>2. ~Has(up', Stops(q))
      BY <1>2, <3>1 DEF HeardOf
    <3> QED  BY <1>1, <1>11, <1>21, <2>1, <3>1, <3>2 DEF HeardOf, UpToDate
  <2> QED  BY <2>2, <2>3
<1>23. CacheTypes' /\ WireTypes' /\ ListensAreTops' /\ ViewsInv'
  <2>1. Viewed' = Viewed
    BY <1>1 DEF Viewed
  <2>2. CacheTypes' /\ WireTypes'
    BY <1>1, <1>2, <1>11, <1>14 DEF CacheTypes, WireTypes
  <2>3. ListensAreTops'
    BY <1>1, <2>1 DEF ListensAreTops, Covered
  <2>4. ViewsInv'
    BY <1>1, <2>1 DEF ViewsInv, Unviewed, HalfEmpty, FullHasAll, FullAgree, FullBelow
  <2> QED  BY <2>2, <2>3, <2>4
<1> QED
  BY <1>16, <1>17, <1>18, <1>19, <1>20, <1>22, <1>23 DEF SyncInv, WireInv

\* A listen that is stopped is heard of no more.
LEMMA ServeUnlistenSync ==
    ASSUME SyncInv, DataTypes, ServeUnlisten
    PROVE  SyncInv'
<1>1. /\ CacheTypes /\ WireTypes /\ ViewsInv /\ WireInv /\ ListensAreTops
      /\ UNCHANGED <<regs, view, listens, online, down, db>>
      /\ up # <<>> /\ Head(up).kind = "unlisten" /\ up' = Tail(up)
      /\ heard' = heard \ {Head(up).path}
  BY DEF SyncInv, ServeUnlisten, cache
<1>2. /\ up' \in Seq(Requests)
      /\ \A i \in DOMAIN up' : \E j \in DOMAIN up : up'[i] = up[j]
      /\ \A G : Has(up, G) <=> Head(up) \in G \/ Has(up', G)
      /\ \A B, G : Follows(up, B, G) => Follows(up', B, G)
  BY <1>1, Served
<1>3. PICK r \in Requests : r = Head(up) /\ r.kind = "unlisten"
  BY <1>1, Served
<1>4. \A q \in Path : r \notin Asks(q) /\ (q = r.path => r \in Stops(q))
  BY <1>3 DEF Asks, Stops
<1>5. OfflineQuiet'
  BY <1>1 DEF WireInv, OfflineQuiet
<1>6. CurrentListened' /\ HashHeld' /\ StopsFollowed'
  BY <1>1, <1>2 DEF WireInv, CurrentListened, HashHeld, Behind, StopsFollowed
<1>7. AnswersPreceded' /\ InOrder'
  BY <1>1 DEF WireInv, AnswersPreceded, InOrder
<1>8. ListensHeard'
  <2> SUFFICES ASSUME online, NEW q \in listens, ~Has(up', Asks(q)) PROVE HeardOf(q)'
    BY <1>1 DEF ListensHeard
  <2>1. q \in Path /\ \A x : Tells(x)' = Tells(x)
    BY <1>1 DEF CacheTypes, Tells
  <2>2. HeardOf(q)
    BY <1>1, <1>2, <1>3, <1>4, <2>1 DEF WireInv, ListensHeard
  <2>3. q # r.path /\ ~Has(up', Stops(q))
    BY <1>2, <1>3, <1>4, <2>1, <2>2 DEF HeardOf
  <2> QED  BY <1>1, <1>3, <2>1, <2>2, <2>3 DEF HeardOf, UpToDate
<1>9. CacheTypes' /\ WireTypes' /\ ListensAreTops' /\ ViewsInv'
  <2>1. Viewed' = Viewed
    BY <1>1 DEF Viewed
  <2>2. CacheTypes' /\ WireTypes'
    BY <1>1, <1>2 DEF CacheTypes, WireTypes
  <2>3. ListensAreTops'
    BY <1>1, <2>1 DEF ListensAreTops, Covered
  <2>4. ViewsInv'
    BY <1>1, <2>1 DEF ViewsInv, Unviewed, HalfEmpty, FullHasAll, FullAgree, FullBelow
  <2> QED  BY <2>2, <2>3, <2>4
<1> QED
  BY <1>5, <1>6, <1>7, <1>8, <1>9 DEF SyncInv, WireInv

\* A change by somebody else: whoever listens at or above the event is told.
LEMMA WriteSync ==
    ASSUME SyncInv, DataTypes, NEW l \in Leaf, Write(l)
    PROVE  SyncInv' /\ DataTypes'
<1>1. /\ CacheTypes /\ WireTypes /\ ViewsInv /\ WireInv /\ ListensAreTops
      /\ UNCHANGED <<regs, view, listens, online, up, heard>>
      /\ l \in Path /\ Under(l) = {l} /\ down \in Seq(Messages)
  BY Tree, Unders DEF SyncInv, Write, cache, WireTypes
<1>2. /\ counts.writes \in Nat /\ counts.writes < MaxWrites /\ MaxWrites \in Nat
      /\ counts' = [counts EXCEPT !.writes = @ + 1]
      /\ db' = [db EXCEPT ![l] = @ + 1]
  BY FiniteAssumption DEF Write, Count, DataTypes
<1>3. db \in [Leaf -> Version] /\ \A x \in Leaf : db[x] \in Nat /\ db[x] <= counts.writes + 1
  BY NodeFacts DEF DataTypes
<1>4. /\ counts' \in [writes : Nat, visits : Nat, moves : Nat, drops : Nat]
      /\ counts'.writes = counts.writes + 1
  BY <1>2 DEF DataTypes
<1>5. db' \in [Leaf -> Nat] /\ db'[l] = db[l] + 1 /\ \A x \in Leaf \ {l} : db'[x] = db[x]
  BY <1>2, <1>3
<1>6. \A x \in Leaf : db[x] <= db'[x] /\ db'[x] <= counts'.writes + 1 /\ 1 <= db'[x]
  <2>1. \A x \in Leaf : 1 <= db[x]
    BY <1>3 DEF Version
  <2> QED  BY <1>2, <1>3, <1>4, <1>5, <2>1
<1>7. counts'.writes <= MaxWrites
  BY <1>2, <1>4
<1>8. db' \in [Leaf -> Version]
  <2>1. \A x \in Leaf : db'[x] \in Version
    BY <1>2, <1>4, <1>5, <1>6, <1>7 DEF Version
  <2> QED  BY <1>5, <2>1
<1>9. DataTypes'
  BY <1>4, <1>6, <1>7, <1>8 DEF DataTypes
<1>10. PICK n \in AllNodes : n = [x \in {l} |-> db'[l]] /\ DOMAIN n = {l} /\ n[l] = db'[l]
  <2>1. [x \in {l} |-> db'[l]] \in [{l} -> Version] /\ {l} \in SUBSET Leaf
    BY <1>8
  <2>2. PICK f : f = [x \in {l} |-> db'[l]]
    OBVIOUS
  <2>3. f \in AllNodes
    BY <2>1, <2>2, NodeFacts
  <2> QED  BY <2>2, <2>3
<1>11. PICK d \in Messages : d = [kind |-> "data", path |-> l, node |-> n]
  <2>1. [kind |-> "data", path |-> l, node |-> n] \in Messages
    BY <1>1, <1>10 DEF Messages
  <2> QED  BY <2>1
<1>12. down' = IF l \in heard \/ Covered(l, heard) THEN down \o <<d>> ELSE down
  <2>1. DataAt(l, [x \in {l} |-> db'[l]]) = d
    BY <1>10, <1>11 DEF DataAt
  <2> QED  BY <1>1, <2>1, AppendIsConcat DEF Write
<1>13. d.kind = "data" /\ d.node = n /\ \A q \in Path : d \notin Answers(q)
  BY <1>11 DEF Answers
\* What is there keeps its place, and its versions are not ahead of the new ones.
<1>14. /\ \A i \in DOMAIN down : down[i].kind = "data" =>
                \A x \in DOMAIN down[i].node : /\ down[i].node[x] <= db'[x]
                                               /\ x \in Leaf
       /\ \A p \in Path : \A x \in DOMAIN view[p].node : view[p].node[x] <= db'[x]
  <2>1. ASSUME NEW i \in DOMAIN down, down[i].kind = "data", NEW x \in DOMAIN down[i].node
        PROVE  down[i].node[x] <= db'[x] /\ x \in Leaf
    <3>1. down[i] \in Messages
      BY <1>1, LenProperties, ElementOfSeq
    <3>2. x \in Leaf /\ down[i].node[x] \in Nat
      BY <2>1, <3>1, NodeFacts DEF Messages
    <3>3. down[i].node[x] <= db[x]
      BY <1>1, <2>1 DEF WireInv, InOrder
    <3> QED  BY <1>3, <1>5, <1>6, <3>2, <3>3
  <2>2. ASSUME NEW p \in Path, NEW x \in DOMAIN view[p].node PROVE view[p].node[x] <= db'[x]
    <3>1. view[p].node \in AllNodes
      BY <1>1 DEF CacheTypes, Views
    <3>2. x \in Leaf /\ view[p].node[x] \in Nat
      BY <2>2, <3>1, NodeFacts
    <3>3. view[p].node[x] <= db[x]
      BY <1>1, <2>2 DEF WireInv, InOrder
    <3> QED  BY <1>3, <1>5, <1>6, <3>2, <3>3
  <2> QED  BY <2>1, <2>2
<1>15. /\ down' \in Seq(Messages) /\ Sorted(down')
       /\ \A i \in DOMAIN down' : down'[i] = d \/ \E j \in DOMAIN down : down'[i] = down[j]
       /\ \A G : Has(down, G) => Has(down', G)
       /\ \A q \in Path : Has(down', Answers(q)) => Has(down, Answers(q))
       /\ \A q \in Path : Precedes(down, Answers(q), Data(q)) =>
                            Precedes(down', Answers(q), Data(q))
       /\ l \in heard \/ Covered(l, heard) => \A G : d \in G => Has(down', G)
  <2>1. \A i \in DOMAIN down : NotNewer(down[i], d)
    BY <1>10, <1>13, <1>14 DEF NotNewer
  <2>2. Sorted(down)
    BY <1>1 DEF WireInv, InOrder
  <2>3. CASE l \in heard \/ Covered(l, heard)
    <3>1. down' = down \o <<d>>
      BY <1>12, <2>3
    <3>2. /\ down' \in Seq(Messages) /\ Sorted(down')
          /\ \A i \in DOMAIN down' : down'[i] = d \/ \E j \in DOMAIN down : down'[i] = down[j]
          /\ \A G : Has(down', G) <=> Has(down, G) \/ d \in G
          /\ \A B, G : Precedes(down, B, G) /\ d \notin B => Precedes(down', B, G)
      BY <1>1, <2>1, <2>2, <3>1, Sent
    <3> QED  BY <1>13, <3>2
  <2>4. CASE ~(l \in heard \/ Covered(l, heard))
    <3>1. down' = down
      BY <1>12, <2>4
    <3> QED  BY <1>1, <2>2, <2>4, <3>1
  <2> QED  BY <2>3, <2>4
<1>16. OfflineQuiet'
  <2>1. heard = {} => down' = down
    BY <1>12 DEF Covered
  <2> QED  BY <1>1, <2>1 DEF WireInv, OfflineQuiet
<1>17. CurrentListened' /\ HashHeld' /\ StopsFollowed' /\ AnswersPreceded'
  BY <1>1, <1>15
  DEF WireInv, CurrentListened, HashHeld, Behind, StopsFollowed, AnswersPreceded
<1>18. InOrder'
  <2>1. ASSUME NEW i \in DOMAIN down', down'[i].kind = "data"
        PROVE  /\ \A x \in DOMAIN down'[i].node : down'[i].node[x] <= db'[x]
               /\ \A p \in Path : \A x \in DOMAIN down'[i].node \cap DOMAIN view[p].node :
                        view[p].node[x] <= down'[i].node[x]
    <3>1. CASE down'[i] = d
      <4>1. db'[l] <= db'[l]
        BY <1>5
      <4> QED  BY <1>10, <1>13, <1>14, <3>1, <4>1
    <3>2. CASE \E j \in DOMAIN down : down'[i] = down[j]
      BY <1>1, <1>14, <2>1, <3>2 DEF WireInv, InOrder
    <3> QED  BY <1>15, <2>1, <3>1, <3>2
  <2> QED  BY <1>1, <1>14, <1>15, <2>1 DEF InOrder
<1>19. ASSUME online, NEW q \in listens, HeardOf(q) PROVE HeardOf(q)'
  <2>1. q \in Path /\ q \in heard
    BY <1>1, <1>19 DEF CacheTypes, HeardOf
  <2>2. ASSUME NEW x \in Under(q) PROVE Has(down', Tells(x)') \/ UpToDate(q, x)'
    <3>1. x \in Leaf
      BY <2>1, Unders
    <3>2. CASE x = l
      <4>1. l \in heard \/ Covered(l, heard)
        BY <2>1, <3>2 DEF Under, Covered
      <4>2. d \in Tells(x)'
        BY <1>10, <1>13, <3>2 DEF Tells
      <4> QED  BY <1>15, <4>1, <4>2
    <3>3. CASE x # l
      <4>1. db'[x] = db[x] /\ Tells(x)' = Tells(x)
        BY <1>5, <3>1, <3>3 DEF Tells
      <4> QED  BY <1>1, <1>15, <1>19, <4>1 DEF HeardOf, UpToDate
    <3> QED  BY <3>2, <3>3
  <2> QED  BY <1>1, <1>15, <1>19, <2>1, <2>2 DEF HeardOf
<1>20. ListensHeard'
  BY <1>1, <1>19 DEF WireInv, ListensHeard
<1>21. CacheTypes' /\ WireTypes' /\ ListensAreTops' /\ ViewsInv'
  <2>1. Viewed' = Viewed
    BY <1>1 DEF Viewed
  <2>2. CacheTypes' /\ WireTypes'
    BY <1>1, <1>15 DEF CacheTypes, WireTypes
  <2>3. ListensAreTops'
    BY <1>1, <2>1 DEF ListensAreTops, Covered
  <2>4. ViewsInv'
    BY <1>1, <2>1 DEF ViewsInv, Unviewed, HalfEmpty, FullHasAll, FullAgree, FullBelow
  <2> QED  BY <2>2, <2>3, <2>4
<1> QED
  BY <1>9, <1>16, <1>17, <1>18, <1>20, <1>21 DEF SyncInv, WireInv

\* A connection that comes up asks for every listen.
LEMMA ConnectSync ==
    ASSUME SyncInv, Connect
    PROVE  SyncInv'
<1>1. /\ CacheTypes /\ WireTypes /\ ViewsInv /\ WireInv /\ ListensAreTops
      /\ UNCHANGED <<regs, view, listens, down, heard, db>>
      /\ ~online /\ online' = TRUE /\ down = <<>> /\ listens \in SUBSET Path
  BY DEF SyncInv, Connect, cache, WireInv, OfflineQuiet, CacheTypes
<1>2. PICK on \in SetToSeqs(listens) :
        up' = [i \in DOMAIN on |-> [kind |-> "listen", path |-> on[i],
                                    hash |-> view[on[i]].node, current |-> TRUE]]
  BY DEF Connect
<1>3. up' = [i \in DOMAIN on |-> ListenTo(on[i])]
  BY <1>1, <1>2 DEF ListenTo
<1>4. ViewTypes'
  BY <1>1 DEF CacheTypes, ViewTypes
<1>5. PICK ons : /\ ons = up' /\ ons \in Seq(Requests)
                 /\ \A q \in listens : Has(ons, Asks(q))
                 /\ \A i \in DOMAIN ons : \A q \in Path : ons[i] \notin Stops(q)
                 /\ \A i \in DOMAIN ons : \A q \in Path :
                        ons[i] \in Asks(q) => q \in listens /\ ons[i].hash = view'[q].node
  <2> DEFINE sent == [i \in DOMAIN on |-> ListenTo(on[i])]
  <2>1. /\ sent \in Seq(Requests)
        /\ \A q \in listens : Has(sent, Asks(q))
        /\ \A i \in DOMAIN sent : \A q \in Path : sent[i] \notin Stops(q)
        /\ \A i \in DOMAIN sent : \A q \in Path :
                sent[i] \in Asks(q) => q \in listens /\ sent[i].hash = view'[q].node
    BY <1>1, <1>4, SentListens
  <2>2. up' = sent
    BY <1>3
  <2> HIDE DEF sent
  <2> QED  BY <2>1, <2>2
<1>6. \A i \in DOMAIN down : FALSE
  BY <1>1
<1>7. OfflineQuiet' /\ CurrentListened' /\ StopsFollowed' /\ AnswersPreceded'
  BY <1>1, <1>5, <1>6
  DEF OfflineQuiet, CurrentListened, StopsFollowed, AnswersPreceded, Has, Follows, Precedes
<1>8. HashHeld'
  <2> SUFFICES ASSUME NEW i \in DOMAIN ons, NEW q \in Path, ons[i] \in Asks(q),
                      NEW x \in DOMAIN ons[i].hash
               PROVE  x \in DOMAIN view'[q].node /\ ons[i].hash[x] <= view'[q].node[x]
    BY <1>5 DEF HashHeld, Behind
  <2>1. PICK n \in AllNodes : n = view'[q].node /\ ons[i].hash = n
    BY <1>4, <1>5 DEF ViewTypes, Views
  <2>2. x \in DOMAIN n /\ n[x] \in Nat
    BY <2>1, NodeFacts
  <2> QED  BY <2>1, <2>2
<1>9. InOrder' /\ ListensHeard'
  BY <1>1, <1>5, <1>6 DEF WireInv, InOrder, Sorted, ListensHeard
<1>10. CacheTypes' /\ WireTypes' /\ ListensAreTops' /\ ViewsInv'
  <2>1. Viewed' = Viewed
    BY <1>1 DEF Viewed
  <2>2. CacheTypes' /\ WireTypes'
    BY <1>1, <1>5 DEF CacheTypes, WireTypes
  <2>3. ListensAreTops'
    BY <1>1, <2>1 DEF ListensAreTops, Covered
  <2>4. ViewsInv'
    BY <1>1, <2>1 DEF ViewsInv, Unviewed, HalfEmpty, FullHasAll, FullAgree, FullBelow
  <2> QED  BY <2>2, <2>3, <2>4
<1> QED
  BY <1>7, <1>8, <1>9, <1>10 DEF SyncInv, WireInv

\* What is lost with the connection was not yet said of the views.
LEMMA DisconnectSync ==
    ASSUME SyncInv, Disconnect
    PROVE  SyncInv'
<1>1. /\ CacheTypes /\ WireTypes /\ ViewsInv /\ WireInv /\ ListensAreTops
      /\ UNCHANGED <<regs, view, listens, db>>
      /\ online' = FALSE /\ up' = <<>> /\ down' = <<>> /\ heard' = {}
  BY DEF SyncInv, Disconnect, cache
<1>2. /\ \A i \in DOMAIN up' : FALSE
      /\ \A i \in DOMAIN down' : FALSE
  BY <1>1
<1>3. OfflineQuiet' /\ CurrentListened' /\ HashHeld' /\ StopsFollowed' /\ AnswersPreceded'
  BY <1>1, <1>2
  DEF OfflineQuiet, CurrentListened, HashHeld, StopsFollowed, AnswersPreceded, Has, Follows,
      Precedes
<1>4. InOrder' /\ ListensHeard'
  BY <1>1, <1>2 DEF WireInv, InOrder, Sorted, ListensHeard
<1>5. Viewed' = Viewed
  BY <1>1 DEF Viewed
<1>6. CacheTypes' /\ WireTypes' /\ ListensAreTops'
  <2>1. <<>> \in Seq(Requests) /\ <<>> \in Seq(Messages)
    BY EmptySeq
  <2> QED  BY <1>1, <1>5, <2>1 DEF CacheTypes, WireTypes, ListensAreTops, Covered
<1>7. ViewsInv'
  BY <1>1, <1>5 DEF ViewsInv, Unviewed, HalfEmpty, FullHasAll, FullAgree, FullBelow
<1> QED
  BY <1>3, <1>4, <1>6, <1>7 DEF SyncInv, WireInv

LEMMA StaySync ==
    ASSUME SyncInv, UNCHANGED <<regs, view, listens, online, up, down, heard, db>>
    PROVE  SyncInv'
<1>1. Viewed' = Viewed /\ CacheTypes' /\ WireTypes'
  BY DEF SyncInv, Viewed, CacheTypes, WireTypes
<1>2. ListensAreTops' /\ ViewsInv'
  BY <1>1
  DEF SyncInv, ListensAreTops, Covered, ViewsInv, Unviewed, HalfEmpty, FullHasAll, FullAgree,
      FullBelow
<1>3. \A x : Tells(x)' = Tells(x)
  BY DEF Tells
<1>4. WireInv'
  BY <1>3
  DEF SyncInv, WireInv, OfflineQuiet, CurrentListened, HashHeld, Behind, StopsFollowed,
      AnswersPreceded, InOrder, ListensHeard, HeardOf, UpToDate
<1> QED  BY <1>1, <1>2, <1>4 DEF SyncInv

-----------------------------------------------------------------------------
(* The events on their way to the screens.                                 *)

\* Of the events to the observers O, whatever is not of the node n is followed
\* by one that is; if there are none at all, the screen has n already.
EventsTo(O)  == {e \in Events : e.to \in O}
Newest(O, n) == {e \in EventsTo(O) : e.node = n}
Shows(s, O, n, old) ==
    /\ Follows(s, EventsTo(O) \ Newest(O, n), Newest(O, n))
    /\ Has(s, EventsTo(O)) \/ old = n

\* The events for the pairs S of a path and its observer.
LEMMA Raised ==
    ASSUME ViewTypes', ScreenTypes, NEW S \in SUBSET (Path \X Observer),
           \A s \in S : s[2] = "tab" => s[1] = Tab, mainq' = mainq \o EventsOf(S)
    PROVE  /\ mainq' \in Seq(Events)
           /\ \A O : \A p \in Path : (\A s \in S : s[2] \in O => s[1] = p) =>
                /\ view'[p].full /\ (\E o \in O : <<p, o>> \in S) =>
                        \A old : Shows(mainq', O, view'[p].node, old)
                /\ \A old : Shows(mainq, O, view'[p].node, old) =>
                                Shows(mainq', O, view'[p].node, old)
                /\ ~view'[p].full /\ ~Has(mainq, EventsTo(O)) => ~Has(mainq', EventsTo(O))
<1> DEFINE raised == {[to |-> s[2], node |-> view'[s[1]].node] : s \in {x \in S : view'[x[1]].full}}
<1>1. /\ \A s \in S : s[1] \in Path /\ s[2] \in Observer /\ s = <<s[1], s[2]>>
      /\ mainq \in Seq(Events)
  BY DEF ScreenTypes
<1>2. raised \subseteq Events
  <2> SUFFICES ASSUME NEW s \in S, view'[s[1]].full
               PROVE  [to |-> s[2], node |-> view'[s[1]].node] \in Events
    OBVIOUS
  <2>1. PICK p \in Path, o \in Observer : p = s[1] /\ o = s[2] /\ (o = "tab" => p = Tab)
    BY <1>1
  <2>2. PICK n \in AllNodes : n = view'[p].node /\ DOMAIN n \subseteq Under(p)
    BY DEF ViewTypes, Views
  <2>3. [to |-> o, node |-> n] \in Events
    BY <2>1, <2>2 DEF Events
  <2> QED  BY <2>1, <2>2, <2>3
<1>3. IsFiniteSet(raised)
  <2>1. IsFiniteSet(Observer)
    <3>1. IsFiniteSet({"tab"}) /\ IsFiniteSet(Details)
      <4>1. Details = {"load"} \cup {"appear"}
        BY DEF Details
      <4> QED  BY <4>1, FS_Singleton, FS_Union
    <3> QED  BY <3>1, FiniteAssumption, FS_Union DEF Observer
  <2>2. IsFiniteSet(S)
    BY <2>1, FiniteAssumption, FS_Product, FS_Subset
  <2>3. PICK T : T = {x \in S : view'[x[1]].full} /\ IsFiniteSet(T)
    BY <2>2, FS_Subset
  <2>4. PICK f : f = [s \in T |-> [to |-> s[2], node |-> view'[s[1]].node]]
    OBVIOUS
  <2>5. raised = {f[s] : s \in T}
    BY <2>3, <2>4
  <2>6. f \in Surjection(T, {f[s] : s \in T})
    BY <2>4 DEF Surjection
  <2> QED  BY <2>3, <2>5, <2>6, FS_Surjection
<1>4. PICK t \in Seq(Events) : /\ t = EventsOf(S)
                               /\ \A i \in DOMAIN t : t[i] \in raised
                               /\ \A e \in raised : \E i \in DOMAIN t : t[i] = e
  <2>1. EventsOf(S) = SetToSeq(raised)
    BY DEF EventsOf
  <2> HIDE DEF raised
  <2>2. /\ SetToSeq(raised) \in Seq(raised)
        /\ \A e \in raised : \E i \in DOMAIN SetToSeq(raised) : SetToSeq(raised)[i] = e
    BY <1>3, ListedSomehow
  <2>3. PICK t \in Seq(raised) : t = SetToSeq(raised)
    BY <2>2
  <2>4. \A i \in DOMAIN t : t[i] \in raised
    BY LenProperties, ElementOfSeq
  <2>5. t \in Seq(Events)
    BY <1>2, <2>4, SeqDef
  <2> QED  BY <2>1, <2>2, <2>3, <2>4, <2>5
<1>5. mainq' = mainq \o t /\ mainq' \in Seq(Events)
  BY <1>1, <1>4, ConcatAt
<1>6. \A G : Has(mainq', G) <=> Has(mainq, G) \/ Has(t, G)
  BY <1>1, <1>5, ConcatHas
<1>7. \A B, G : Follows(mainq, B, G) \/ Has(t, G) => (~Has(t, B) => Follows(mainq', B, G))
  BY <1>1, <1>5, ConcatHas
<1>8. ASSUME NEW O, NEW p \in Path, \A s \in S : s[2] \in O => s[1] = p,
             NEW n, n = view'[p].node
      PROVE  /\ view'[p].full /\ (\E o \in O : <<p, o>> \in S) => Has(t, Newest(O, n))
             /\ ~Has(t, EventsTo(O) \ Newest(O, n))
             /\ ~view'[p].full => ~Has(t, EventsTo(O))
  <2>1. ASSUME view'[p].full, NEW o \in O, <<p, o>> \in S PROVE Has(t, Newest(O, n))
    <3>1. PICK e : e = [to |-> o, node |-> n]
      OBVIOUS
    <3>2. e \in raised
      <4>1. PICK s \in S : s = <<p, o>> /\ s[1] = p /\ s[2] = o
        BY <2>1
      <4> QED  BY <1>8, <2>1, <3>1, <4>1
    <3>3. e.to = o /\ e.node = n /\ e \in Events
      BY <1>2, <3>1, <3>2
    <3>4. e \in Newest(O, n)
      BY <2>1, <3>3 DEF Newest, EventsTo
    <3> QED  BY <1>4, <3>2, <3>4 DEF Has
  <2>2. ASSUME NEW i \in DOMAIN t, t[i] \in EventsTo(O)
        PROVE  t[i] \in Newest(O, n) /\ view'[p].full
    <3>1. PICK s \in S : view'[s[1]].full /\ t[i] = [to |-> s[2], node |-> view'[s[1]].node]
      BY <1>4
    <3>2. t[i].to = s[2] /\ t[i].node = view'[s[1]].node
      BY <3>1
    <3>3. s[1] = p
      BY <1>8, <2>2, <3>2 DEF EventsTo
    <3> QED  BY <1>8, <2>2, <3>1, <3>2, <3>3 DEF Newest
  <2> QED  BY <2>1, <2>2 DEF Has
<1> HIDE DEF raised
<1>9. ASSUME NEW O, NEW p \in Path, \A s \in S : s[2] \in O => s[1] = p
      PROVE  /\ view'[p].full /\ (\E o \in O : <<p, o>> \in S) =>
                    \A old : Shows(mainq', O, view'[p].node, old)
             /\ \A old : Shows(mainq, O, view'[p].node, old) =>
                            Shows(mainq', O, view'[p].node, old)
             /\ ~view'[p].full /\ ~Has(mainq, EventsTo(O)) => ~Has(mainq', EventsTo(O))
  <2>1. PICK n : n = view'[p].node
    OBVIOUS
  <2>2. /\ view'[p].full /\ (\E o \in O : <<p, o>> \in S) => Has(t, Newest(O, n))
        /\ ~Has(t, EventsTo(O) \ Newest(O, n))
        /\ ~view'[p].full => ~Has(t, EventsTo(O))
    BY <1>8, <1>9, <2>1
  <2>3. Has(t, Newest(O, n)) => Has(t, EventsTo(O))
    BY DEF Has, Newest
  <2>4. ASSUME Has(t, Newest(O, n)), NEW old PROVE Shows(mainq', O, n, old)
    BY <1>6, <1>7, <2>2, <2>3, <2>4 DEF Shows
  <2>5. ASSUME NEW old, Shows(mainq, O, n, old) PROVE Shows(mainq', O, n, old)
    BY <1>6, <1>7, <2>2, <2>5 DEF Shows
  <2> QED  BY <1>6, <2>1, <2>2, <2>4, <2>5
<1> QED  BY <1>5, <1>9

\* An event that arrives is shown; an event to others changes nothing.
LEMMA Shown ==
    ASSUME ScreenTypes, mainq # <<>>, mainq' = Tail(mainq)
    PROVE  /\ Head(mainq) \in Events /\ mainq' \in Seq(Events)
           /\ \A O : /\ Head(mainq).to \notin O =>
                        /\ \A n, old : Shows(mainq, O, n, old) => Shows(mainq', O, n, old)
                        /\ Has(mainq', EventsTo(O)) => Has(mainq, EventsTo(O))
                     /\ Head(mainq).to \in O =>
                        /\ \A n, old : Shows(mainq, O, n, old) =>
                                            Shows(mainq', O, n, Head(mainq).node)
                        /\ Has(mainq, EventsTo(O))
<1>1. mainq \in Seq(Events)
  BY DEF ScreenTypes
<1>2. PICK e \in Events : e = Head(mainq) /\ mainq' \in Seq(Events)
  BY <1>1, TailAt
<1>3. /\ \A G : Has(mainq, G) <=> e \in G \/ Has(mainq', G)
      /\ \A B, G : Follows(mainq, B, G) => Follows(mainq', B, G)
      /\ \A B, G : Follows(mainq, B, G) /\ e \in B => Has(mainq', G)
  BY <1>1, <1>2, TailHas
<1>4. ASSUME NEW O, e.to \notin O
      PROVE  /\ \A n, old : Shows(mainq, O, n, old) => Shows(mainq', O, n, old)
             /\ Has(mainq', EventsTo(O)) => Has(mainq, EventsTo(O))
  <2>1. e \notin EventsTo(O)
    BY <1>4 DEF EventsTo
  <2> QED  BY <1>3, <2>1 DEF Shows
<1>5. ASSUME NEW O, e.to \in O
      PROVE  /\ \A n, old : Shows(mainq, O, n, old) => Shows(mainq', O, n, e.node)
             /\ Has(mainq, EventsTo(O))
  <2>1. e \in EventsTo(O)
    BY <1>5 DEF EventsTo
  <2>2. ASSUME NEW n, NEW old, Shows(mainq, O, n, old) PROVE Shows(mainq', O, n, e.node)
    <3>1. e \in Newest(O, n) => e.node = n
      BY DEF Newest
    <3>2. Has(mainq', Newest(O, n)) => Has(mainq', EventsTo(O))
      BY DEF Has, Newest
    <3>3. PICK B, G : B = EventsTo(O) \ Newest(O, n) /\ G = Newest(O, n)
      OBVIOUS
    <3>4. Follows(mainq, B, G)
      BY <2>2, <3>3 DEF Shows
    <3>5. Follows(mainq', B, G) /\ (e \in B => Has(mainq', G))
      BY <1>3, <3>4
    <3> QED  BY <2>1, <3>1, <3>2, <3>3, <3>5 DEF Shows
  <2> QED  BY <1>3, <2>1, <2>2
<1> QED  BY <1>2, <1>4, <1>5

-----------------------------------------------------------------------------
(* The screens.                                                            *)

\* Who observes what: the tab its list, the reads all teams, the details an
\* event, at their reference only, and only while visible.
Registered ==
    /\ regs[Tab] = (IF tab.loaded THEN {"tab"} ELSE {}) /\ regs[Teams] \subseteq Read
    /\ \A p \in Path \ {Tab, Teams} : regs[p] \subseteq Details
DetailsObserve ==
    \A p \in Path : regs[p] \cap Details # {} =>
                        details.at = "visible" /\ details.ref = p
DetailsOwn ==
    details.at = "visible" => details.ref \notin {Tab, Teams} /\ "appear" \in regs[details.ref]

\* Until its view is complete the tab shows nothing that could be opened.
TabBefore ==
    \/ view[Tab].full
    \/ tab.node = Empty /\ details.at = "closed" /\ ~Has(mainq, EventsTo({"tab"}))

\* What a complete view holds is shown, or on its way behind everything older.
TabCurrent == view[Tab].full => Shows(mainq, {"tab"}, view[Tab].node, tab.node)
DetailsCurrent ==
    details.at = "visible" /\ details.ref \in Leaf /\ view[details.ref].full =>
        Shows(mainq, Details, view[details.ref].node, details.event)

ScreensInv == /\ ScreenTypes /\ Registered /\ DetailsObserve /\ DetailsOwn
              /\ TabBefore /\ TabCurrent /\ DetailsCurrent

LEMMA Observers == /\ "tab" \notin Details /\ Read \cap Details = {} /\ "tab" \notin Read
                   /\ {"tab"} \subseteq Observer /\ Details \subseteq Observer
                   /\ Read \subseteq Observer /\ "appear" \in Details
                   /\ "closed" \notin Observer
BY ReadAssumption DEF Details, Observer

LEMMA TabFirstHolds == ScreensInv => TabFirst
<1> SUFFICES ASSUME ScreensInv, ~view[Tab].full, NEW p \in Path \ {Tab, Teams} PROVE regs[p] = {}
  BY DEF TabFirst
<1>1. details.at = "closed"
  BY DEF ScreensInv, TabBefore
<1> QED  BY <1>1 DEF ScreensInv, Registered, DetailsObserve

\* Steps that leave the screens, the tab's view and the details' alone, and
\* send them no event.
LEMMA ScreensKept ==
    ASSUME ScreensInv, UNCHANGED <<tab, details>>, teamIdGlobal' \in Team,
           reads' \in [Read -> {"new", "asked", "done"}],
           \A p \in Path \ {Teams} : regs'[p] = regs[p] /\ view'[p] = view[p],
           regs'[Teams] \subseteq Read, mainq' \in Seq(Events),
           \A O \in {{"tab"}, Details} : \A n, old :
                Shows(mainq, O, n, old) => Shows(mainq', O, n, old),
           Has(mainq', EventsTo({"tab"})) => Has(mainq, EventsTo({"tab"}))
    PROVE  ScreensInv'
<1>1. ScreenTypes'
  BY DEF ScreensInv, ScreenTypes
<1>2. Tab \in Path /\ Tab # Teams
  BY Tree
<1>3. Registered'
  BY <1>2 DEF ScreensInv, Registered
<1>4. DetailsObserve'
  BY Observers DEF ScreensInv, DetailsObserve
<1>5. details.ref \in Path
  BY DEF ScreensInv, ScreenTypes
<1>6. DetailsOwn'
  BY <1>5 DEF ScreensInv, DetailsOwn
<1>7. TabBefore' /\ TabCurrent'
  <2>1. EventsTo({"tab"})' = EventsTo({"tab"})
    BY DEF EventsTo
  <2>2. view'[Tab] = view[Tab]
    BY <1>2
  <2> QED  BY <2>1, <2>2 DEF ScreensInv, TabBefore, TabCurrent
<1>8. DetailsCurrent'
  <2> SUFFICES ASSUME details.at = "visible", details.ref \in Leaf, view'[details.ref].full
               PROVE  Shows(mainq', Details, view'[details.ref].node, details.event)
    BY DEF DetailsCurrent
  <2>1. view'[details.ref] = view[details.ref]
    BY <1>5 DEF ScreensInv, DetailsOwn
  <2> QED  BY <2>1 DEF ScreensInv, DetailsCurrent
<1> QED  BY <1>1, <1>3, <1>4, <1>6, <1>7, <1>8 DEF ScreensInv

\* The library tells of every view that has become complete or has changed.
LEMMA RaiseScreens ==
    ASSUME SyncInv, ScreensInv, ViewTypes', ViewsInv', RaiseChanges,
           UNCHANGED <<regs, tab, details, teamIdGlobal, reads>>,
           \A p \in Path : view[p].full => view'[p].full
    PROVE  ScreensInv'
<1> DEFINE news == {p \in Path : view'[p].full /\ view'[p] # view[p]}
           S    == {s \in news \X Observer : s[2] \in regs[s[1]]}
<1>1. S \in SUBSET (Path \X Observer) /\ mainq' = mainq \o EventsOf(S)
  BY DEF RaiseChanges
<1>2. \A s \in S : s[1] \in Path /\ s[2] \in regs[s[1]]
  OBVIOUS
<1>3. \A p \in news : \A o \in Observer : o \in regs[p] => <<p, o>> \in S
  OBVIOUS
<1>4. \A p \in Path : view'[p].full /\ view'[p] # view[p] => p \in news
  OBVIOUS
<1> HIDE DEF S, news
<1>5. \A s \in S : s[2] = "tab" => s[1] = Tab
  BY <1>2, Observers DEF ScreensInv, Registered
<1>6. ScreenTypes
  BY DEF ScreensInv
<1>7. /\ mainq' \in Seq(Events)
      /\ \A O : \A p \in Path : (\A s \in S : s[2] \in O => s[1] = p) =>
            /\ view'[p].full /\ (\E o \in O : <<p, o>> \in S) =>
                    \A old : Shows(mainq', O, view'[p].node, old)
            /\ \A old : Shows(mainq, O, view'[p].node, old) =>
                            Shows(mainq', O, view'[p].node, old)
            /\ ~view'[p].full /\ ~Has(mainq, EventsTo(O)) => ~Has(mainq', EventsTo(O))
  BY <1>1, <1>5, <1>6, Raised
<1>8. \A p \in Path : view'[p].full => regs[p] # {}
  BY NoViewFacts DEF ViewsInv, Unviewed, Viewed
<1>9. Tab \in Path /\ \A s \in S : s[2] \in {"tab"} => s[1] = Tab
  BY <1>5, Tree
<1>10. ScreenTypes'
  BY <1>6, <1>7 DEF ScreenTypes
<1>11. Registered' /\ DetailsObserve' /\ DetailsOwn'
  BY DEF ScreensInv, Registered, DetailsObserve, DetailsOwn
<1>12. TabBefore'
  <2>1. ~view'[Tab].full /\ ~Has(mainq, EventsTo({"tab"})) => ~Has(mainq', EventsTo({"tab"}))
    BY <1>7, <1>9
  <2>2. EventsTo({"tab"})' = EventsTo({"tab"})
    BY DEF EventsTo
  <2> QED  BY <1>9, <2>1, <2>2 DEF ScreensInv, TabBefore
<1>13. TabCurrent'
  <2> SUFFICES ASSUME view'[Tab].full PROVE Shows(mainq', {"tab"}, view'[Tab].node, tab.node)
    BY DEF TabCurrent
  <2>1. CASE view'[Tab] = view[Tab]
    <3>1. Shows(mainq, {"tab"}, view'[Tab].node, tab.node)
      BY <2>1 DEF ScreensInv, TabCurrent
    <3> QED  BY <1>7, <1>9, <3>1
  <2>2. CASE view'[Tab] # view[Tab]
    <3>1. Tab \in news /\ "tab" \in regs[Tab]
      BY <1>4, <1>8, <1>9, <2>2 DEF ScreensInv, Registered
    <3>2. <<Tab, "tab">> \in S
      BY <1>3, <3>1, Observers
    <3> QED  BY <1>7, <1>9, <3>2
  <2> QED  BY <2>1, <2>2
<1>14. DetailsCurrent'
  <2> SUFFICES ASSUME details.at = "visible", details.ref \in Leaf, view'[details.ref].full
               PROVE  Shows(mainq', Details, view'[details.ref].node, details.event)
    BY DEF DetailsCurrent
  <2>1. details.ref \in Path /\ \A s \in S : s[2] \in Details => s[1] = details.ref
    BY <1>2, <1>6 DEF ScreensInv, ScreenTypes, DetailsObserve
  <2>2. CASE view'[details.ref] = view[details.ref]
    <3>1. Shows(mainq, Details, view'[details.ref].node, details.event)
      BY <2>2 DEF ScreensInv, DetailsCurrent
    <3> QED  BY <1>7, <2>1, <3>1
  <2>3. CASE view'[details.ref] # view[details.ref]
    <3>1. details.ref \in news /\ "appear" \in regs[details.ref]
      BY <1>4, <2>1, <2>3 DEF ScreensInv, DetailsOwn
    <3>2. <<details.ref, "appear">> \in S /\ "appear" \in Details
      BY <1>3, <3>1, Observers
    <3> QED  BY <1>7, <2>1, <3>2
  <2> QED  BY <2>2, <2>3
<1> QED  BY <1>10, <1>11, <1>12, <1>13, <1>14 DEF ScreensInv

LEMMA LoadTabScreens ==
    ASSUME SyncInv, ScreensInv, LoadTab
    PROVE  ScreensInv'
<1>1. /\ AddRegistrations({"tab"}, Tab) /\ ~tab.loaded
      /\ tab' = [tab EXCEPT !.loaded = TRUE] /\ UNCHANGED <<details, teamIdGlobal, reads>>
      /\ mainq' = mainq \o EventsOf({<<Tab, o>> : o \in {"tab"}})
  BY DEF LoadTab, AddRegistrations
<1>2. Tab \in Path /\ Tab # Teams /\ TabFirst /\ ScreenTypes
  BY Tree, TabFirstHolds DEF ScreensInv
<1>3. /\ regs' = [regs EXCEPT ![Tab] = @ \cup {"tab"}] /\ regs \in [Path -> SUBSET Observer]
      /\ ViewTypes' /\ \A q \in Path : q # Tab => view'[q] = view[q]
  BY <1>1, <1>2, Observers, AddViews DEF SyncInv, CacheTypes
<1>4. regs[Tab] = {} /\ regs'[Tab] = {"tab"} /\ ~view[Tab].full
  <2>1. regs[Tab] = {}
    BY <1>1 DEF ScreensInv, Registered
  <2>2. view[Tab] = NoView
    BY <1>2, <2>1 DEF SyncInv, ViewsInv, Unviewed, Viewed
  <2> QED  BY <1>2, <1>3, <2>1, <2>2, NoViewFacts
<1>5. PICK S \in SUBSET (Path \X Observer) : S = {<<Tab, o>> : o \in {"tab"}}
  <2>1. "tab" \in Observer
    BY Observers
  <2>2. {<<Tab, o>> : o \in {"tab"}} \in SUBSET (Path \X Observer)
    BY <1>2, <2>1
  <2> QED  BY <2>2
<1>6. <<Tab, "tab">> \in S /\ \A s \in S : s[1] = Tab /\ s[2] = "tab"
  BY <1>5
<1>7. /\ mainq' \in Seq(Events)
      /\ \A O : \A p \in Path : (\A s \in S : s[2] \in O => s[1] = p) =>
            /\ view'[p].full /\ (\E o \in O : <<p, o>> \in S) =>
                    \A old : Shows(mainq', O, view'[p].node, old)
            /\ \A old : Shows(mainq, O, view'[p].node, old) =>
                            Shows(mainq', O, view'[p].node, old)
            /\ ~view'[p].full /\ ~Has(mainq, EventsTo(O)) => ~Has(mainq', EventsTo(O))
  BY <1>1, <1>2, <1>3, <1>5, <1>6, Raised
<1>8. /\ tab' \in [loaded : BOOLEAN, node : AllNodes] /\ tab'.node = tab.node /\ tab'.loaded
      /\ DOMAIN tab.node \subseteq Under(Tab)
  BY <1>1, <1>2 DEF ScreenTypes
<1>9. ScreenTypes'
  BY <1>1, <1>2, <1>7, <1>8 DEF ScreenTypes
<1>10. Registered' /\ DetailsObserve' /\ DetailsOwn'
  BY <1>1, <1>2, <1>3, <1>4, <1>8, Observers
  DEF ScreensInv, Registered, DetailsObserve, DetailsOwn, ScreenTypes
<1>11. TabBefore'
  <2>1. ~view'[Tab].full /\ ~Has(mainq, EventsTo({"tab"})) => ~Has(mainq', EventsTo({"tab"}))
    BY <1>2, <1>6, <1>7
  <2>2. EventsTo({"tab"})' = EventsTo({"tab"})
    BY DEF EventsTo
  <2> QED  BY <1>1, <1>4, <1>8, <2>1, <2>2 DEF ScreensInv, TabBefore
<1>12. TabCurrent'
  <2> SUFFICES ASSUME view'[Tab].full PROVE Shows(mainq', {"tab"}, view'[Tab].node, tab.node)
    BY <1>8 DEF TabCurrent
  <2> QED  BY <1>2, <1>6, <1>7
<1>13. DetailsCurrent'
  <2> SUFFICES ASSUME details.at = "visible", details.ref \in Leaf, view'[details.ref].full
               PROVE  Shows(mainq', Details, view'[details.ref].node, details.event)
    BY <1>1 DEF DetailsCurrent
  <2>1. details.ref \in Path /\ view'[details.ref] = view[details.ref]
    BY <1>2, <1>3 DEF ScreenTypes, ScreensInv, DetailsOwn
  <2>2. Shows(mainq, Details, view'[details.ref].node, details.event)
    BY <2>1 DEF ScreensInv, DetailsCurrent
  <2>3. \A s \in S : s[2] \in Details => s[1] = details.ref
    BY <1>6, Observers
  <2> QED  BY <1>7, <2>1, <2>2, <2>3
<1> QED  BY <1>9, <1>10, <1>11, <1>12, <1>13 DEF ScreensInv

\* The details come to the front and observe an event.
LEMMA ShowDetails ==
    ASSUME SyncInv, ScreensInv, NEW os \in {Details, {"appear"}}, NEW ref \in Path \ {Tab, Teams},
           AddRegistrations(os, ref), details.at # "visible", view[Tab].full,
           UNCHANGED <<tab, teamIdGlobal, reads>>,
           details' \in [at : {"closed", "hidden", "visible"}, ref : Path, event : AllNodes],
           details'.at = "visible", details'.ref = ref
    PROVE  ScreensInv'
<1>1. /\ os \subseteq Details /\ "appear" \in os /\ os # {} /\ os \in SUBSET Observer
      /\ "tab" \notin os
  BY Observers
<1>2. mainq' = mainq \o EventsOf({<<ref, o>> : o \in os})
  BY DEF AddRegistrations
<1>3. Tab \in Path /\ TabFirst /\ ScreenTypes
  BY Tree, TabFirstHolds DEF ScreensInv
<1>4. /\ regs' = [regs EXCEPT ![ref] = @ \cup os] /\ regs \in [Path -> SUBSET Observer]
      /\ ViewTypes' /\ \A q \in Path : q # ref => view'[q] = view[q]
  BY <1>1, <1>3, AddViews DEF SyncInv, CacheTypes
<1>5. PICK S \in SUBSET (Path \X Observer) : S = {<<ref, o>> : o \in os}
  <2>1. {<<ref, o>> : o \in os} \in SUBSET (Path \X Observer)
    BY <1>1
  <2> QED  BY <2>1
<1>6. <<ref, "appear">> \in S /\ \A s \in S : s[1] = ref /\ s[2] \in os /\ s[2] # "tab"
  BY <1>1, <1>5
<1>7. /\ mainq' \in Seq(Events)
      /\ \A O : \A p \in Path : (\A s \in S : s[2] \in O => s[1] = p) =>
            /\ view'[p].full /\ (\E o \in O : <<p, o>> \in S) =>
                    \A old : Shows(mainq', O, view'[p].node, old)
            /\ \A old : Shows(mainq, O, view'[p].node, old) =>
                            Shows(mainq', O, view'[p].node, old)
            /\ ~view'[p].full /\ ~Has(mainq, EventsTo(O)) => ~Has(mainq', EventsTo(O))
  <2>1. mainq' = mainq \o EventsOf(S)
    BY <1>2, <1>5
  <2>2. \A s \in S : s[2] = "tab" => s[1] = Tab
    BY <1>6
  <2> QED  BY <1>3, <1>4, <2>1, <2>2, Raised
<1>8. view'[Tab] = view[Tab]
  BY <1>3, <1>4
<1>9. ScreenTypes'
  BY <1>3, <1>7 DEF ScreenTypes
<1>10. Registered' /\ DetailsObserve' /\ DetailsOwn'
  <2>1. regs'[ref] = regs[ref] \cup os /\ \A q \in Path \ {ref} : regs'[q] = regs[q]
    BY <1>4
  <2>2. Registered'
    BY <1>1, <1>3, <2>1, Tree DEF ScreensInv, Registered
  <2>3. DetailsObserve'
    BY <2>1 DEF ScreensInv, DetailsObserve
  <2>4. DetailsOwn'
    BY <1>1, <2>1 DEF DetailsOwn
  <2> QED  BY <2>2, <2>3, <2>4
<1>11. TabBefore'
  BY <1>8 DEF TabBefore
<1>12. TabCurrent'
  <2>1. Shows(mainq, {"tab"}, view'[Tab].node, tab.node)
    BY <1>8 DEF ScreensInv, TabCurrent
  <2>2. \A s \in S : s[2] \in {"tab"} => s[1] = Tab
    BY <1>1, <1>6
  <2> QED  BY <1>3, <1>7, <2>1, <2>2 DEF TabCurrent
<1>13. DetailsCurrent'
  <2> SUFFICES ASSUME view'[ref].full
               PROVE  Shows(mainq', Details, view'[ref].node, details'.event)
    BY DEF DetailsCurrent
  <2> QED  BY <1>6, <1>7, Observers
<1> QED  BY <1>9, <1>10, <1>11, <1>12, <1>13 DEF ScreensInv

LEMMA OpenDetailsScreens ==
    ASSUME SyncInv, ScreensInv, OpenDetails \/ AppearAgain
    PROVE  ScreensInv'
<1> DEFINE ref == EventIn[teamIdGlobal]
<1>1. ref \in Path \ {Tab, Teams}
  BY PathAssumption, TreeAssumption DEF ScreensInv, ScreenTypes
<1>2. UNCHANGED <<tab, teamIdGlobal, reads>>
  BY DEF OpenDetails, AppearAgain
<1>3. CASE OpenDetails
  <2>1. /\ AddRegistrations(Details, ref) /\ details.at = "closed" /\ tab.node # Empty
        /\ details' = [at |-> "visible", ref |-> ref, event |-> tab.node]
    BY <1>3 DEF OpenDetails
  <2> HIDE DEF ref
  <2>2. view[Tab].full
    BY <2>1 DEF ScreensInv, TabBefore
  <2>3. tab.node \in AllNodes
    BY DEF ScreensInv, ScreenTypes
  <2> QED  BY <1>1, <1>2, <2>1, <2>2, <2>3, ShowDetails
<1>4. CASE AppearAgain
  <2>1. /\ AddRegistrations({"appear"}, ref) /\ details.at = "hidden"
        /\ details' = [details EXCEPT !.at = "visible", !.ref = ref]
    BY <1>4 DEF AppearAgain
  <2> HIDE DEF ref
  <2>2. view[Tab].full
    BY <2>1 DEF ScreensInv, TabBefore
  <2>3. details \in [at : {"closed", "hidden", "visible"}, ref : Path, event : AllNodes]
    BY DEF ScreensInv, ScreenTypes
  <2> QED  BY <1>1, <1>2, <2>1, <2>2, <2>3, ShowDetails
<1> QED  BY <1>3, <1>4

\* Details that disappear observe nothing; events on their way to details that
\* are closed keep their place in the queue.
LEMMA DisappearScreens ==
    ASSUME SyncInv, ScreensInv, Disappear
    PROVE  ScreensInv'
<1>1. /\ RemoveRegistrations(Observer, details.ref) /\ Leave /\ details.at = "visible"
      /\ UNCHANGED <<tab, teamIdGlobal, reads>>
  BY DEF Disappear
<1>2. PICK ref \in Path \ {Tab, Teams} : ref = details.ref
  BY <1>1 DEF ScreensInv, ScreenTypes, DetailsOwn
<1>3. /\ regs' = [regs EXCEPT ![ref] = @ \ Observer] /\ regs \in [Path -> SUBSET Observer]
      /\ \A q \in Path : q # ref => view'[q] = view[q]
  BY <1>1, <1>2, RemoveViews DEF SyncInv, CacheTypes
<1>4. regs'[ref] = {} /\ \A q \in Path \ {ref} : regs'[q] = regs[q]
  BY <1>3
<1>5. Tab \in Path /\ Teams \in Path /\ Tab # Teams /\ ScreenTypes /\ view[Tab].full
  BY <1>1, Tree DEF ScreensInv, TabBefore
<1>6. /\ details' \in [at : {"closed", "hidden", "visible"}, ref : Path, event : AllNodes]
      /\ details'.at # "visible"
  <2>1. NoDetails \in [at : {"closed", "hidden", "visible"}, ref : Path, event : AllNodes]
    BY <1>5, NodeFacts DEF NoDetails
  <2>2. NoDetails.at = "closed"
    BY DEF NoDetails
  <2>3. [details EXCEPT !.at = "hidden"]
            \in [at : {"closed", "hidden", "visible"}, ref : Path, event : AllNodes]
        /\ [details EXCEPT !.at = "hidden"].at = "hidden"
    BY <1>5 DEF ScreenTypes
  <2> QED  BY <1>1, <2>1, <2>2, <2>3 DEF Leave
<1>7. /\ mainq' \in Seq(Events)
      /\ \A n, old : Shows(mainq, {"tab"}, n, old) => Shows(mainq', {"tab"}, n, old)
  <2>1. PICK k \in Nat : DOMAIN mainq = 1..k /\ mainq \in Seq(Events)
    BY <1>5, LenProperties DEF ScreenTypes
  <2>2. CASE mainq' = mainq
    BY <2>1, <2>2
  <2>3. CASE mainq' = [i \in DOMAIN mainq |->
                       IF mainq[i].to \in Details THEN [to |-> "closed", node |-> Empty]
                       ELSE mainq[i]]
    <3>1. DOMAIN mainq' = 1..k /\ \A i \in 1..k : mainq[i] \in Events
      BY <2>1, <2>3, ElementOfSeq, LenProperties
    <3>2. PICK c \in Events : c = [to |-> "closed", node |-> Empty] /\ c.to = "closed"
      <4>1. PICK c : c = [to |-> "closed", node |-> Empty]
        OBVIOUS
      <4>2. c.to = "closed" /\ c \in [to : Observer \cup {"closed"}, node : AllNodes]
        BY <4>1, NodeFacts
      <4> QED  BY <4>1, <4>2 DEF Events
    <3>3. \A i \in 1..k : mainq'[i] = IF mainq[i].to \in Details THEN c ELSE mainq[i]
      BY <2>1, <2>3, <3>2
    <3>4. mainq' \in Seq(Events)
      <4>1. mainq' = [i \in 1..k |-> mainq'[i]]
        BY <2>1, <2>3
      <4>2. mainq' \in [1..k -> Events]
        BY <3>1, <3>2, <3>3, <4>1
      <4> QED  BY <4>2, SeqDef
    <3>5. \A i \in 1..k : mainq'[i].to = "tab" \/ mainq[i].to = "tab" => mainq'[i] = mainq[i]
      BY <3>2, <3>3, Observers
    <3>6. ASSUME NEW n, NEW old, Shows(mainq, {"tab"}, n, old)
          PROVE  Shows(mainq', {"tab"}, n, old)
      <4> DEFINE B == EventsTo({"tab"}) \ Newest({"tab"}, n)
                 G == Newest({"tab"}, n)
      <4>1. \A i \in 1..k : /\ mainq'[i] \in B <=> mainq[i] \in B
                            /\ mainq'[i] \in G <=> mainq[i] \in G
                            /\ mainq'[i] \in EventsTo({"tab"}) <=> mainq[i] \in EventsTo({"tab"})
        BY <3>5 DEF EventsTo, Newest
      <4> HIDE DEF B, G
      <4>2. Follows(mainq, B, G) /\ (Has(mainq, EventsTo({"tab"})) \/ old = n)
        BY <3>6 DEF Shows, B, G
      <4>3. Follows(mainq', B, G)
        BY <2>1, <3>1, <4>1, <4>2 DEF Follows
      <4>4. Has(mainq', EventsTo({"tab"})) \/ old = n
        BY <2>1, <3>1, <4>1, <4>2 DEF Has
      <4> QED  BY <4>3, <4>4 DEF Shows, B, G
    <3> QED  BY <3>4, <3>6
  <2> QED  BY <1>1, <2>2, <2>3 DEF Leave
<1>8. view'[Tab] = view[Tab]
  BY <1>2, <1>3, <1>5
<1>9. ScreenTypes'
  BY <1>1, <1>5, <1>6, <1>7 DEF ScreenTypes
<1>10. Registered'
  BY <1>1, <1>2, <1>4, <1>5 DEF ScreensInv, Registered
<1>11. DetailsObserve' /\ DetailsOwn'
  BY <1>2, <1>4, <1>6 DEF ScreensInv, DetailsObserve, DetailsOwn
<1>12. TabBefore' /\ TabCurrent'
  BY <1>1, <1>5, <1>7, <1>8 DEF ScreensInv, TabBefore, TabCurrent
<1>13. DetailsCurrent'
  BY <1>6 DEF DetailsCurrent
<1> QED  BY <1>9, <1>10, <1>11, <1>12, <1>13 DEF ScreensInv

\* The other screens: reads, and events that nobody is there to see.
LEMMA ReadTeamsScreens ==
    ASSUME SyncInv, ScreensInv, ReadTeams
    PROVE  ScreensInv'
<1>1. PICK r \in Read : /\ reads' = [reads EXCEPT ![r] = "asked"]
                        /\ AddRegistrations({r}, Teams)
                        /\ UNCHANGED <<tab, details, teamIdGlobal>>
  BY DEF ReadTeams
<1>2. /\ Teams \in Path /\ TabFirst /\ ScreenTypes
      /\ {r} \in SUBSET Observer /\ r \in Observer /\ r \notin Details /\ r # "tab"
  BY Tree, TabFirstHolds, Observers DEF ScreensInv
<1>3. /\ regs' = [regs EXCEPT ![Teams] = @ \cup {r}] /\ regs \in [Path -> SUBSET Observer]
      /\ ViewTypes' /\ \A q \in Path : q # Teams => view'[q] = view[q]
  BY <1>1, <1>2, AddViews DEF SyncInv, CacheTypes
<1>4. PICK S \in SUBSET (Path \X Observer) : S = {<<Teams, o>> : o \in {r}}
  <2>1. {<<Teams, o>> : o \in {r}} \in SUBSET (Path \X Observer)
    BY <1>2
  <2> QED  BY <2>1
<1>5. \A s \in S : s[2] # "tab" /\ s[2] \notin Details
  BY <1>2, <1>4
<1>6. mainq' = mainq \o EventsOf(S)
  BY <1>1, <1>4 DEF AddRegistrations
<1>7. /\ mainq' \in Seq(Events)
      /\ \A O : \A p \in Path : (\A s \in S : s[2] \in O => s[1] = p) =>
            /\ view'[p].full /\ (\E o \in O : <<p, o>> \in S) =>
                    \A old : Shows(mainq', O, view'[p].node, old)
            /\ \A old : Shows(mainq, O, view'[p].node, old) =>
                            Shows(mainq', O, view'[p].node, old)
            /\ ~view'[p].full /\ ~Has(mainq, EventsTo(O)) => ~Has(mainq', EventsTo(O))
  BY <1>2, <1>3, <1>5, <1>6, Raised
<1>8. Tab \in Path /\ Tab # Teams /\ view'[Tab] = view[Tab]
  BY <1>3, Tree
<1>9. ScreenTypes'
  BY <1>1, <1>2, <1>7 DEF ScreenTypes
<1>10. \A q \in Path \ {Teams} : regs'[q] = regs[q]
  BY <1>3
<1>11. Registered'
  <2>1. regs'[Teams] \subseteq Read
    BY <1>2, <1>3 DEF ScreensInv, Registered
  <2> QED  BY <1>1, <1>8, <1>10, <2>1 DEF ScreensInv, Registered
<1>12. DetailsObserve' /\ DetailsOwn'
  <2>1. regs'[Teams] \cap Details = {}
    BY <1>2, <1>3, Observers DEF ScreensInv, Registered
  <2>2. details.ref \in Path
    BY <1>2 DEF ScreenTypes
  <2> QED  BY <1>1, <1>10, <2>1, <2>2 DEF ScreensInv, DetailsObserve, DetailsOwn
<1>13. TabBefore'
  <2>1. ~view'[Tab].full /\ ~Has(mainq, EventsTo({"tab"})) => ~Has(mainq', EventsTo({"tab"}))
    BY <1>5, <1>7, <1>8
  <2>2. EventsTo({"tab"})' = EventsTo({"tab"})
    BY DEF EventsTo
  <2> QED  BY <1>1, <1>8, <2>1, <2>2 DEF ScreensInv, TabBefore
<1>14. TabCurrent'
  <2> SUFFICES ASSUME view[Tab].full PROVE Shows(mainq', {"tab"}, view[Tab].node, tab.node)
    BY <1>1, <1>8 DEF TabCurrent
  <2>1. Shows(mainq, {"tab"}, view[Tab].node, tab.node)
    BY DEF ScreensInv, TabCurrent
  <2>2. \A s \in S : s[2] \in {"tab"} => s[1] = Tab
    BY <1>5
  <2> QED  BY <1>7, <1>8, <2>1, <2>2
<1>15. DetailsCurrent'
  <2> SUFFICES ASSUME details.at = "visible", details.ref \in Leaf, view'[details.ref].full
               PROVE  Shows(mainq', Details, view'[details.ref].node, details.event)
    BY <1>1 DEF DetailsCurrent
  <2>1. details.ref \in Path /\ view'[details.ref] = view[details.ref]
    BY <1>2, <1>3 DEF ScreenTypes, ScreensInv, DetailsOwn
  <2>2. Shows(mainq, Details, view'[details.ref].node, details.event)
    BY <2>1 DEF ScreensInv, DetailsCurrent
  <2> QED  BY <1>5, <1>7, <2>1, <2>2
<1> QED  BY <1>9, <1>11, <1>12, <1>13, <1>14, <1>15 DEF ScreensInv

LEMMA AnswerReadScreens ==
    ASSUME SyncInv, ScreensInv, NEW r \in Read, AnswerRead(r)
    PROVE  ScreensInv'
<1>1. /\ mainq # <<>> /\ Head(mainq).to = r /\ mainq' = Tail(mainq)
      /\ reads' = [reads EXCEPT ![r] = "done"] /\ UNCHANGED <<tab, details, teamIdGlobal>>
      /\ RemoveRegistrations({r}, Teams) \/ UNCHANGED <<regs, view>>
  BY DEF AnswerRead, Arrives, cache
<1>2. Teams \in Path /\ ScreenTypes /\ r \notin Details /\ r \notin {"tab"}
  BY Tree, Observers DEF ScreensInv
<1>3. \A p \in Path \ {Teams} : regs'[p] = regs[p] /\ view'[p] = view[p]
  BY <1>1, <1>2, RemoveViews DEF SyncInv, CacheTypes
<1>4. regs'[Teams] \subseteq Read
  <2>1. regs'[Teams] \subseteq regs[Teams]
    <3>1. CASE RemoveRegistrations({r}, Teams)
      BY <1>2, <3>1, RemoveViews DEF SyncInv, CacheTypes
    <3>2. CASE UNCHANGED regs
      BY <3>2
    <3> QED  BY <1>1, <3>1, <3>2
  <2> QED  BY <2>1 DEF ScreensInv, Registered
<1>5. /\ mainq' \in Seq(Events)
      /\ \A O \in {{"tab"}, Details} : \A n, old :
            Shows(mainq, O, n, old) => Shows(mainq', O, n, old)
      /\ Has(mainq', EventsTo({"tab"})) => Has(mainq, EventsTo({"tab"}))
  BY <1>1, <1>2, Shown
<1>6. reads' \in [Read -> {"new", "asked", "done"}] /\ teamIdGlobal' \in Team
  BY <1>1, <1>2 DEF ScreenTypes
<1> QED  BY <1>1, <1>3, <1>4, <1>5, <1>6, ScreensKept

LEMMA ShowNothingScreens ==
    ASSUME ScreensInv, ShowNothing
    PROVE  ScreensInv'
<1>1. /\ mainq # <<>> /\ Head(mainq).to = "closed" /\ mainq' = Tail(mainq)
      /\ UNCHANGED <<regs, view, tab, details, teamIdGlobal, reads>>
  BY DEF ShowNothing, Arrives, cache, app
<1>2. ScreenTypes /\ "closed" \notin Details /\ "closed" \notin {"tab"}
  BY Observers DEF ScreensInv
<1>3. /\ mainq' \in Seq(Events)
      /\ \A O \in {{"tab"}, Details} : \A n, old :
            Shows(mainq, O, n, old) => Shows(mainq', O, n, old)
      /\ Has(mainq', EventsTo({"tab"})) => Has(mainq, EventsTo({"tab"}))
  BY <1>1, <1>2, Shown
<1>4. /\ reads' \in [Read -> {"new", "asked", "done"}] /\ teamIdGlobal' \in Team
      /\ regs'[Teams] \subseteq Read
  BY <1>1, <1>2 DEF ScreenTypes, ScreensInv, Registered
<1> QED  BY <1>1, <1>3, <1>4, ScreensKept

LEMMA QuietScreens ==
    ASSUME ScreensInv, UNCHANGED <<regs, view, mainq, tab, details, reads>>,
           teamIdGlobal' \in Team
    PROVE  ScreensInv'
<1>1. /\ reads' \in [Read -> {"new", "asked", "done"}] /\ mainq' \in Seq(Events)
      /\ regs'[Teams] \subseteq Read
  BY DEF ScreensInv, ScreenTypes, Registered
<1> QED  BY <1>1, ScreensKept

\* The tab shows a list.
LEMMA ShowEventsScreens ==
    ASSUME ScreensInv, ShowEvents
    PROVE  ScreensInv'
<1>1. /\ mainq # <<>> /\ Head(mainq).to = "tab" /\ mainq' = Tail(mainq)
      /\ tab' = [tab EXCEPT !.node = Head(mainq).node]
      /\ UNCHANGED <<regs, view, details, teamIdGlobal, reads>>
  BY DEF ShowEvents, Arrives, cache
<1>2. ScreenTypes /\ "tab" \notin Details
  BY Observers DEF ScreensInv
<1>3. /\ Head(mainq) \in Events /\ mainq' \in Seq(Events)
      /\ \A n, old : Shows(mainq, Details, n, old) => Shows(mainq', Details, n, old)
      /\ \A n, old : Shows(mainq, {"tab"}, n, old) =>
                        Shows(mainq', {"tab"}, n, Head(mainq).node)
      /\ Has(mainq, EventsTo({"tab"}))
  BY <1>1, <1>2, Shown
<1>4. /\ tab' \in [loaded : BOOLEAN, node : AllNodes] /\ tab'.node = Head(mainq).node
      /\ tab'.loaded = tab.loaded /\ DOMAIN tab'.node \subseteq Under(Tab)
  BY <1>1, <1>2, <1>3 DEF ScreenTypes, Events
<1>5. ScreenTypes'
  BY <1>1, <1>2, <1>3, <1>4 DEF ScreenTypes
<1>6. Registered' /\ DetailsObserve' /\ DetailsOwn'
  BY <1>1, <1>4 DEF ScreensInv, Registered, DetailsObserve, DetailsOwn
<1>7. view[Tab].full
  BY <1>3 DEF ScreensInv, TabBefore
<1>8. TabBefore'
  BY <1>1, <1>7 DEF TabBefore
<1>9. TabCurrent'
  BY <1>1, <1>3, <1>4, <1>7 DEF ScreensInv, TabCurrent
<1>10. DetailsCurrent'
  BY <1>1, <1>3 DEF ScreensInv, DetailsCurrent
<1> QED  BY <1>5, <1>6, <1>8, <1>9, <1>10 DEF ScreensInv

\* The details show an event; one that is gone is ignored.
LEMMA ShowEventScreens ==
    ASSUME SyncInv, ScreensInv, NEW o \in Details, ShowEvent(o)
    PROVE  ScreensInv'
<1>1. /\ mainq # <<>> /\ Head(mainq).to = o /\ mainq' = Tail(mainq)
      /\ details' = IF Head(mainq).node = Empty THEN details
                    ELSE [details EXCEPT !.event = Head(mainq).node]
      /\ UNCHANGED <<regs, view, tab, teamIdGlobal, reads>>
  BY DEF ShowEvent, Arrives, cache
<1>2. ScreenTypes /\ o \notin {"tab"}
  BY Observers DEF ScreensInv
<1>3. /\ Head(mainq) \in Events /\ mainq' \in Seq(Events)
      /\ \A n, old : Shows(mainq, {"tab"}, n, old) => Shows(mainq', {"tab"}, n, old)
      /\ \A n, old : Shows(mainq, Details, n, old) =>
                        Shows(mainq', Details, n, Head(mainq).node)
      /\ Has(mainq', EventsTo({"tab"})) => Has(mainq, EventsTo({"tab"}))
  BY <1>1, <1>2, Shown
<1>4. PICK e \in AllNodes : e = Head(mainq).node
  BY <1>3 DEF Events
<1>5. /\ details' \in [at : {"closed", "hidden", "visible"}, ref : Path, event : AllNodes]
      /\ details'.at = details.at /\ details'.ref = details.ref
      /\ details'.event = IF e = Empty THEN details.event ELSE e
  BY <1>1, <1>2, <1>4 DEF ScreenTypes
<1>6. ScreenTypes'
  BY <1>1, <1>2, <1>3, <1>5 DEF ScreenTypes
<1>7. Registered' /\ DetailsObserve' /\ DetailsOwn'
  BY <1>1, <1>5 DEF ScreensInv, Registered, DetailsObserve, DetailsOwn
<1>8. TabBefore'
  <2>1. EventsTo({"tab"})' = EventsTo({"tab"})
    BY DEF EventsTo
  <2> QED  BY <1>1, <1>3, <1>5, <2>1 DEF ScreensInv, TabBefore
<1>9. TabCurrent'
  BY <1>1, <1>3 DEF ScreensInv, TabCurrent
<1>10. DetailsCurrent'
  <2> SUFFICES ASSUME details.at = "visible", details.ref \in Leaf, view[details.ref].full
               PROVE  Shows(mainq', Details, view[details.ref].node, details'.event)
    BY <1>1, <1>5 DEF DetailsCurrent
  <2>1. PICK n : n = view[details.ref].node
    OBVIOUS
  <2>2. Shows(mainq', Details, n, e)
    BY <1>3, <1>4, <2>1 DEF ScreensInv, DetailsCurrent
  <2>3. n # Empty
    <3>1. details.ref \in Path /\ Under(details.ref) = {details.ref}
      BY Tree, Unders
    <3>2. DOMAIN n = {details.ref}
      BY <2>1, <3>1 DEF SyncInv, ViewsInv, FullHasAll
    <3> QED  BY <3>2, NodeFacts
  <2>4. CASE e # Empty
    BY <1>5, <2>1, <2>2, <2>4
  <2>5. CASE e = Empty
    BY <2>1, <2>2, <2>3, <2>5 DEF Shows
  <2> QED  BY <2>4, <2>5
<1> QED  BY <1>6, <1>7, <1>8, <1>9, <1>10 DEF ScreensInv

-----------------------------------------------------------------------------
(* The inductive invariant.                                                *)

Inv == SyncInv /\ DataTypes /\ ScreensInv

LEMMA InvInit == Init => Inv
<1> SUFFICES ASSUME Init PROVE Inv
  OBVIOUS
<1>1. /\ regs = [p \in Path |-> {}] /\ view = [p \in Path |-> NoView] /\ listens = {}
      /\ online = FALSE /\ up = <<>> /\ down = <<>> /\ heard = {}
      /\ \A i \in DOMAIN up : FALSE
      /\ \A i \in DOMAIN down : FALSE
      /\ \A i \in DOMAIN mainq : FALSE
  BY DEF Init
<1>2. Viewed = {}
  BY <1>1 DEF Viewed
<1>3. CacheTypes /\ WireTypes /\ ListensAreTops
  BY <1>1, <1>2, NoViewFacts, EmptySeq DEF CacheTypes, WireTypes, ListensAreTops
<1>4. ViewsInv
  BY <1>1, <1>2, NoViewFacts DEF ViewsInv, Unviewed, HalfEmpty, FullHasAll, FullAgree, FullBelow
<1>5. WireInv
  BY <1>1, NoViewFacts
  DEF WireInv, OfflineQuiet, CurrentListened, HashHeld, StopsFollowed, AnswersPreceded, InOrder,
      Sorted, ListensHeard, Has, Follows, Precedes
<1>6. DataTypes
  <2>1. /\ db = [l \in Leaf |-> 1]
        /\ counts = [writes |-> 0, visits |-> 0, moves |-> 0, drops |-> 0]
    BY DEF Init
  <2>2. 1 \in Version /\ 0 <= MaxWrites
    BY FiniteAssumption DEF Version
  <2>3. counts.writes = 0 /\ counts \in [writes : Nat, visits : Nat, moves : Nat, drops : Nat]
    BY <2>1
  <2> QED  BY <2>1, <2>2, <2>3 DEF DataTypes
<1>7. /\ tab = [loaded |-> FALSE, node |-> Empty] /\ details = NoDetails /\ mainq = <<>>
      /\ teamIdGlobal \in Team /\ reads = [r \in Read |-> "new"]
  BY DEF Init
<1>8. tab.node = Empty /\ tab.loaded = FALSE /\ details.at = "closed" /\ details.ref = Tab
  BY <1>7 DEF NoDetails
<1>9. ScreenTypes
  BY <1>7, <1>8, NodeFacts, EmptySeq, Tree DEF ScreenTypes, NoDetails
<1>10. Registered /\ DetailsObserve /\ DetailsOwn
  BY <1>1, <1>8, Tree DEF Registered, DetailsObserve, DetailsOwn
<1>11. TabBefore /\ TabCurrent /\ DetailsCurrent
  BY <1>1, <1>8, Tree, NoViewFacts DEF TabBefore, TabCurrent, DetailsCurrent, Has
<1> QED
  BY <1>3, <1>4, <1>5, <1>6, <1>9, <1>10, <1>11 DEF Inv, SyncInv, ScreensInv

\* The bounds count up, and no step but a write touches the data.
LEMMA Counted ==
    ASSUME DataTypes, UNCHANGED db,
           \/ UNCHANGED counts
           \/ \E what \in {"visits", "moves", "drops"} :
                counts' = [counts EXCEPT ![what] = @ + 1]
    PROVE  DataTypes'
<1>1. CASE UNCHANGED counts
  BY <1>1 DEF DataTypes
<1>2. ASSUME NEW what \in {"visits", "moves", "drops"}, counts' = [counts EXCEPT ![what] = @ + 1]
      PROVE  DataTypes'
  <2>1. /\ counts' \in [writes : Nat, visits : Nat, moves : Nat, drops : Nat]
        /\ counts'.writes = counts.writes
    BY <1>2 DEF DataTypes
  <2> QED  BY <2>1 DEF DataTypes
<1> QED  BY <1>1, <1>2

LEMMA InvNext == Inv /\ [Next]_vars => Inv'
<1> SUFFICES ASSUME Inv, [Next]_vars PROVE Inv'
  OBVIOUS
<1>1. SyncInv /\ DataTypes /\ ScreensInv /\ TabFirst /\ teamIdGlobal \in Team
  BY TabFirstHolds DEF Inv, ScreensInv, ScreenTypes
<1>2. CASE LoadTab
  <2>1. /\ AddRegistrations({"tab"}, Tab) /\ UNCHANGED <<online, heard, db, counts>>
    BY <1>2 DEF LoadTab
  <2>2. SyncInv'
    BY <1>1, <2>1, AddSync, Observers, Tree
  <2> QED  BY <1>1, <1>2, <2>1, <2>2, LoadTabScreens, Counted DEF Inv
<1>3. CASE OpenDetails \/ AppearAgain
  <2>1. PICK os \in {Details, {"appear"}} :
            /\ AddRegistrations(os, EventIn[teamIdGlobal]) /\ UNCHANGED <<online, heard, db>>
            /\ counts' = [counts EXCEPT !["visits"] = @ + 1]
    BY <1>3 DEF OpenDetails, AppearAgain, Count
  <2>2. os \in SUBSET Observer /\ os # {} /\ EventIn[teamIdGlobal] \in Path
    BY <1>1, PathAssumption, Observers
  <2>3. SyncInv'
    BY <1>1, <2>1, <2>2, AddSync
  <2> QED  BY <1>1, <1>3, <2>1, <2>3, OpenDetailsScreens, Counted DEF Inv
<1>4. CASE Disappear
  <2>1. /\ RemoveRegistrations(Observer, details.ref)
        /\ UNCHANGED <<online, heard, db, counts>> /\ details.ref \in Path
    BY <1>1, <1>4 DEF Disappear, ScreensInv, ScreenTypes
  <2>2. SyncInv'
    BY <1>1, <2>1, RemoveSync
  <2> QED  BY <1>1, <1>4, <2>1, <2>2, DisappearScreens, Counted DEF Inv
<1>5. CASE ReadTeams
  <2>1. PICK r \in Read : AddRegistrations({r}, Teams) /\ UNCHANGED <<online, heard, db, counts>>
    BY <1>5 DEF ReadTeams
  <2>2. {r} \in SUBSET Observer /\ {r} # {} /\ Teams \in Path
    BY Observers, Tree
  <2>3. SyncInv'
    BY <1>1, <2>1, <2>2, AddSync
  <2> QED  BY <1>1, <1>5, <2>1, <2>3, ReadTeamsScreens, Counted DEF Inv
<1>6. CASE Connect
  <2>1. UNCHANGED <<regs, view, mainq, tab, details, teamIdGlobal, reads, db, counts>>
    BY <1>6 DEF Connect, cache, app
  <2> QED  BY <1>1, <1>6, <2>1, ConnectSync, QuietScreens, Counted DEF Inv
<1>7. CASE Disconnect
  <2>1. /\ UNCHANGED <<regs, view, mainq, tab, details, teamIdGlobal, reads, db>>
        /\ counts' = [counts EXCEPT !["drops"] = @ + 1]
    BY <1>7 DEF Disconnect, Count, cache, app
  <2> QED  BY <1>1, <1>7, <2>1, DisconnectSync, QuietScreens, Counted DEF Inv
<1>8. CASE RecvData \/ RecvAnswer
  <2>1. /\ RaiseChanges
        /\ UNCHANGED <<regs, tab, details, teamIdGlobal, reads, db, counts>>
    BY <1>8 DEF RecvData, RecvAnswer, app
  <2>2. SyncInv' /\ \A p \in Path : view[p].full => view'[p].full
    BY <1>1, <1>8, DataSync, AnswerSync
  <2>3. ViewTypes' /\ ViewsInv'
    BY <2>2 DEF SyncInv, CacheTypes, ViewTypes
  <2> QED  BY <1>1, <2>1, <2>2, <2>3, RaiseScreens, Counted DEF Inv
<1>9. CASE ServeListen \/ ServeUnlisten
  <2>1. UNCHANGED <<regs, view, mainq, tab, details, teamIdGlobal, reads, db, counts>>
    BY <1>9 DEF ServeListen, ServeUnlisten, cache, app
  <2>2. SyncInv'
    BY <1>1, <1>9, ServeListenSync, ServeUnlistenSync
  <2> QED  BY <1>1, <2>1, <2>2, QuietScreens, Counted DEF Inv
<1>10. ASSUME NEW l \in Leaf, Write(l) PROVE Inv'
  <2>1. UNCHANGED <<regs, view, mainq, tab, details, teamIdGlobal, reads>>
    BY <1>10 DEF Write, cache, app
  <2> QED  BY <1>1, <1>10, <2>1, WriteSync, QuietScreens DEF Inv
<1>11. ASSUME NEW t \in Team, ChangeTeam(t) PROVE Inv'
  <2>1. /\ UNCHANGED <<regs, view, listens, online, up, down, heard, db>>
        /\ UNCHANGED <<mainq, tab, details, reads>> /\ teamIdGlobal' = t
        /\ counts' = [counts EXCEPT !["moves"] = @ + 1]
    BY <1>11 DEF ChangeTeam, Count, cache, wire
  <2> QED  BY <1>1, <2>1, StaySync, QuietScreens, Counted DEF Inv
<1>12. ASSUME NEW r \in Read, AnswerRead(r) PROVE Inv'
  <2>1. /\ RemoveRegistrations({r}, Teams) \/ UNCHANGED <<regs, view, listens, up, down>>
        /\ UNCHANGED <<online, heard, db, counts>> /\ Teams \in Path
    BY <1>12, Tree DEF AnswerRead, cache
  <2>2. SyncInv'
    BY <1>1, <2>1, RemoveSync, StaySync
  <2> QED  BY <1>1, <1>12, <2>1, <2>2, AnswerReadScreens, Counted DEF Inv
<1>13. CASE ShowEvents \/ ShowNothing \/ \E o \in Details : ShowEvent(o)
  <2>1. UNCHANGED <<regs, view, listens, online, up, down, heard, db, counts>>
    BY <1>13 DEF ShowEvents, ShowNothing, ShowEvent, cache, wire
  <2>2. ScreensInv'
    BY <1>1, <1>13, ShowEventsScreens, ShowNothingScreens, ShowEventScreens
  <2> QED  BY <1>1, <2>1, <2>2, StaySync, Counted DEF Inv
<1>14. CASE UNCHANGED vars
  <2>1. /\ UNCHANGED <<regs, view, listens, online, up, down, heard, db, counts>>
        /\ UNCHANGED <<mainq, tab, details, teamIdGlobal, reads>>
    BY <1>14 DEF vars, cache, wire, app
  <2> QED  BY <1>1, <2>1, StaySync, QuietScreens, Counted DEF Inv
<1> QED
  BY <1>2, <1>3, <1>4, <1>5, <1>6, <1>7, <1>8, <1>9, <1>10, <1>11, <1>12, <1>13, <1>14
  DEF Next, Player, System, Deliver

-----------------------------------------------------------------------------
(* What follows from it.                                                   *)

\* Above every observed path, or at it, the connection listens.
LEMMA ListenAbove ==
    ASSUME Inv, NEW p \in Viewed
    PROVE  \E q \in listens : q \in Viewed /\ (q = p \/ q \in Over[p])
<1>1. listens = {q \in Viewed : ~Covered(q, Viewed)} /\ Viewed \subseteq Path /\ p \in Path
  BY DEF Inv, SyncInv, ListensAreTops, Viewed
<1>2. CASE ~Covered(p, Viewed)
  BY <1>1, <1>2
<1>3. CASE Teams \in Viewed /\ Teams \in Over[p]
  <2>1. ~Covered(Teams, Viewed)
    BY Tree DEF Covered
  <2> QED  BY <1>1, <1>3, <2>1
<1>4. CASE Covered(p, Viewed) /\ ~(Teams \in Viewed /\ Teams \in Over[p])
  <2>1. Tab \in Viewed /\ Tab \in Over[p]
    BY <1>1, <1>4, Tree DEF Covered
  <2>2. Teams \notin Viewed
    BY <1>1, <1>4, <2>1, Tree, OverAssumption
  <2>3. ~Covered(Tab, Viewed)
    BY <2>2, Tree DEF Covered
  <2> QED  BY <1>1, <2>1, <2>3
<1> QED  BY <1>2, <1>3, <1>4

\* What the view of a listen has up to date, the views below it have too.
LEMMA BelowUpToDate ==
    ASSUME Inv, NEW p \in Viewed, NEW q \in Viewed, q \in Over[p], NEW x \in Under(p),
           UpToDate(q, x)
    PROVE  UpToDate(p, x) /\ view[q].full
<1>1. p \in Path /\ q \in Path /\ x \in Under(q)
  BY Unders DEF Viewed
<1>2. view[q].full
  <2> SUFFICES ASSUME ~view[q].full PROVE FALSE
    OBVIOUS
  <2>1. CASE q # Tab
    <3>1. view[q].node = Empty
      BY <1>1, <2>1 DEF Inv, SyncInv, ViewsInv, HalfEmpty
    <3> QED  BY <3>1, NodeFacts DEF UpToDate
  <2>2. CASE q = Tab
    <3>1. p # Tab /\ p # Teams
      BY <1>1, <2>2, Tree
    <3>2. TabFirst
      BY TabFirstHolds DEF Inv
    <3> QED  BY <1>1, <2>2, <3>1, <3>2 DEF TabFirst, Viewed
  <2> QED  BY <2>1, <2>2
<1>3. view[p].full
  BY <1>2 DEF Inv, SyncInv, ViewsInv, FullBelow
<1>4. DOMAIN view[p].node = Under(p) /\ view[p].node[x] = view[q].node[x]
  BY <1>1, <1>2, <1>3 DEF Inv, SyncInv, ViewsInv, FullHasAll, FullAgree
<1> QED  BY <1>2, <1>4 DEF UpToDate

\* Every variable of the library and the screens keeps its type.
THEOREM TypeCorrect == Spec => []TypeOK
<1>1. Inv => TypeOK
  BY TypesOK DEF Inv, SyncInv, ScreensInv, Types
<1> QED  BY <1>1, InvInit, InvNext, PTL DEF Spec

\* The connection always listens at the topmost observed paths and nowhere
\* else, for any tree of paths and any observers that come and go.
THEOREM ListensAreTopsCorrect == Spec => []ListensAreTops
<1>1. Inv => ListensAreTops
  BY DEF Inv, SyncInv
<1> QED  BY <1>1, InvInit, InvNext, PTL DEF Spec

\* Details that are not visible never have an observer left anywhere, however
\* often they appeared and the team changed.
THEOREM NoStrayObserversCorrect == Spec => []NoStrayObservers
<1>1. Inv => NoStrayObservers
  BY DEF Inv, ScreensInv, DetailsObserve, NoStrayObservers
<1> QED  BY <1>1, InvInit, InvNext, PTL DEF Spec

\* A complete view has every event below its path, and complete views agree,
\* whatever overtook what while listens moved and connections were lost.
THEOREM OneTruthCorrect == Spec => []OneTruth
<1>1. Inv => OneTruth
  <2> SUFFICES ASSUME Inv, NEW p \in Viewed, view[p].full
               PROVE  /\ DOMAIN view[p].node = Under(p)
                      /\ \A q \in Viewed : view[q].full =>
                            Cut(view[q].node, p) = Cut(view[p].node, q)
    BY DEF OneTruth
  <2>1. p \in Path /\ DOMAIN view[p].node = Under(p)
    BY DEF Viewed, Inv, SyncInv, ViewsInv, FullHasAll
  <2>2. ASSUME NEW q \in Viewed, view[q].full
        PROVE  Cut(view[q].node, p) = Cut(view[p].node, q)
    <3>1. q \in Path /\ DOMAIN view[q].node = Under(q)
      BY <2>2 DEF Viewed, Inv, SyncInv, ViewsInv, FullHasAll
    <3>2. PICK m \in AllNodes : m = view[p].node
      BY <2>1 DEF Inv, SyncInv, CacheTypes, Views
    <3>3. PICK n \in AllNodes : n = view[q].node
      BY <3>1 DEF Inv, SyncInv, CacheTypes, Views
    <3>4. \A x \in Under(p) \cap Under(q) : m[x] = n[x]
      BY <2>1, <2>2, <3>1, <3>2, <3>3 DEF Inv, SyncInv, ViewsInv, FullAgree
    <3>5. PICK c : /\ c = Cut(n, p) /\ c \in AllNodes /\ DOMAIN c = DOMAIN n \cap Under(p)
                   /\ \A x \in DOMAIN n \cap Under(p) : c[x] = n[x]
      <4>1. /\ Cut(n, p) \in AllNodes /\ DOMAIN Cut(n, p) = DOMAIN n \cap Under(p)
            /\ \A x \in DOMAIN n \cap Under(p) : Cut(n, p)[x] = n[x]
        BY <2>1, CutFacts
      <4> QED  BY <4>1
    <3>6. PICK d : /\ d = Cut(m, q) /\ d \in AllNodes /\ DOMAIN d = DOMAIN m \cap Under(q)
                   /\ \A x \in DOMAIN m \cap Under(q) : d[x] = m[x]
      <4>1. /\ Cut(m, q) \in AllNodes /\ DOMAIN Cut(m, q) = DOMAIN m \cap Under(q)
            /\ \A x \in DOMAIN m \cap Under(q) : Cut(m, q)[x] = m[x]
        BY <3>1, CutFacts
      <4> QED  BY <4>1
    <3>7. DOMAIN c = DOMAIN d /\ \A x \in DOMAIN c : c[x] = d[x]
      BY <2>1, <3>1, <3>2, <3>3, <3>4, <3>5, <3>6
    <3>8. c = d
      BY <3>5, <3>6, <3>7, SameNode
    <3> QED  BY <3>2, <3>3, <3>5, <3>6, <3>8
  <2> QED  BY <2>1, <2>2
<1> QED  BY <1>1, InvInit, InvNext, PTL DEF Spec

\* No change is lost while listens move: it is under way, will be with the
\* answer to a listen, or is in every view that is to have it.
THEOREM NothingMissedCorrect == Spec => []NothingMissed
<1>1. Inv => NothingMissed
  <2> SUFFICES ASSUME Inv, online, NEW p \in Viewed, NEW x \in Under(p)
               PROVE  Told(x) \/ Asked(p) \/ Knows(p, x)
    BY DEF NothingMissed
  <2>1. PICK q \in listens : q \in Viewed /\ (q = p \/ q \in Over[p])
    BY ListenAbove
  <2>2. p \in Path /\ x \in Under(q)
    BY <2>1, Unders DEF Viewed
  <2>3. CASE Has(up, Asks(q))
    BY <2>1, <2>3 DEF Has, Asks, Asked
  <2>4. CASE HeardOf(q)
    <3>1. Has(down, Tells(x)) \/ UpToDate(q, x)
      BY <2>2, <2>4 DEF HeardOf
    <3>2. CASE Has(down, Tells(x))
      BY <3>2 DEF Has, Tells, Told
    <3>3. CASE UpToDate(q, x)
      <4>1. UpToDate(p, x)
        BY <2>1, <3>3, BelowUpToDate
      <4>2. p \in heard \/ Covered(p, heard)
        BY <2>1, <2>4 DEF HeardOf, Covered
      <4> QED  BY <4>1, <4>2 DEF UpToDate, Knows
    <3> QED  BY <3>1, <3>2, <3>3
  <2> QED  BY <2>3, <2>4 DEF Inv, SyncInv, WireInv, ListensHeard
<1> QED  BY <1>1, InvInit, InvNext, PTL DEF Spec

\* Once nothing is under way, views and screens have what the server has.
THEOREM SettledScreensCorrect == Spec => []SettledScreens
<1>1. Inv => SettledScreens
  <2> SUFFICES ASSUME Inv, Quiet
               PROVE  /\ \A p \in Viewed : view[p] = [full |-> TRUE, node |-> Stored(p)]
                      /\ tab.loaded => tab.node = Stored(Tab)
                      /\ details.at = "visible" /\ details.ref \in Leaf =>
                            details.event = Stored(details.ref)
    BY DEF SettledScreens
  <2>1. /\ online /\ \A i \in DOMAIN up : FALSE
        /\ \A i \in DOMAIN down : FALSE
        /\ \A i \in DOMAIN mainq : FALSE
    BY DEF Quiet
  <2>2. \A G : ~Has(up, G) /\ ~Has(down, G) /\ ~Has(mainq, G)
    BY <2>1 DEF Has
  <2>3. ASSUME NEW p \in Viewed
        PROVE  view[p].full /\ view[p] = [full |-> TRUE, node |-> Stored(p)]
               /\ view[p].node = Stored(p)
    <3>1. PICK q \in listens : q \in Viewed /\ (q = p \/ q \in Over[p])
      BY ListenAbove
    <3>2. p \in Path /\ \A x \in Under(p) : x \in Under(q)
      BY <3>1, Unders DEF Viewed
    <3>3. HeardOf(q)
      BY <2>1, <2>2 DEF Inv, SyncInv, WireInv, ListensHeard
    <3>4. view[q].full /\ \A x \in Under(q) : UpToDate(q, x)
      BY <2>2, <3>3 DEF HeardOf
    <3>5. view[p].full
      BY <3>1, <3>4 DEF Inv, SyncInv, ViewsInv, FullBelow
    <3>6. DOMAIN view[p].node = Under(p)
      BY <3>2, <3>5 DEF Inv, SyncInv, ViewsInv, FullHasAll
    <3>7. \A x \in Under(p) : view[p].node[x] = db[x]
      BY <3>1, <3>2, <3>4, BelowUpToDate DEF UpToDate
    <3>8. PICK w \in Views : w = view[p] /\ w.node \in AllNodes
      BY <3>2 DEF Inv, SyncInv, CacheTypes, Views
    <3>9. w.node = Stored(p)
      <4>1. w.node = [x \in Under(p) |-> w.node[x]]
        BY <3>6, <3>8, NodeFacts
      <4> QED  BY <3>7, <3>8, <4>1 DEF Stored
    <3> QED  BY <3>5, <3>8, <3>9 DEF Views
  <2>4. ASSUME tab.loaded PROVE tab.node = Stored(Tab)
    <3>1. Tab \in Viewed
      BY <2>4, Tree DEF Viewed, Inv, ScreensInv, Registered
    <3>2. Shows(mainq, {"tab"}, view[Tab].node, tab.node)
      BY <2>3, <3>1 DEF Inv, ScreensInv, TabCurrent
    <3> QED  BY <2>2, <2>3, <3>1, <3>2 DEF Shows
  <2>5. ASSUME details.at = "visible", details.ref \in Leaf
        PROVE  details.event = Stored(details.ref)
    <3>1. details.ref \in Viewed
      BY <2>5 DEF Viewed, Inv, ScreensInv, ScreenTypes, DetailsOwn
    <3>2. Shows(mainq, Details, view[details.ref].node, details.event)
      BY <2>3, <2>5, <3>1 DEF Inv, ScreensInv, DetailsCurrent
    <3> QED  BY <2>2, <2>3, <3>1, <3>2 DEF Shows
  <2> QED  BY <2>3, <2>4, <2>5
<1> QED  BY <1>1, InvInit, InvNext, PTL DEF Spec

=============================================================================
