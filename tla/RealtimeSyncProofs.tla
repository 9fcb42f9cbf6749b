------------------------- MODULE RealtimeSyncProofs -------------------------
(***************************************************************************)
(* Proofs about RealtimeSync, for any number of devices, children, values, *)
(* writes and faults.                                                      *)
(***************************************************************************)
EXTENDS RealtimeSync, TLAPS, FiniteSetTheorems, WellFoundedInduction,
        SequenceTheorems

-----------------------------------------------------------------------------
(* The overlay: the youngest pending write of a child exists.              *)

\* A finite set of numbers that is not empty has a greatest element: the
\* smallest of the sets of elements from i upwards starts at it.
LEMMA GreatestElement ==
    ASSUME NEW S \in SUBSET Nat, IsFiniteSet(S), S # {}
    PROVE  \E m \in S : \A j \in S : j <= m
<1> DEFINE Up(i) == {j \in S : i <= j}
           Ups   == {Up(i) : i \in S}
<1>1. IsWellFoundedOn(StrictSubsetOrdering(S), SUBSET S)
    BY FS_StrictSubsetOrderingWellFounded, FS_FiniteSubsetsOfFinite
<1>2. Ups \subseteq SUBSET S /\ Ups # {}
    OBVIOUS
<1>3. PICK U \in Ups : \A W \in Ups : ~ (<<W, U>> \in StrictSubsetOrdering(S))
    <2> HIDE DEF Ups
    <2> QED BY <1>1, <1>2, WFMin
<1>4. PICK m \in S : U = Up(m)
    BY <1>3
<1>5. ASSUME NEW j \in S PROVE j <= m
    <2> SUFFICES ASSUME ~ (j <= m) PROVE FALSE
        OBVIOUS
    <2>1. m \in Nat /\ j \in Nat /\ m < j
        OBVIOUS
    <2>2. \A i \in S : i \in Nat /\ (j <= i => m <= i)
        BY <2>1
    <2>3. Up(j) \subseteq Up(m)
        BY <2>1, <2>2
    <2>5. m \in Up(m) /\ m \notin Up(j)
        BY <2>1
    <2>4. <<Up(j), Up(m)>> \in StrictSubsetOrdering(S)
        BY <2>3, <2>5 DEF StrictSubsetOrdering
    <2> QED BY <1>3, <1>4, <2>4
<1> QED BY <1>5

\* LastOn returns the greatest index of a pending write of k.
LEMMA LastOnIsGreatest ==
    ASSUME NEW ps \in Seq(Put), NEW k, On(ps, k) # {}
    PROVE  /\ LastOn(ps, k) \in On(ps, k)
           /\ \A j \in On(ps, k) : j <= LastOn(ps, k)
<1>1. DOMAIN ps = 1..Len(ps) /\ Len(ps) \in Nat
    BY LenProperties
<1>2. On(ps, k) \in SUBSET Nat /\ On(ps, k) \in SUBSET (1..Len(ps))
    BY <1>1 DEF On
<1>3. IsFiniteSet(On(ps, k))
    <2>1. IsFiniteSet(1..Len(ps))
        BY <1>1, FS_Interval
    <2> QED BY <1>2, <2>1, FS_Subset
<1>4. \E m \in On(ps, k) : \A j \in On(ps, k) : j <= m
    BY <1>2, <1>3, GreatestElement
<1> QED BY <1>4 DEF LastOn

\* The overlaid view of a known cache is a snapshot.
LEMMA ViewType ==
    ASSUME NEW c \in Snapshot \cup {Unknown}, NEW ps \in Seq(Put)
    PROVE  /\ View(c, ps) \in Snapshot \cup {Unknown}
           /\ c # Unknown => View(c, ps) \in Snapshot
<1> SUFFICES ASSUME c # Unknown, NEW k \in Key
             PROVE  (IF On(ps, k) = {} THEN c[k] ELSE ps[LastOn(ps, k)].val) \in Entry
    BY DEF View, Snapshot
<1>1. CASE On(ps, k) = {}
    BY <1>1 DEF Snapshot
<1>2. CASE On(ps, k) # {}
    <2>1. LastOn(ps, k) \in 1..Len(ps)
        BY <1>2, LastOnIsGreatest, LenProperties DEF On
    <2>2. ps[LastOn(ps, k)] \in Put
        BY <2>1, ElementOfSeq
    <2> QED BY <1>2, <2>2 DEF Put, Entry
<1> QED BY <1>1, <1>2

-----------------------------------------------------------------------------
(* The writes without an answer: what is left of the pending writes when   *)
(* the oldest ones, whose answers are held back, are taken off.            *)

Rest(ps, h) == SubSeq(ps, h + 1, Len(ps))

LEMMA RestProperties ==
    ASSUME NEW ps \in Seq(Put), NEW h \in Nat, h <= Len(ps)
    PROVE  /\ Rest(ps, h) \in Seq(Put)
           /\ Len(Rest(ps, h)) = Len(ps) - h
           /\ \A i \in 1..(Len(ps) - h) : Rest(ps, h)[i] = ps[h + i]
           /\ h = 0 => Rest(ps, h) = ps
           /\ h < Len(ps) => Tail(Rest(ps, h)) = Rest(ps, h + 1)
<1>1. PICK n \in Nat : n = Len(ps)
    BY LenProperties
<1>2. \A i \in (h + 1)..n : ps[i] \in Put
    BY <1>1, ElementOfSeq
<1>3. /\ SubSeq(ps, h + 1, n) \in Seq(Put)
      /\ Len(SubSeq(ps, h + 1, n)) = IF h + 1 <= n THEN n - (h + 1) + 1 ELSE 0
      /\ \A i \in 1..(n - (h + 1) + 1) : SubSeq(ps, h + 1, n)[i] = ps[(h + 1) + i - 1]
    <2>1. h + 1 \in Int /\ n \in Int
        BY <1>1
    <2> QED BY <1>2, <2>1, SubSeqProperties
<1>4. ASSUME h = 0 PROVE Rest(ps, h) = ps
    BY <1>4, SubSeqFull DEF Rest
<1>5. ASSUME h < n PROVE Tail(Rest(ps, h)) = Rest(ps, h + 1)
    <2>1. h + 1 \in 1..Len(ps) /\ Len(ps) \in (h + 1)..Len(ps)
        BY <1>1, <1>5
    <2> QED BY <2>1, HeadTailOfSubSeq DEF Rest
<1>6. ASSUME NEW i \in 1..(n - h) PROVE Rest(ps, h)[i] = ps[h + i]
    <2>1. i \in 1..(n - (h + 1) + 1) /\ (h + 1) + i - 1 = h + i
        OBVIOUS
    <2> QED BY <1>1, <1>3, <2>1 DEF Rest
<1>7. Rest(ps, h) \in Seq(Put) /\ Len(Rest(ps, h)) = n - h
    BY <1>1, <1>3 DEF Rest
<1> QED BY <1>1, <1>4, <1>5, <1>6, <1>7

LEMMA RestOfAppend ==
    ASSUME NEW ps \in Seq(Put), NEW p \in Put, NEW h \in Nat, h <= Len(ps)
    PROVE  Rest(Append(ps, p), h) = Append(Rest(ps, h), p)
<1>1. PICK n \in Nat : n = Len(ps)
    BY LenProperties
<1>2. PICK qs \in Seq(Put) : qs = Append(ps, p)
    BY AppendProperties
<1>3. /\ Len(qs) = n + 1
      /\ \A i \in 1..n : qs[i] = ps[i]
      /\ qs[n + 1] = p
    BY <1>1, <1>2, AppendProperties
<1>4. PICK a \in Seq(Put) : a = Rest(ps, h)
    BY RestProperties
<1>5. PICK m \in Nat : m = n - h
    <2>1. n - h \in Nat
        BY <1>1
    <2> QED BY <2>1
<1>6. Len(a) = m /\ \A i \in 1..m : a[i] = ps[h + i]
    BY <1>1, <1>4, <1>5, RestProperties
<1>7. PICK b \in Seq(Put) : b = Append(a, p)
    BY AppendProperties
<1>8. /\ Len(b) = m + 1
      /\ \A i \in 1..m : b[i] = a[i]
      /\ b[m + 1] = p
    <2>1. /\ Len(Append(a, p)) = Len(a) + 1
          /\ \A i \in 1..Len(a) : Append(a, p)[i] = a[i]
          /\ Append(a, p)[Len(a) + 1] = p
        BY AppendProperties
    <2> QED BY <1>6, <1>7, <2>1
<1>9. h <= Len(qs) /\ Len(qs) - h = m + 1
    BY <1>1, <1>3, <1>5
<1>10. PICK c \in Seq(Put) : c = Rest(qs, h)
    BY <1>9, RestProperties
<1>11. Len(c) = m + 1 /\ \A i \in 1..(m + 1) : c[i] = qs[h + i]
    <2>1. /\ Len(Rest(qs, h)) = Len(qs) - h
          /\ \A i \in 1..(Len(qs) - h) : Rest(qs, h)[i] = qs[h + i]
        BY <1>9, RestProperties
    <2> QED BY <1>9, <1>10, <2>1
<1>12. ASSUME NEW i \in 1..Len(c) PROVE c[i] = b[i]
    <2>1. CASE i = m + 1
        <3>1. h + i = n + 1 /\ i \in 1..(m + 1)
            BY <1>5, <2>1
        <3> QED BY <1>3, <1>8, <1>11, <2>1, <3>1
    <2>2. CASE i # m + 1
        <3>1. i \in 1..m /\ h + i \in 1..n /\ i \in 1..(m + 1)
            BY <1>5, <1>11, <2>2
        <3> QED BY <1>3, <1>6, <1>8, <1>11, <3>1
    <2> QED BY <2>1, <2>2
<1>13. c = b
    BY <1>8, <1>11, <1>12, SeqEqual
<1> QED BY <1>2, <1>4, <1>7, <1>10, <1>13

LEMMA WaitingIsRest == \A d : Waiting(d) = Rest(puts[d], held[d])
<1> QED BY DEF Waiting, Rest

LEMMA WaitingType ==
    ASSUME SyncTypeOK, NEW d \in Device, held[d] <= Len(puts[d])
    PROVE  /\ Waiting(d) \in Seq(Put)
           /\ Len(Waiting(d)) \in Nat
           /\ Len(Waiting(d)) = Len(puts[d]) - held[d]
           /\ held[d] = 0 => Waiting(d) = puts[d]
<1>1. puts[d] \in Seq(Put) /\ held[d] \in Nat
    BY DEF SyncTypeOK
<1>2. Waiting(d) \in Seq(Put)
    BY <1>1, RestProperties, WaitingIsRest
<1> QED BY <1>1, <1>2, RestProperties, WaitingIsRest, LenProperties

-----------------------------------------------------------------------------
(* What AckPuts raises: the views that change as the writes held back are  *)
(* lifted, the last of them the view that is left.                         *)

\* The elements of a finite set of numbers, in their order.
Upto(C, n) == {m \in C : m <= n}

LEMMA NthExists ==
    ASSUME NEW C, IsFiniteSet(C), C \subseteq Nat
    PROVE  \A k \in 1..Cardinality(C) : \E n \in C : Cardinality(Upto(C, n)) = k
<1>1. PICK N \in Nat : N = Cardinality(C)
    BY FS_CardinalityType
<1>2. ASSUME NEW n \in C
      PROVE  IsFiniteSet(Upto(C, n)) /\ Cardinality(Upto(C, n)) \in 1..N
    <2>1. Upto(C, n) \in SUBSET C /\ n \in Upto(C, n)
        BY DEF Upto
    <2>2. /\ IsFiniteSet(Upto(C, n))
          /\ Cardinality(Upto(C, n)) <= N
          /\ Cardinality(Upto(C, n)) \in Nat
        BY <1>1, <2>1, FS_Subset, FS_CardinalityType
    <2>3. Cardinality(Upto(C, n)) # 0
        BY <2>1, <2>2, FS_EmptySet
    <2> QED BY <2>2, <2>3
<1>3. ASSUME NEW n \in C, NEW m \in C, m < n
      PROVE  Cardinality(Upto(C, m)) # Cardinality(Upto(C, n))
    <2>1. \A j \in C : j \in Int
        OBVIOUS
    <2>2. \A j \in C : j <= m => j <= n
        BY <1>3, <2>1
    <2>3. Upto(C, m) \in SUBSET Upto(C, n)
        BY <2>2 DEF Upto
    <2>4. n \in Upto(C, n) /\ n \notin Upto(C, m)
        BY <1>3, <2>1 DEF Upto
    <2>5. Upto(C, m) # Upto(C, n)
        BY <2>4
    <2> QED BY <1>2, <2>3, <2>5, FS_Subset
<1>4. PICK c : c = [n \in C |-> Cardinality(Upto(C, n))]
    OBVIOUS
<1>5. c \in [C -> 1..N] /\ \A n \in C : c[n] = Cardinality(Upto(C, n))
    BY <1>2, <1>4
<1>6. c \in Injection(C, 1..N)
    <2>1. ASSUME NEW n \in C, NEW m \in C, n # m PROVE c[n] # c[m]
        <3>1. n < m \/ m < n
            BY <2>1
        <3> QED BY <1>3, <1>5, <3>1
    <2> QED BY <1>5, <2>1 DEF Injection, IsInjective
<1>7. c \in Surjection(C, 1..N)
    <2>1. IsFiniteSet(1..N) /\ Cardinality(1..N) = N
        BY FS_Interval
    <2> QED BY <1>1, <1>6, <2>1, FS_Injection
<1> QED BY <1>1, <1>5, <1>7 DEF Surjection

\* A function that never changes from a to h.
LEMMA NeverChanges ==
    ASSUME NEW f, NEW a \in Nat, NEW h \in Nat, a <= h,
           \A n \in (a + 1)..h : f[n] = f[n - 1]
    PROVE  f[h] = f[a]
<1>1. PICK S : S = {n \in a..h : f[n] = f[a]}
    OBVIOUS
<1>2. a \in S /\ IsFiniteSet(S) /\ S \in SUBSET Nat
    <2>1. IsFiniteSet(a..h) /\ S \in SUBSET (a..h)
        BY <1>1, FS_Interval
    <2>2. S \in SUBSET Nat /\ a \in S
        BY <1>1
    <2> QED BY <2>1, <2>2, FS_Subset
<1>3. PICK m \in S : \A j \in S : j <= m
    BY <1>2, GreatestElement
<1>4. m = h
    <2> SUFFICES ASSUME m # h PROVE FALSE
        OBVIOUS
    <2>1. m \in a..h /\ f[m] = f[a]
        BY <1>1
    <2>2. m + 1 \in (a + 1)..h /\ m + 1 \in a..h /\ (m + 1) - 1 = m
        BY <2>1
    <2>3. f[m + 1] = f[a]
        BY <2>1, <2>2
    <2>4. m + 1 \in S
        BY <1>1, <2>2, <2>3
    <2> QED BY <1>3, <2>1, <2>4
<1> QED BY <1>1, <1>4

Raised(d) == [i \in 1..Cardinality(Changing(d)) |-> Lifted(d, NthChange(d, i))]

LEMMA LiftedType ==
    ASSUME SyncTypeOK, NEW d \in Device, held[d] <= Len(puts[d]), NEW n \in 0..held[d]
    PROVE  /\ Lifted(d, n) = View(cache[d], Rest(puts[d], n))
           /\ cache[d] # Unknown => Lifted(d, n) \in Snapshot
           /\ cache[d] = Unknown => Lifted(d, n) = Unknown
<1>1. puts[d] \in Seq(Put) /\ n \in Nat /\ n <= Len(puts[d])
    BY LenProperties DEF SyncTypeOK
<1>2. Lifted(d, n) = View(cache[d], Rest(puts[d], n))
    BY DEF Lifted, Rest
<1>3. Rest(puts[d], n) \in Seq(Put) /\ cache[d] \in Snapshot \cup {Unknown}
    BY <1>1, RestProperties DEF SyncTypeOK
<1>4. cache[d] # Unknown => Lifted(d, n) \in Snapshot
    BY <1>2, <1>3, ViewType
<1> QED BY <1>2, <1>4 DEF View

LEMMA NthChangeIs ==
    ASSUME SyncTypeOK, NEW d \in Device
    PROVE  /\ Cardinality(Changing(d)) \in Nat
           /\ Changing(d) \subseteq 1..held[d]
           /\ IsFiniteSet(Changing(d))
           /\ \A i \in 1..Cardinality(Changing(d)) :
                  /\ NthChange(d, i) \in Changing(d)
                  /\ Cardinality(Upto(Changing(d), NthChange(d, i))) = i
<1>1. PICK C : C = Changing(d)
    OBVIOUS
<1>2. C \in SUBSET (1..held[d]) /\ held[d] \in Nat
    BY <1>1 DEF Changing, SyncTypeOK
<1>3. IsFiniteSet(C) /\ Cardinality(C) \in Nat
    <2>1. IsFiniteSet(1..held[d])
        BY <1>2, FS_Interval
    <2> QED BY <1>2, <2>1, FS_Subset, FS_CardinalityType
<1>4. ASSUME NEW i \in 1..Cardinality(C)
      PROVE  NthChange(d, i) \in C /\ Cardinality(Upto(C, NthChange(d, i))) = i
    <2>1. \E n \in C : Cardinality(Upto(C, n)) = i
        <3>1. C \subseteq Nat
            BY <1>2
        <3> QED BY <1>3, <3>1, NthExists
    <2>2. NthChange(d, i) = CHOOSE n \in C : Cardinality(Upto(C, n)) = i
        BY <1>1 DEF NthChange, Upto
    <2> QED BY <2>1, <2>2
<1> QED BY <1>1, <1>2, <1>3, <1>4

\* The views raised are snapshots, and the last of them, or the present view
\* if there is none, is the view over the writes without an answer.
LEMMA RaisedProperties ==
    ASSUME SyncTypeOK, NEW d \in Device, held[d] <= Len(puts[d])
    PROVE  /\ Raised(d) \in Seq(Snapshot)
           /\ Raised(d) = <<>> => View(cache[d], Waiting(d)) = View(cache[d], puts[d])
           /\ Raised(d) # <<>> => Raised(d)[Len(Raised(d))] = View(cache[d], Waiting(d))
           /\ \A i \in 1..Len(Raised(d)) :
                  \E n \in 1..held[d] : Raised(d)[i] = View(cache[d], Rest(puts[d], n))
<1>1. PICK C : C = Changing(d)
    OBVIOUS
<1>2. PICK N \in Nat : N = Cardinality(C)
    BY <1>1, NthChangeIs
<1>3. PICK h \in Nat : h = held[d]
    BY DEF SyncTypeOK
<1>4. \A i \in 1..N : NthChange(d, i) \in C /\ NthChange(d, i) \in 1..h
    BY <1>1, <1>2, <1>3, NthChangeIs
<1>5. PICK R : R = Raised(d)
    OBVIOUS
<1>6. R = [i \in 1..N |-> Lifted(d, NthChange(d, i))]
    BY <1>1, <1>2, <1>5 DEF Raised
<1>7. ASSUME NEW i \in 1..N PROVE R[i] \in Snapshot
    <2>1. PICK n \in 1..h : n = NthChange(d, i) /\ n \in C
        BY <1>4
    <2>2. n - 1 \in 0..held[d] /\ n \in 0..held[d]
        BY <1>3
    <2>3. Lifted(d, n) # Lifted(d, n - 1)
        BY <1>1, <2>1 DEF Changing
    <2>4. cache[d] # Unknown
        BY <2>2, <2>3, LiftedType
    <2>5. Lifted(d, n) \in Snapshot
        BY <2>2, <2>4, LiftedType
    <2> QED BY <1>6, <2>1, <2>5
<1>8. R \in Seq(Snapshot) /\ Len(R) = N
    <2>1. R \in [1..N -> Snapshot]
        BY <1>6, <1>7
    <2> QED BY <2>1, SeqDef, LenProperties
<1>9. PICK f : f = [n \in 0..h |-> Lifted(d, n)]
    OBVIOUS
<1>10. f[h] = View(cache[d], Waiting(d)) /\ f[0] = View(cache[d], puts[d])
    <2>1. f[h] = View(cache[d], Rest(puts[d], h)) /\ f[0] = View(cache[d], Rest(puts[d], 0))
        BY <1>3, <1>9, LiftedType
    <2>2. Rest(puts[d], 0) = puts[d]
        <3>1. puts[d] \in Seq(Put) /\ 0 <= Len(puts[d])
            BY LenProperties DEF SyncTypeOK
        <3> QED BY <3>1, RestProperties
    <2> QED BY <1>3, <2>1, <2>2, WaitingIsRest
<1>11. \A n \in 1..h : n \notin C => f[n] = f[n - 1]
    BY <1>1, <1>3, <1>9 DEF Changing
<1>12. ASSUME R = <<>> PROVE f[h] = f[0]
    <2>1. N = 0
        BY <1>8, <1>12, EmptySeq
    <2>2. C = {}
        BY <1>1, <1>2, <2>1, NthChangeIs, FS_EmptySet
    <2>3. \A n \in (0 + 1)..h : f[n] = f[n - 1]
        BY <1>11, <2>2
    <2> QED BY <2>3, NeverChanges
<1>13. ASSUME R # <<>> PROVE R[N] = f[h]
    <2>1. N \in 1..N
        BY <1>8, <1>13, EmptySeq
    <2>2. PICK g \in 1..h : g = NthChange(d, N) /\ g \in C
        BY <1>4, <2>1
    <2>3. Cardinality(Upto(C, g)) = Cardinality(C)
        BY <1>1, <1>2, <2>1, <2>2, NthChangeIs
    <2>4. Upto(C, g) = C
        <3>1. Upto(C, g) \in SUBSET C /\ IsFiniteSet(C)
            BY <1>1, NthChangeIs DEF Upto
        <3> QED BY <2>3, <3>1, FS_Subset
    <2>5. \A n \in C : n <= g
        BY <2>4 DEF Upto
    <2>6. \A n \in (g + 1)..h : f[n] = f[n - 1]
        <3> SUFFICES ASSUME NEW n \in (g + 1)..h PROVE f[n] = f[n - 1]
            OBVIOUS
        <3>1. n \in 1..h /\ ~ (n <= g)
            OBVIOUS
        <3> QED BY <1>11, <2>5, <3>1
    <2>7. f[h] = f[g]
        BY <2>6, NeverChanges
    <2>8. R[N] = f[g]
        BY <1>6, <1>9, <2>1, <2>2
    <2> QED BY <2>7, <2>8
<1>14. ASSUME NEW i \in 1..N
       PROVE  \E n \in 1..h : R[i] = View(cache[d], Rest(puts[d], n))
    <2>1. PICK n \in 1..h : n = NthChange(d, i)
        BY <1>4
    <2>2. R[i] = Lifted(d, n) /\ n \in 0..held[d]
        BY <1>3, <1>6, <2>1
    <2> QED BY <2>2, LiftedType
<1> QED BY <1>3, <1>5, <1>8, <1>10, <1>12, <1>13, <1>14

-----------------------------------------------------------------------------
(* Counting the answers in a channel.                                      *)

LEMMA AcksFinite ==
    ASSUME NEW msgs \in Seq(Message)
    PROVE  IsFiniteSet(Acks(msgs)) /\ Cardinality(Acks(msgs)) \in Nat
<1>1. DOMAIN msgs = 1..Len(msgs) /\ Len(msgs) \in Nat
    BY LenProperties
<1>2. Acks(msgs) \in SUBSET (1..Len(msgs))
    BY <1>1 DEF Acks
<1>3. IsFiniteSet(1..Len(msgs))
    BY <1>1, FS_Interval
<1>4. IsFiniteSet(Acks(msgs))
    BY <1>2, <1>3, FS_Subset
<1> QED BY <1>4, FS_CardinalityType

LEMMA AcksEmpty == Cardinality(Acks(<<>>)) = 0
<1>1. Acks(<<>>) = {}
    BY DEF Acks
<1> QED BY <1>1, FS_EmptySet

LEMMA AcksAppend ==
    ASSUME NEW msgs \in Seq(Message), NEW m \in Message
    PROVE  Cardinality(Acks(Append(msgs, m))) =
               Cardinality(Acks(msgs)) + (IF m.kind = "ack" THEN 1 ELSE 0)
<1> DEFINE n == Len(msgs)
<1>1. /\ DOMAIN msgs = 1..n
      /\ n \in Nat
      /\ DOMAIN Append(msgs, m) = 1..(n + 1)
      /\ \A i \in 1..n : Append(msgs, m)[i] = msgs[i]
      /\ Append(msgs, m)[n + 1] = m
    BY LenProperties, AppendProperties
<1>2. IsFiniteSet(Acks(msgs)) /\ Cardinality(Acks(msgs)) \in Nat
    BY AcksFinite
<1>3. n + 1 \notin Acks(msgs)
    BY <1>1 DEF Acks
<1>4. CASE m.kind = "ack"
    <2>1. Acks(Append(msgs, m)) = Acks(msgs) \cup {n + 1}
        BY <1>1, <1>4 DEF Acks
    <2> QED BY <1>2, <1>3, <1>4, <2>1, FS_AddElement
<1>5. CASE m.kind # "ack"
    <2>1. Acks(Append(msgs, m)) = Acks(msgs)
        BY <1>1, <1>5 DEF Acks
    <2> QED BY <1>2, <1>5, <2>1
<1> QED BY <1>4, <1>5

LEMMA AcksTail ==
    ASSUME NEW msgs \in Seq(Message), msgs # <<>>
    PROVE  Cardinality(Acks(msgs)) =
               Cardinality(Acks(Tail(msgs))) + (IF Head(msgs).kind = "ack" THEN 1 ELSE 0)
<1> DEFINE n == Len(msgs)
           T == Acks(Tail(msgs))
           S == {i \in Acks(msgs) : i # 1}
           f == [i \in T |-> i + 1]
<1>1. /\ DOMAIN msgs = 1..n
      /\ n \in Nat \ {0}
      /\ Head(msgs) = msgs[1]
      /\ Tail(msgs) \in Seq(Message)
      /\ DOMAIN Tail(msgs) = 1..(n - 1)
      /\ \A i \in 1..(n - 1) : Tail(msgs)[i] = msgs[i + 1]
    BY LenProperties, EmptySeq, HeadTailProperties
<1>2. /\ IsFiniteSet(Acks(msgs)) /\ Cardinality(Acks(msgs)) \in Nat
      /\ IsFiniteSet(T) /\ Cardinality(T) \in Nat
    BY <1>1, AcksFinite
<1>3. Cardinality(S) = Cardinality(T)
    <2>1. f \in Bijection(T, S)
        <3>1. \A i \in T : i \in 1..(n - 1) /\ i + 1 \in S
            BY <1>1 DEF Acks
        <3>2. \A j \in S : j - 1 \in T /\ (j - 1) + 1 = j
            BY <1>1 DEF Acks
        <3> QED BY <3>1, <3>2 DEF Bijection, Injection, Surjection, IsInjective
    <2>2. ExistsBijection(T, S)
        BY <2>1 DEF ExistsBijection
    <2> QED BY <1>2, <2>2, FS_Bijection
<1>4. CASE Head(msgs).kind = "ack"
    <2>1. S = Acks(msgs) \ {1} /\ 1 \in Acks(msgs)
        BY <1>1, <1>4 DEF Acks
    <2>2. Cardinality(Acks(msgs) \ {1}) = Cardinality(Acks(msgs)) - 1
        BY <1>2, <2>1, FS_RemoveElement
    <2> HIDE DEF S, T
    <2>3. Cardinality(S) = Cardinality(Acks(msgs)) - 1
        BY <2>1, <2>2
    <2>4. Cardinality(Acks(msgs)) = Cardinality(T) + 1
        BY <1>2, <1>3, <2>3
    <2> QED BY <1>4, <2>4 DEF T
<1>5. CASE Head(msgs).kind # "ack"
    <2>1. S = Acks(msgs)
        BY <1>1, <1>5 DEF Acks
    <2> HIDE DEF S, T
    <2>2. Cardinality(Acks(msgs)) = Cardinality(T) + 0
        BY <1>2, <1>3, <2>1
    <2> QED BY <1>5, <2>2 DEF T
<1> QED BY <1>4, <1>5

-----------------------------------------------------------------------------
(* What the server puts into a channel.                                    *)

DataOf(p)  == [kind |-> "data", key |-> p.key, val |-> p.val]
AckOf(ok)  == [kind |-> "ack", ok |-> ok]
WithData(p, ok, d) == IF ok /\ sub[d] THEN Append(down[d], DataOf(p)) ELSE down[d]

\* Push appends the new value and then the answer, if they are for d.
LEMMA PushIsAppends ==
    ASSUME SyncTypeOK, NEW w \in Device, NEW d \in Device, NEW p \in Put,
           NEW ok \in BOOLEAN
    PROVE  /\ WithData(p, ok, d) \in Seq(Message)
           /\ DataOf(p) \in Message
           /\ AckOf(ok) \in Message
           /\ Push(w, p, ok, d) = IF d = w THEN Append(WithData(p, ok, d), AckOf(ok))
                                  ELSE WithData(p, ok, d)
<1>1. down[d] \in Seq(Message) /\ DataOf(p) \in Message /\ AckOf(ok) \in Message
    BY DEF SyncTypeOK, Message, DataMsg, AckMsg, DataOf, AckOf, Put
<1>2. WithData(p, ok, d) \in Seq(Message)
    BY <1>1, AppendProperties DEF WithData
<1>3. /\ Append(down[d], DataOf(p)) = down[d] \o <<DataOf(p)>>
      /\ Append(WithData(p, ok, d), AckOf(ok)) = WithData(p, ok, d) \o <<AckOf(ok)>>
      /\ down[d] \o <<>> = down[d]
      /\ WithData(p, ok, d) \o <<>> = WithData(p, ok, d)
    BY <1>1, <1>2, AppendIsConcat, ConcatEmptySeq
<1>4. Push(w, p, ok, d) = WithData(p, ok, d) \o (IF d = w THEN <<AckOf(ok)>> ELSE <<>>)
    BY <1>1, <1>3 DEF Push, WithData, DataOf, AckOf
<1> QED BY <1>1, <1>2, <1>3, <1>4

\* Push leaves the channel a sequence of messages, with an answer more for
\* the writer only.
LEMMA PushCount ==
    ASSUME SyncTypeOK, NEW w \in Device, NEW d \in Device, NEW p \in Put,
           NEW ok \in BOOLEAN
    PROVE  /\ Push(w, p, ok, d) \in Seq(Message)
           /\ Cardinality(Acks(Push(w, p, ok, d))) =
                  Handled(d) + (IF d = w THEN 1 ELSE 0)
<1>1. down[d] \in Seq(Message) /\ Handled(d) \in Nat
    BY AcksFinite DEF SyncTypeOK, Handled
<1>2. Cardinality(Acks(WithData(p, ok, d))) = Handled(d)
    BY <1>1, PushIsAppends, AcksAppend DEF WithData, DataOf, Handled
<1>3. CASE d = w
    <2>1. Push(w, p, ok, d) = Append(WithData(p, ok, d), AckOf(ok))
        BY <1>3, PushIsAppends
    <2>2. AckOf(ok).kind = "ack"
        BY DEF AckOf
    <2> QED BY <1>2, <1>3, <2>1, <2>2, PushIsAppends, AcksAppend, AppendProperties
<1>4. CASE d # w
    BY <1>1, <1>2, <1>4, PushIsAppends
<1> QED BY <1>3, <1>4

-----------------------------------------------------------------------------
(* Type correctness.  That the overlay and the cache are only ever patched *)
(* where there is something to patch is the content of it: an answer finds *)
(* the write it answers, and a change finds a complete cache.              *)

\* d knows the collection once it has processed its first n messages.
KnownAfter(d, n) ==
    cache[d] # Unknown \/ \E j \in 1..n : down[d][j].kind = "init"

AnswersHaveWrites ==
    \A d \in Device : held[d] <= Len(puts[d]) /\ Handled(d) <= Len(Waiting(d))

ChangesFollowInit ==
    \A d \in Device :
        /\ sub[d] => KnownAfter(d, Len(down[d]))
        /\ \A i \in 1..Len(down[d]) :
               down[d][i].kind = "data" => KnownAfter(d, i - 1)

TypeInv == SyncTypeOK /\ AnswersHaveWrites /\ ChangesFollowInit

LEMMA TypeInvInit == SyncInit => TypeInv
<1> SUFFICES ASSUME SyncInit PROVE TypeInv
    OBVIOUS
<1>1. SyncTypeOK
    BY BoundAssumption, EmptySeq DEF SyncInit, SyncTypeOK, Snapshot, Entry
<1>2. AnswersHaveWrites
    <2>1. \A d \in Device : puts[d] = <<>> /\ held[d] = 0 /\ Handled(d) = 0 /\ Len(<<>>) = 0
        BY AcksEmpty, EmptySeq DEF SyncInit, Handled
    <2>2. \A d \in Device : Waiting(d) = <<>>
        BY <1>1, <2>1, WaitingType
    <2> QED BY <2>1, <2>2 DEF AnswersHaveWrites
<1>3. ChangesFollowInit
    BY EmptySeq DEF SyncInit, ChangesFollowInit
<1> QED BY <1>1, <1>2, <1>3 DEF TypeInv

\* A step that only hands a snapshot of the right type to Raise leaves the
\* queues well-formed.
LEMMA RaiseType ==
    ASSUME SyncTypeOK, NEW d \in Device, NEW view, Raise(d, view),
           view = View(cache[d], puts[d]) \/ view \in Snapshot
    PROVE  mainq' \in [Device -> Seq(Snapshot)]
<1> QED BY AppendProperties DEF Raise, SyncTypeOK

\* The writes without an answer, of a device whose writes are left alone.
LEMMA WritesAlone ==
    ASSUME TypeInv, NEW x \in Device, puts'[x] = puts[x], held'[x] = held[x]
    PROVE  /\ held'[x] <= Len(puts'[x])
           /\ Waiting(x)' = Waiting(x)
           /\ Waiting(x) \in Seq(Put)
           /\ Len(Waiting(x)) \in Nat
           /\ Handled(x) \in Nat
           /\ Handled(x) <= Len(Waiting(x))
<1>1. /\ held[x] <= Len(puts[x])
      /\ Handled(x) <= Len(Waiting(x))
      /\ SyncTypeOK
    BY DEF TypeInv, AnswersHaveWrites
<1>2. Waiting(x) \in Seq(Put) /\ Len(Waiting(x)) \in Nat
    BY <1>1, WaitingType
<1>3. Handled(x) \in Nat
    BY <1>1, AcksFinite DEF SyncTypeOK, Handled
<1>4. Waiting(x)' = Waiting(x)
    BY DEF Waiting
<1> QED BY <1>1, <1>2, <1>3, <1>4

\* The steps that leave the channels, the caches and the writes alone, or
\* only add a write, do not disturb the two conditions on the channels.
LEMMA ChannelsAlone ==
    ASSUME TypeInv, UNCHANGED <<down, cache>>,
           \A x \in Device : /\ held'[x] <= Len(puts'[x])
                             /\ Len(Waiting(x)) <= Len(Waiting(x)')
                             /\ Len(Waiting(x)') \in Nat,
           \A x \in Device : sub'[x] => sub[x]
    PROVE  AnswersHaveWrites' /\ ChangesFollowInit'
<1>1. AnswersHaveWrites'
    <2> SUFFICES ASSUME NEW x \in Device PROVE Handled(x)' <= Len(Waiting(x)')
        BY DEF AnswersHaveWrites
    <2>1. SyncTypeOK /\ held[x] <= Len(puts[x]) /\ Handled(x) <= Len(Waiting(x))
        BY DEF TypeInv, AnswersHaveWrites
    <2>2. Handled(x) \in Nat /\ Len(Waiting(x)) \in Nat
        BY <2>1, AcksFinite, WaitingType DEF SyncTypeOK, Handled
    <2>3. Handled(x)' = Handled(x)
        BY DEF Handled
    <2> QED BY <2>1, <2>2, <2>3
<1>2. ChangesFollowInit'
    BY DEF TypeInv, ChangesFollowInit, KnownAfter
<1> QED BY <1>1, <1>2

LEMMA ChannelsUntouched ==
    ASSUME TypeInv, UNCHANGED <<down, cache, puts, held>>,
           \A x \in Device : sub'[x] => sub[x]
    PROVE  AnswersHaveWrites' /\ ChangesFollowInit'
<1>1. \A x \in Device : /\ held'[x] <= Len(puts'[x])
                        /\ Len(Waiting(x)) <= Len(Waiting(x)')
                        /\ Len(Waiting(x)') \in Nat
    BY WritesAlone
<1> QED BY <1>1, ChannelsAlone

\* A channel that is emptied, with its subscription, disturbs nothing.
LEMMA ChannelClosed ==
    ASSUME TypeInv, NEW d \in Device, CloseWire(d),
           \A x \in Device \ {d} : /\ cache'[x] = cache[x]
                                   /\ puts'[x] = puts[x]
                                   /\ held'[x] = held[x],
           held'[d] <= Len(puts'[d]), Len(Waiting(d)') \in Nat
    PROVE  AnswersHaveWrites' /\ ChangesFollowInit'
<1>1. /\ down' = [down EXCEPT ![d] = <<>>]
      /\ sub' = [sub EXCEPT ![d] = FALSE]
      /\ down \in [Device -> Seq(Message)] /\ sub \in [Device -> BOOLEAN]
    BY DEF CloseWire, TypeInv, SyncTypeOK
<1>2. down'[d] = <<>> /\ ~sub'[d] /\ Handled(d)' = 0 /\ Len(<<>>) = 0
    BY <1>1, AcksEmpty, EmptySeq DEF Handled
<1>3. AnswersHaveWrites'
    <2> SUFFICES ASSUME NEW x \in Device
                 PROVE  held'[x] <= Len(puts'[x]) /\ Handled(x)' <= Len(Waiting(x)')
        BY DEF AnswersHaveWrites
    <2>1. CASE x = d
        BY <1>2, <2>1
    <2>2. CASE x # d
        <3>1. Handled(x)' = Handled(x)
            BY <1>1, <2>2 DEF Handled
        <3> QED BY <2>2, <3>1, WritesAlone
    <2> QED BY <2>1, <2>2
<1>4. ChangesFollowInit'
    <2> SUFFICES ASSUME NEW x \in Device
                 PROVE  /\ sub'[x] => KnownAfter(x, Len(down[x]))'
                        /\ \A i \in 1..Len(down'[x]) :
                               down'[x][i].kind = "data" => KnownAfter(x, i - 1)'
        BY DEF ChangesFollowInit
    <2>1. CASE x = d
        BY <1>2, <2>1
    <2>2. CASE x # d
        <3>1. down'[x] = down[x] /\ sub'[x] = sub[x] /\ cache'[x] = cache[x]
            BY <1>1, <2>2
        <3> QED BY <3>1 DEF TypeInv, ChangesFollowInit, KnownAfter
    <2> QED BY <2>1, <2>2
<1> QED BY <1>3, <1>4

\* The first message of a channel is taken: what a snapshot established is
\* in the cache if the snapshot was that message, or still in the channel.
LEMMA ChannelTaken ==
    ASSUME TypeInv, NEW d \in Device, NEW kind, Receive(d, kind),
           \A x \in Device \ {d} : cache'[x] = cache[x],
           kind = "init" \/ cache[d] # Unknown => cache'[d] # Unknown
    PROVE  ChangesFollowInit'
<1> DEFINE msgs == down[d]
<1>1. /\ down' = [down EXCEPT ![d] = Tail(@)]
      /\ sub' = sub
      /\ down \in [Device -> Seq(Message)]
      /\ msgs # <<>>
      /\ Head(msgs).kind = kind
    BY DEF Receive, TypeInv, SyncTypeOK
<1>2. /\ Len(msgs) \in Nat \ {0}
      /\ Head(msgs) = msgs[1]
      /\ Len(Tail(msgs)) = Len(msgs) - 1
      /\ \A i \in 1..(Len(msgs) - 1) : Tail(msgs)[i] = msgs[i + 1]
    BY <1>1, EmptySeq, HeadTailProperties
<1>3. ASSUME NEW n \in 0..(Len(msgs) - 1), KnownAfter(d, n + 1)
      PROVE  KnownAfter(d, n)'
    <2>1. CASE cache[d] # Unknown
        BY <2>1 DEF KnownAfter
    <2>2. CASE \E j \in 1..(n + 1) : msgs[j].kind = "init"
        <3>1. PICK j \in 1..(n + 1) : msgs[j].kind = "init"
            BY <2>2
        <3>2. CASE j = 1
            BY <1>1, <1>2, <3>1, <3>2 DEF KnownAfter
        <3>3. CASE j # 1
            <4>1. j - 1 \in 1..n /\ down'[d][j - 1] = msgs[j]
                BY <1>1, <1>2, <3>3
            <4> QED BY <3>1, <4>1 DEF KnownAfter
        <3> QED BY <3>2, <3>3
    <2> QED BY <1>3, <2>1, <2>2 DEF KnownAfter
<1>4. SUFFICES ASSUME NEW x \in Device
               PROVE  /\ sub'[x] => KnownAfter(x, Len(down[x]))'
                      /\ \A i \in 1..Len(down'[x]) :
                             down'[x][i].kind = "data" => KnownAfter(x, i - 1)'
    BY DEF ChangesFollowInit
<1>5. CASE x = d
    <2>1. down'[d] = Tail(msgs) /\ Len(down'[d]) = Len(msgs) - 1
        BY <1>1, <1>2
    <2>2. ASSUME sub'[d] PROVE KnownAfter(d, Len(down[d]))'
        <3>1. PICK n \in 0..(Len(msgs) - 1) : n = Len(msgs) - 1
            BY <1>2
        <3>2. KnownAfter(d, n + 1)
            BY <1>1, <1>2, <2>2, <3>1 DEF TypeInv, ChangesFollowInit
        <3>3. KnownAfter(d, n)'
            BY <1>3, <3>2
        <3>4. Len(down'[d]) = n
            BY <2>1, <3>1
        <3> QED BY <3>3, <3>4 DEF KnownAfter
    <2>3. ASSUME NEW i \in 1..Len(down'[d]), down'[d][i].kind = "data"
          PROVE  KnownAfter(d, i - 1)'
        <3>1. i + 1 \in 1..Len(msgs) /\ msgs[i + 1].kind = "data" /\ (i - 1) + 1 = (i + 1) - 1
            BY <1>2, <2>1, <2>3
        <3>2. KnownAfter(d, (i - 1) + 1)
            BY <3>1 DEF TypeInv, ChangesFollowInit
        <3>3. i - 1 \in 0..(Len(msgs) - 1)
            BY <1>2, <2>1
        <3> QED BY <1>3, <3>2, <3>3 DEF KnownAfter
    <2> QED BY <1>5, <2>2, <2>3 DEF KnownAfter
<1>6. CASE x # d
    <2>1. down'[x] = down[x] /\ sub'[x] = sub[x] /\ cache'[x] = cache[x]
        BY <1>1, <1>6
    <2> QED BY <2>1 DEF TypeInv, ChangesFollowInit, KnownAfter
<1> QED BY <1>5, <1>6

\* What is appended to a channel is an answer, a snapshot, or a change for
\* a connection that listens and so has its snapshot.
LEMMA ChannelAppended ==
    ASSUME TypeInv, NEW x \in Device, cache'[x] = cache[x],
           \/ down'[x] = down[x] /\ (sub'[x] => sub[x])
           \/ \E m \in Message :
                 /\ down'[x] = Append(down[x], m)
                 /\ m.kind = "data" => sub[x]
                 /\ sub'[x] => sub[x] \/ m.kind = "init"
    PROVE  /\ sub'[x] => KnownAfter(x, Len(down[x]))'
           /\ \A i \in 1..Len(down'[x]) :
                  down'[x][i].kind = "data" => KnownAfter(x, i - 1)'
<1>1. CASE down'[x] = down[x] /\ (sub'[x] => sub[x])
    BY <1>1 DEF TypeInv, ChangesFollowInit, KnownAfter
<1>2. CASE \E m \in Message :
               /\ down'[x] = Append(down[x], m)
               /\ m.kind = "data" => sub[x]
               /\ sub'[x] => sub[x] \/ m.kind = "init"
    <2>1. PICK m \in Message :
               /\ down'[x] = Append(down[x], m)
               /\ m.kind = "data" => sub[x]
               /\ sub'[x] => sub[x] \/ m.kind = "init"
        BY <1>2
    <2>0. PICK n \in Nat : n = Len(down[x])
        BY LenProperties DEF TypeInv, SyncTypeOK
    <2>2. /\ n \in Nat
          /\ Len(down'[x]) = n + 1
          /\ \A i \in 1..n : down'[x][i] = down[x][i]
          /\ down'[x][n + 1] = m
        BY <2>1, <2>0, LenProperties, AppendProperties DEF TypeInv, SyncTypeOK
    <2>3. \A i \in 0..n : KnownAfter(x, i) => KnownAfter(x, i)'
        BY <2>2 DEF KnownAfter
    <2>4. sub[x] => KnownAfter(x, n) /\ KnownAfter(x, n)' /\ KnownAfter(x, n + 1)'
        BY <2>2, <2>3, <2>0 DEF TypeInv, ChangesFollowInit, KnownAfter
    <2>5. m.kind = "init" => KnownAfter(x, n + 1)'
        BY <2>2 DEF KnownAfter
    <2>6. sub'[x] => KnownAfter(x, Len(down[x]))'
        BY <2>1, <2>2, <2>4, <2>5 DEF KnownAfter
    <2>7. ASSUME NEW i \in 1..Len(down'[x]), down'[x][i].kind = "data"
          PROVE  KnownAfter(x, i - 1)'
        <3>1. CASE i = n + 1
            <4>1. KnownAfter(x, n)' /\ i - 1 = n
                BY <2>1, <2>2, <2>4, <2>7, <3>1
            <4> QED BY <4>1
        <3>2. CASE i # n + 1
            <4>1. i \in 1..n /\ i - 1 \in 0..n /\ down[x][i].kind = "data"
                BY <2>2, <2>7, <3>2
            <4>2. KnownAfter(x, i - 1)
                BY <2>0, <4>1 DEF TypeInv, ChangesFollowInit
            <4> QED BY <2>3, <4>1, <4>2 DEF KnownAfter
        <3> QED BY <3>1, <3>2
    <2> QED BY <2>6, <2>7
<1> QED BY <1>1, <1>2

\* A put is handled: the server's part of ServerApply and ServerReject.
LEMMA PutHandled ==
    ASSUME TypeInv, NEW d \in Device, Unhandled(d), NEW ok \in BOOLEAN,
           down' = [x \in Device |-> Push(d, NextPut(d), ok, x)],
           UNCHANGED <<sub, puts, held, cache>>
    PROVE  /\ NextPut(d) \in Put
           /\ down' \in [Device -> Seq(Message)]
           /\ AnswersHaveWrites'
           /\ ChangesFollowInit'
<1>1. SyncTypeOK
    BY DEF TypeInv
<1>2. NextPut(d) \in Put
    <2>1. Waiting(d) \in Seq(Put) /\ Len(Waiting(d)) \in Nat /\ Handled(d) \in Nat
        BY WritesAlone
    <2>2. Handled(d) + 1 \in 1..Len(Waiting(d))
        BY <2>1 DEF Unhandled
    <2> QED BY <2>1, <2>2, ElementOfSeq DEF NextPut
<1>3. \A x \in Device : /\ Push(d, NextPut(d), ok, x) \in Seq(Message)
                        /\ Cardinality(Acks(Push(d, NextPut(d), ok, x))) =
                               Handled(x) + (IF x = d THEN 1 ELSE 0)
    BY <1>1, <1>2, PushCount
<1>4. AnswersHaveWrites'
    <2> SUFFICES ASSUME NEW x \in Device
                 PROVE  held'[x] <= Len(puts'[x]) /\ Handled(x)' <= Len(Waiting(x)')
        BY DEF AnswersHaveWrites
    <2>1. Handled(x)' = Handled(x) + (IF x = d THEN 1 ELSE 0)
        BY <1>3 DEF Handled
    <2>2. /\ held'[x] <= Len(puts'[x])
          /\ Waiting(x)' = Waiting(x)
          /\ Len(Waiting(x)) \in Nat
          /\ Handled(x) \in Nat
          /\ Handled(x) <= Len(Waiting(x))
        BY WritesAlone
    <2> QED BY <2>1, <2>2 DEF Unhandled
<1>5. ChangesFollowInit'
    <2> SUFFICES ASSUME NEW x \in Device
                 PROVE  /\ sub'[x] => KnownAfter(x, Len(down[x]))'
                        /\ \A i \in 1..Len(down'[x]) :
                               down'[x][i].kind = "data" => KnownAfter(x, i - 1)'
        BY DEF ChangesFollowInit
    <2> DEFINE p == NextPut(d)
    <2>1. /\ DataOf(p) \in Message /\ AckOf(ok) \in Message
          /\ down'[x] = IF x = d THEN Append(WithData(p, ok, x), AckOf(ok))
                        ELSE WithData(p, ok, x)
        BY <1>1, <1>2, PushIsAppends
    <2>2. AckOf(ok).kind = "ack" /\ DataOf(p).kind = "data" /\ sub[d]
        BY DEF AckOf, DataOf, Unhandled
    <2> HIDE DEF p
    <2>3. CASE ~(ok /\ sub[x])
        BY <2>1, <2>2, <2>3, ChannelAppended DEF WithData
    <2>4. CASE ok /\ sub[x] /\ x # d
        BY <2>1, <2>2, <2>4, ChannelAppended DEF WithData
    <2>5. CASE ok /\ sub[x] /\ x = d
        <3>1. PICK n \in Nat : n = Len(down[x])
            BY <1>1, LenProperties DEF SyncTypeOK
        <3>2. /\ WithData(p, ok, x) \in Seq(Message)
              /\ Len(WithData(p, ok, x)) = n + 1
              /\ \A i \in 1..n : WithData(p, ok, x)[i] = down[x][i]
            BY <1>1, <2>1, <2>5, <3>1, AppendProperties DEF WithData, SyncTypeOK
        <3>3. /\ Len(down'[x]) = n + 2
              /\ \A i \in 1..n : down'[x][i] = down[x][i]
              /\ down'[x][n + 2] = AckOf(ok)
            <4>1. PICK w \in Seq(Message) : w = WithData(p, ok, x)
                BY <3>2
            <4>2. down'[x] = Append(w, AckOf(ok)) /\ Len(w) = n + 1
                BY <2>1, <2>5, <3>2, <4>1
            <4>3. Len(Append(w, AckOf(ok))) = (n + 1) + 1
                BY <2>1, <4>2, AppendProperties
            <4>4. \A i \in 1..(n + 1) : Append(w, AckOf(ok))[i] = w[i]
                BY <2>1, <4>2, AppendProperties
            <4>5. Append(w, AckOf(ok))[(n + 1) + 1] = AckOf(ok)
                BY <2>1, <4>2, AppendProperties
            <4> QED BY <3>2, <4>1, <4>2, <4>3, <4>4, <4>5
        <3>4. \A i \in 0..n : KnownAfter(x, i) => KnownAfter(x, i)'
            BY <3>3 DEF KnownAfter
        <3>5. KnownAfter(x, n) /\ KnownAfter(x, n)' /\ KnownAfter(x, n + 2)'
            <4>1. KnownAfter(x, n)
                BY <2>5, <3>1 DEF TypeInv, ChangesFollowInit
            <4>2. KnownAfter(x, n)'
                BY <3>3, <4>1 DEF KnownAfter
            <4>3. KnownAfter(x, n + 2)'
                BY <4>2 DEF KnownAfter
            <4> QED BY <4>1, <4>2, <4>3
        <3>6. KnownAfter(x, Len(down[x]))'
            BY <3>3, <3>5 DEF KnownAfter
        <3>7. ASSUME NEW i \in 1..Len(down'[x]), down'[x][i].kind = "data"
              PROVE  KnownAfter(x, i - 1)'
            <4>1. CASE i \in 1..n
                <5>1. i - 1 \in 0..n /\ KnownAfter(x, i - 1)
                    BY <3>1, <3>3, <3>7, <4>1 DEF TypeInv, ChangesFollowInit
                <5> QED BY <3>3, <5>1 DEF KnownAfter
            <4>2. CASE i = n + 1
                <5>1. i - 1 = n /\ n \in Nat
                    BY <4>2
                <5> QED BY <3>5, <5>1 DEF KnownAfter
            <4>3. CASE i = n + 2
                BY <2>2, <3>3, <3>7, <4>3
            <4>4. i \in 1..n \/ i = n + 1 \/ i = n + 2
                BY <3>1, <3>3
            <4> QED BY <4>1, <4>2, <4>3, <4>4
        <3> QED BY <3>6, <3>7
    <2> QED BY <2>3, <2>4, <2>5
<1> QED BY <1>2, <1>3, <1>4, <1>5

\* The part every message shares: it is well-formed, and its channel gets
\* one message shorter and loses its answer if it was one.
LEMMA MessageTaken ==
    ASSUME TypeInv, NEW d \in Device, NEW kind, Receive(d, kind)
    PROVE  /\ down' \in [Device -> Seq(Message)]
           /\ \A x \in Device :
                  Handled(x)' = Handled(x) - (IF x = d /\ kind = "ack" THEN 1 ELSE 0)
           /\ \A x \in Device : Handled(x) \in Nat /\ Handled(x)' \in Nat
           /\ Head(down[d]) \in Message
           /\ Head(down[d]).kind = kind
           /\ kind = "data" => cache[d] # Unknown
<1>1. /\ down' = [down EXCEPT ![d] = Tail(@)]
      /\ down \in [Device -> Seq(Message)]
      /\ down[d] # <<>>
      /\ Head(down[d]).kind = kind
    BY DEF Receive, TypeInv, SyncTypeOK
<1>2. /\ Len(down[d]) \in Nat \ {0}
      /\ Head(down[d]) = down[d][1]
      /\ Head(down[d]) \in Message
      /\ Tail(down[d]) \in Seq(Message)
    BY <1>1, EmptySeq, HeadTailProperties
<1>3. down' \in [Device -> Seq(Message)]
    BY <1>1, <1>2
<1>4. \A x \in Device : Handled(x) \in Nat /\ Handled(x)' \in Nat
    BY <1>1, <1>3, AcksFinite DEF Handled
<1>5. ASSUME NEW x \in Device
      PROVE  Handled(x)' = Handled(x) - (IF x = d /\ kind = "ack" THEN 1 ELSE 0)
    <2>1. CASE x = d
        <3>1. Handled(d) = Handled(d)' + (IF kind = "ack" THEN 1 ELSE 0)
            BY <1>1, <1>2, AcksTail DEF Handled
        <3> QED BY <1>4, <2>1, <3>1
    <2>2. CASE x # d
        BY <1>1, <1>4, <2>2 DEF Handled
    <2> QED BY <2>1, <2>2
<1>6. kind = "data" => cache[d] # Unknown
    <2> SUFFICES ASSUME kind = "data" PROVE cache[d] # Unknown
        OBVIOUS
    <2>1. 1 \in 1..Len(down[d]) /\ down[d][1].kind = "data"
        BY <1>1, <1>2
    <2>2. KnownAfter(d, 1 - 1)
        BY <2>1 DEF TypeInv, ChangesFollowInit
    <2> QED BY <2>2 DEF KnownAfter
<1> QED BY <1>1, <1>2, <1>3, <1>4, <1>5, <1>6

\* An answer is for the oldest write without one, whether it lifts the
\* write or is held back.
LEMMA AnswerTaken ==
    ASSUME TypeInv, NEW d \in Device, RecvAck(d) \/ HoldAck(d)
    PROVE  /\ puts' \in [Device -> Seq(Put)]
           /\ held' \in [Device -> Nat]
           /\ Waiting(d) # <<>>
           /\ Waiting(d)' = Tail(Waiting(d))
           /\ \A x \in Device \ {d} : Waiting(x)' = Waiting(x)
           /\ AnswersHaveWrites'
<1>1. Receive(d, "ack") /\ SyncTypeOK
    BY DEF RecvAck, HoldAck, TypeInv
<1>2. /\ Handled(d) \in Nat
      /\ Handled(d)' \in Nat
      /\ Handled(d)' = Handled(d) - 1
      /\ \A x \in Device \ {d} : Handled(x)' = Handled(x)
    BY <1>1, MessageTaken
<1>3. held[d] <= Len(puts[d]) /\ Handled(d) <= Len(Waiting(d))
    BY DEF TypeInv, AnswersHaveWrites
<1>4. /\ puts[d] \in Seq(Put) /\ Len(puts[d]) \in Nat /\ held[d] \in Nat
      /\ Waiting(d) \in Seq(Put) /\ Len(Waiting(d)) \in Nat
      /\ Len(Waiting(d)) = Len(puts[d]) - held[d]
    BY <1>1, <1>3, WaitingType, LenProperties DEF SyncTypeOK
<1>5. Waiting(d) # <<>>
    BY <1>2, <1>3, <1>4, EmptySeq
<1>6. Len(Tail(Waiting(d))) = Len(Waiting(d)) - 1 /\ Tail(Waiting(d)) \in Seq(Put)
    BY <1>4, <1>5, HeadTailProperties
<1>7. /\ puts' \in [Device -> Seq(Put)] /\ held' \in [Device -> Nat]
      /\ Waiting(d)' = Tail(Waiting(d))
      /\ held'[d] <= Len(puts'[d])
      /\ \A x \in Device \ {d} : puts'[x] = puts[x] /\ held'[x] = held[x]
    <2>1. CASE RecvAck(d)
        <3>1. /\ puts' = [puts EXCEPT ![d] = Tail(@)]
              /\ held' = held
              /\ held[d] = 0
            BY <2>1 DEF RecvAck
        <3>2. Waiting(d) = puts[d]
            BY <1>1, <1>3, <3>1, WaitingType
        <3>3. /\ Tail(puts[d]) \in Seq(Put)
              /\ Len(Tail(puts[d])) = Len(puts[d]) - 1
              /\ Len(puts[d]) # 0
            BY <1>4, <1>5, <1>6, <3>2, EmptySeq
        <3>4. puts'[d] = Tail(puts[d]) /\ held'[d] = 0
            BY <1>1, <3>1 DEF SyncTypeOK
        <3>5. Waiting(d)' = Tail(puts[d])
            <4>1. Waiting(d)' = Rest(Tail(puts[d]), 0)
                BY <3>4 DEF Waiting, Rest
            <4>2. PICK ps \in Seq(Put) : ps = Tail(puts[d])
                BY <3>3
            <4>3. 0 <= Len(ps)
                BY LenProperties
            <4>4. Rest(ps, 0) = ps
                BY <4>3, RestProperties
            <4> QED BY <4>1, <4>2, <4>4
        <3> QED BY <1>1, <1>4, <3>1, <3>2, <3>3, <3>4, <3>5 DEF SyncTypeOK
    <2>2. CASE HoldAck(d)
        <3>1. puts' = puts /\ held' = [held EXCEPT ![d] = @ + 1]
            BY <2>2 DEF HoldAck
        <3>2. held'[d] = held[d] + 1
            BY <1>1, <3>1 DEF SyncTypeOK
        <3>3. held[d] < Len(puts[d])
            BY <1>4, <1>5, EmptySeq
        <3>4. Waiting(d)' = Rest(puts[d], held[d] + 1)
            BY <3>1, <3>2 DEF Waiting, Rest
        <3>5. Rest(puts[d], held[d] + 1) = Tail(Waiting(d))
            BY <1>3, <1>4, <3>3, RestProperties, WaitingIsRest
        <3>6. held' \in [Device -> Nat] /\ puts' \in [Device -> Seq(Put)]
            BY <1>1, <3>1 DEF SyncTypeOK
        <3>7. \A x \in Device \ {d} : puts'[x] = puts[x] /\ held'[x] = held[x]
            BY <1>1, <3>1 DEF SyncTypeOK
        <3>8. held'[d] <= Len(puts'[d])
            BY <1>4, <3>1, <3>2, <3>3
        <3> QED BY <3>4, <3>5, <3>6, <3>7, <3>8
    <2> QED BY <2>1, <2>2, RecvAck(d) \/ HoldAck(d)
<1>8. \A x \in Device \ {d} : Waiting(x)' = Waiting(x)
    BY <1>7, WritesAlone
<1>9. AnswersHaveWrites'
    <2> SUFFICES ASSUME NEW x \in Device
                 PROVE  held'[x] <= Len(puts'[x]) /\ Handled(x)' <= Len(Waiting(x)')
        BY DEF AnswersHaveWrites
    <2>1. CASE x = d
        BY <1>2, <1>3, <1>4, <1>6, <1>7, <2>1
    <2>2. CASE x # d
        BY <1>2, <1>7, <2>2, WritesAlone
    <2> QED BY <2>1, <2>2
<1> QED BY <1>5, <1>7, <1>8, <1>9

\* The answers held back are completed: their writes go, and what has no
\* answer stays without one.
LEMMA AnswersLifted ==
    ASSUME TypeInv, NEW d \in Device, AckPuts(d)
    PROVE  /\ puts' \in [Device -> Seq(Put)]
           /\ held' \in [Device -> Nat]
           /\ puts'[d] = Waiting(d)
           /\ \A x \in Device \ {d} : puts'[x] = puts[x]
           /\ \A x \in Device : /\ held'[x] <= Len(puts'[x])
                                /\ Waiting(x)' = Waiting(x)
                                /\ Len(Waiting(x)) \in Nat
<1>1. /\ puts' = [puts EXCEPT ![d] = Waiting(d)]
      /\ held' = [held EXCEPT ![d] = 0]
      /\ SyncTypeOK
      /\ held[d] <= Len(puts[d])
    BY DEF AckPuts, TypeInv, AnswersHaveWrites
<1>2. Waiting(d) \in Seq(Put) /\ Len(Waiting(d)) \in Nat
    BY <1>1, WaitingType
<1>3. puts'[d] = Waiting(d) /\ held'[d] = 0
    BY <1>1 DEF SyncTypeOK
<1>4. Waiting(d)' = Waiting(d)
    <2>1. PICK w \in Seq(Put) : w = Waiting(d)
        BY <1>2
    <2>2. Waiting(d)' = Rest(w, 0)
        BY <1>3, <2>1 DEF Waiting, Rest
    <2> QED BY <1>2, <2>1, <2>2, RestProperties
<1>5. ASSUME NEW x \in Device, x # d
      PROVE  /\ puts'[x] = puts[x]
             /\ held'[x] <= Len(puts'[x])
             /\ Waiting(x)' = Waiting(x)
             /\ Len(Waiting(x)) \in Nat
    <2>1. puts'[x] = puts[x] /\ held'[x] = held[x]
        BY <1>1, <1>5 DEF SyncTypeOK
    <2> QED BY <2>1, WritesAlone
<1>6. puts' \in [Device -> Seq(Put)] /\ held' \in [Device -> Nat]
    BY <1>1, <1>2 DEF SyncTypeOK
<1>7. held'[d] <= Len(puts'[d])
    BY <1>2, <1>3
<1> QED BY <1>2, <1>3, <1>4, <1>5, <1>6, <1>7

\* A step that takes a message, or completes the answers held back,
\* preserves the invariant.
LEMMA ReceivePreserves ==
    ASSUME TypeInv, NEW d \in Device,
           RecvInit(d) \/ RecvData(d) \/ RecvAck(d) \/ HoldAck(d) \/ AckPuts(d)
    PROVE  TypeInv'
<1> USE DEF TypeInv
<1> DEFINE m == Head(down[d])
<1>1. CASE RecvInit(d)
    <2>1. Receive(d, "init")
        BY <1>1 DEF RecvInit
    <2>2. m \in InitMsg
        BY <2>1, MessageTaken DEF Message, DataMsg, AckMsg
    <2>3. m.snap \in Snapshot /\ m.snap # Unknown
        BY <2>2, UnknownAssumption DEF InitMsg, Snapshot, Entry
    <2>4. cache' = [cache EXCEPT ![d] = m.snap]
        BY <1>1 DEF RecvInit
    <2>5. ChangesFollowInit'
        BY <2>1, <2>3, <2>4, ChannelTaken DEF SyncTypeOK
    <2>6. AnswersHaveWrites'
        <3>1. UNCHANGED <<puts, held>> /\ "init" # "ack"
            BY <1>1 DEF RecvInit
        <3>2. \A x \in Device : Handled(x)' = Handled(x)
            BY <2>1, <3>1, MessageTaken
        <3> QED BY <3>1, <3>2, WritesAlone DEF AnswersHaveWrites
    <2>7. mainq' \in [Device -> Seq(Snapshot)]
        <3>1. View(cache'[d], puts[d]) \in Snapshot
            BY <2>3, <2>4, ViewType DEF SyncTypeOK
        <3> QED BY <1>1, <3>1, RaiseType DEF RecvInit
    <2>8. down' \in [Device -> Seq(Message)]
        BY <2>1, MessageTaken
    <2>9. cache' \in [Device -> Snapshot \cup {Unknown}]
        BY <2>3, <2>4 DEF SyncTypeOK
    <2>10. UNCHANGED <<db, open, online, sub, puts, held, shown, sets, faults>>
        BY <1>1 DEF RecvInit, Receive
    <2>11. SyncTypeOK'
        BY <2>7, <2>8, <2>9, <2>10 DEF SyncTypeOK
    <2> QED BY <2>5, <2>6, <2>11
<1>2. CASE RecvData(d)
    <2>1. Receive(d, "data")
        BY <1>2 DEF RecvData
    <2>2. m \in DataMsg /\ cache[d] # Unknown
        BY <2>1, MessageTaken DEF Message, InitMsg, AckMsg
    <2>3. m.key \in Key /\ m.val \in Entry /\ cache[d] \in Snapshot
        BY <2>2 DEF DataMsg, Entry, SyncTypeOK
    <2>4. [cache[d] EXCEPT ![m.key] = m.val] \in Snapshot
        BY <2>3 DEF Snapshot
    <2>5. cache' = [cache EXCEPT ![d] = [cache[d] EXCEPT ![m.key] = m.val]]
        BY <1>2 DEF RecvData
    <2>6. cache'[d] \in Snapshot /\ cache'[d] # Unknown
        BY <2>4, <2>5, UnknownAssumption DEF SyncTypeOK, Snapshot, Entry
    <2>7. ChangesFollowInit'
        BY <2>1, <2>5, <2>6, ChannelTaken DEF SyncTypeOK
    <2>8. AnswersHaveWrites'
        <3>1. UNCHANGED <<puts, held>> /\ "data" # "ack"
            BY <1>2 DEF RecvData
        <3>2. \A x \in Device : Handled(x)' = Handled(x)
            BY <2>1, <3>1, MessageTaken
        <3> QED BY <3>1, <3>2, WritesAlone DEF AnswersHaveWrites
    <2>9. mainq' \in [Device -> Seq(Snapshot)]
        <3>1. View(cache'[d], puts[d]) \in Snapshot
            BY <2>6, ViewType DEF SyncTypeOK
        <3> QED BY <1>2, <3>1, RaiseType DEF RecvData
    <2>10. down' \in [Device -> Seq(Message)]
        BY <2>1, MessageTaken
    <2>11. cache' \in [Device -> Snapshot \cup {Unknown}]
        BY <2>4, <2>5 DEF SyncTypeOK
    <2>12. UNCHANGED <<db, open, online, sub, puts, held, shown, sets, faults>>
        BY <1>2 DEF RecvData, Receive
    <2>13. SyncTypeOK'
        BY <2>9, <2>10, <2>11, <2>12 DEF SyncTypeOK
    <2> QED BY <2>7, <2>8, <2>13
<1>3. ASSUME Receive(d, "ack"), cache' = cache PROVE ChangesFollowInit'
    <2>1. "ack" # "init"
        OBVIOUS
    <2> QED BY <1>3, <2>1, ChannelTaken
<1>4. CASE RecvAck(d)
    <2>1. Receive(d, "ack") /\ cache' = cache
        BY <1>4 DEF RecvAck
    <2>2. puts' \in [Device -> Seq(Put)] /\ held' \in [Device -> Nat] /\ AnswersHaveWrites'
        BY <1>4, AnswerTaken
    <2>3. mainq' \in [Device -> Seq(Snapshot)]
        <3>1. cache[d] = Unknown => View(cache[d], puts'[d]) = View(cache[d], puts[d])
            BY DEF View
        <3>2. cache[d] # Unknown => View(cache[d], puts'[d]) \in Snapshot
            BY <2>2, ViewType DEF SyncTypeOK
        <3> QED BY <1>4, <3>1, <3>2, RaiseType DEF RecvAck
    <2>4. down' \in [Device -> Seq(Message)]
        BY <2>1, MessageTaken
    <2>5. UNCHANGED <<db, open, online, sub, cache, shown, sets, faults>>
        BY <1>4 DEF RecvAck, Receive
    <2>6. SyncTypeOK'
        BY <2>2, <2>3, <2>4, <2>5 DEF SyncTypeOK
    <2> QED BY <1>3, <2>1, <2>2, <2>6
<1>5. CASE HoldAck(d)
    <2>1. Receive(d, "ack") /\ cache' = cache
        BY <1>5 DEF HoldAck
    <2>2. puts' \in [Device -> Seq(Put)] /\ held' \in [Device -> Nat] /\ AnswersHaveWrites'
        BY <1>5, AnswerTaken
    <2>3. down' \in [Device -> Seq(Message)]
        BY <2>1, MessageTaken
    <2>4. UNCHANGED <<db, open, online, sub, cache, mainq, shown, sets, faults>>
        BY <1>5 DEF HoldAck, Receive
    <2>5. SyncTypeOK'
        BY <2>2, <2>3, <2>4 DEF SyncTypeOK
    <2> QED BY <1>3, <2>1, <2>2, <2>5
<1>6. CASE AckPuts(d)
    <2>1. /\ puts' \in [Device -> Seq(Put)]
          /\ held' \in [Device -> Nat]
          /\ \A x \in Device : /\ held'[x] <= Len(puts'[x])
                               /\ Waiting(x)' = Waiting(x)
                               /\ Len(Waiting(x)) \in Nat
        BY <1>6, AnswersLifted
    <2>2. UNCHANGED <<db, open, online, sub, down, cache, shown, sets, faults>>
        BY <1>6 DEF AckPuts
    <2>3. AnswersHaveWrites' /\ ChangesFollowInit'
        <3>1. \A x \in Device : /\ held'[x] <= Len(puts'[x])
                                /\ Len(Waiting(x)) <= Len(Waiting(x)')
                                /\ Len(Waiting(x)') \in Nat
            BY <2>1
        <3> QED BY <2>2, <3>1, ChannelsAlone
    <2>4. mainq' \in [Device -> Seq(Snapshot)]
        <3>1. mainq' = [mainq EXCEPT ![d] = @ \o Raised(d)]
            BY <1>6 DEF AckPuts, Raised
        <3>2. Raised(d) \in Seq(Snapshot)
            BY RaisedProperties DEF AnswersHaveWrites
        <3>3. mainq[d] \o Raised(d) \in Seq(Snapshot)
            BY <3>2, ConcatProperties DEF SyncTypeOK
        <3> QED BY <3>1, <3>3 DEF SyncTypeOK
    <2>5. SyncTypeOK'
        BY <2>1, <2>2, <2>4 DEF SyncTypeOK
    <2> QED BY <2>3, <2>5
<1> QED BY <1>1, <1>2, <1>4, <1>5, <1>6

\* A write that is set waits behind the others.
LEMMA WriteWaits ==
    ASSUME TypeInv, NEW d \in Device, NEW k \in Key, NEW v \in Val, SetValue(d, k, v)
    PROVE  /\ puts' \in [Device -> Seq(Put)]
           /\ Waiting(d)' = Append(Waiting(d), [key |-> k, val |-> v])
           /\ \A x \in Device \ {d} : Waiting(x)' = Waiting(x)
           /\ \A x \in Device : /\ held'[x] <= Len(puts'[x])
                                /\ Len(Waiting(x)) <= Len(Waiting(x)')
                                /\ Len(Waiting(x)') \in Nat
<1>1. PICK p \in Put : p = [key |-> k, val |-> v]
    BY DEF Put
<1>2. puts' = [puts EXCEPT ![d] = Append(@, p)] /\ held' = held
    BY <1>1 DEF SetValue, wire
<1>3. /\ SyncTypeOK /\ held[d] <= Len(puts[d])
      /\ puts[d] \in Seq(Put) /\ held[d] \in Nat /\ Len(puts[d]) \in Nat
    BY LenProperties DEF TypeInv, AnswersHaveWrites, SyncTypeOK
<1>4. PICK ps \in Seq(Put) : ps = Append(puts[d], p) /\ Len(ps) = Len(puts[d]) + 1
    <2>1. /\ Append(puts[d], p) \in Seq(Put)
          /\ Len(Append(puts[d], p)) = Len(puts[d]) + 1
        BY <1>3, AppendProperties
    <2> QED BY <2>1
<1>5. puts'[d] = ps /\ held'[d] = held[d]
    BY <1>2, <1>3, <1>4 DEF SyncTypeOK
<1>6. PICK w \in Seq(Put) : w = Waiting(d) /\ Len(w) \in Nat
    BY <1>3, WaitingType
<1>7. Waiting(d)' = Append(w, p)
    <2>1. Waiting(d)' = Rest(ps, held[d])
        BY <1>5 DEF Waiting, Rest
    <2>2. Rest(ps, held[d]) = Append(Rest(puts[d], held[d]), p)
        BY <1>3, <1>4, RestOfAppend
    <2> QED BY <1>6, <2>1, <2>2, WaitingIsRest
<1>8. Len(Append(w, p)) = Len(w) + 1
    BY <1>6, AppendProperties
<1>9. ASSUME NEW x \in Device, x # d
      PROVE  /\ held'[x] <= Len(puts'[x])
             /\ Waiting(x)' = Waiting(x)
             /\ Len(Waiting(x)) \in Nat
    <2>1. puts'[x] = puts[x] /\ held'[x] = held[x]
        BY <1>2, <1>3, <1>9 DEF SyncTypeOK
    <2> QED BY <2>1, WritesAlone
<1>10. puts' \in [Device -> Seq(Put)]
    BY <1>2, <1>3, <1>4 DEF SyncTypeOK
<1>11. held'[d] <= Len(puts'[d])
    BY <1>3, <1>4, <1>5
<1>12. Len(Waiting(d)) <= Len(Waiting(d)') /\ Len(Waiting(d)') \in Nat
    BY <1>6, <1>7, <1>8
<1> QED BY <1>1, <1>6, <1>7, <1>9, <1>10, <1>11, <1>12

\* Every step preserves the invariant.
LEMMA TypeInvStep ==
    ASSUME TypeInv, [SyncNext]_syncVars
    PROVE  TypeInv'
<1> USE DEF TypeInv
<1>1. ASSUME NEW d \in Device, Observe(d) PROVE TypeInv'
    <2>1. SyncTypeOK'
        BY <1>1 DEF Observe, SyncTypeOK, wire, screen
    <2>2. AnswersHaveWrites' /\ ChangesFollowInit'
        BY <1>1, ChannelsUntouched DEF Observe, wire
    <2> QED BY <2>1, <2>2
<1>2. ASSUME NEW d \in Device, NEW k \in Key, NEW v \in Val, SetValue(d, k, v)
      PROVE  TypeInv'
    <2> DEFINE p == [key |-> k, val |-> v]
    <2>1. /\ p \in Put
          /\ puts' = [puts EXCEPT ![d] = Append(@, p)]
          /\ UNCHANGED <<down, cache, sub, held>>
        BY <1>2 DEF SetValue, Put, wire
    <2>2. /\ puts' \in [Device -> Seq(Put)]
          /\ \A x \in Device : /\ held'[x] <= Len(puts'[x])
                               /\ Len(Waiting(x)) <= Len(Waiting(x)')
                               /\ Len(Waiting(x)') \in Nat
        BY <1>2, WriteWaits
    <2>3. AnswersHaveWrites' /\ ChangesFollowInit'
        BY <2>1, <2>2, ChannelsAlone
    <2>4. mainq' \in [Device -> Seq(Snapshot)]
        <3>1. cache[d] = Unknown => View(cache[d], puts'[d]) = View(cache[d], puts[d])
            BY DEF View
        <3>2. cache[d] # Unknown => View(cache[d], puts'[d]) \in Snapshot
            BY <2>2, ViewType DEF SyncTypeOK
        <3> QED BY <1>2, <3>1, <3>2, RaiseType DEF SetValue
    <2>5. sets' \in 0..MaxSets
        BY <1>2, BoundAssumption DEF SetValue, SyncTypeOK
    <2>6. UNCHANGED <<db, open, online, sub, held, down, cache, shown, faults>>
        BY <1>2 DEF SetValue, wire
    <2>7. SyncTypeOK'
        BY <2>2, <2>4, <2>5, <2>6 DEF SyncTypeOK
    <2> QED BY <2>3, <2>7
<1>3. ASSUME NEW d \in Device, Connect(d) PROVE TypeInv'
    <2>1. SyncTypeOK'
        BY <1>3 DEF Connect, SyncTypeOK, screen
    <2>2. AnswersHaveWrites' /\ ChangesFollowInit'
        BY <1>3, ChannelsUntouched DEF Connect
    <2> QED BY <2>1, <2>2
<1>4. ASSUME NEW d \in Device, Disconnect(d) PROVE TypeInv'
    <2>1. SyncTypeOK'
        BY <1>4, EmptySeq, BoundAssumption DEF Disconnect, CloseWire, SyncTypeOK, screen
    <2>2. AnswersHaveWrites' /\ ChangesFollowInit'
        <3>1. CloseWire(d) /\ UNCHANGED <<cache, puts, held>>
            BY <1>4 DEF Disconnect
        <3>2. held'[d] <= Len(puts'[d]) /\ Len(Waiting(d)') \in Nat
            BY <3>1, WritesAlone
        <3> QED BY <3>1, <3>2, ChannelClosed
    <2> QED BY <2>1, <2>2
<1>5. ASSUME NEW d \in Device, Kill(d) PROVE TypeInv'
    <2>1. /\ CloseWire(d)
          /\ puts' = [puts EXCEPT ![d] = <<>>]
          /\ held' = [held EXCEPT ![d] = 0]
          /\ cache' = [cache EXCEPT ![d] = Unknown]
          /\ mainq' = [mainq EXCEPT ![d] = <<>>]
          /\ shown' = [shown EXCEPT ![d] = Unknown]
          /\ open' = [open EXCEPT ![d] = FALSE]
          /\ UNCHANGED <<db, sets>>
        BY <1>5 DEF Kill
    <2>2. AnswersHaveWrites' /\ ChangesFollowInit'
        <3>1. \A x \in Device \ {d} : /\ cache'[x] = cache[x]
                                      /\ puts'[x] = puts[x]
                                      /\ held'[x] = held[x]
            BY <2>1 DEF SyncTypeOK
        <3>2. puts'[d] = <<>> /\ held'[d] = 0 /\ Len(<<>>) = 0 /\ <<>> \in Seq(Put)
            BY <2>1, EmptySeq DEF SyncTypeOK
        <3>3. Waiting(d)' = Rest(<<>>, 0)
            BY <3>2 DEF Waiting, Rest
        <3>4. Len(Waiting(d)') \in Nat /\ held'[d] <= Len(puts'[d])
            BY <3>2, <3>3, RestProperties
        <3> QED BY <2>1, <3>1, <3>4, ChannelClosed
    <2>3. SyncTypeOK'
        BY <2>1, EmptySeq, BoundAssumption DEF CloseWire, SyncTypeOK
    <2> QED BY <2>2, <2>3
<1>6. ASSUME NEW d \in Device, ServerListen(d) PROVE TypeInv'
    <2> DEFINE m == [kind |-> "init", snap |-> db]
    <2>1. /\ m \in Message
          /\ m.kind = "init"
          /\ down' = [down EXCEPT ![d] = Append(@, m)]
          /\ sub' = [sub EXCEPT ![d] = TRUE]
          /\ UNCHANGED <<db, open, online, held, puts, cache, screen, sets, faults>>
        BY <1>6 DEF ServerListen, SyncTypeOK, Message, InitMsg
    <2> HIDE DEF m
    <2>2. \A x \in Device : down[x] \in Seq(Message) /\ Append(down[x], m) \in Seq(Message)
        BY <2>1, AppendProperties DEF SyncTypeOK
    <2>3. SyncTypeOK'
        BY <2>1, <2>2 DEF SyncTypeOK, screen
    <2>4. AnswersHaveWrites'
        <3> SUFFICES ASSUME NEW x \in Device
                     PROVE  held'[x] <= Len(puts'[x]) /\ Handled(x)' <= Len(Waiting(x)')
            BY DEF AnswersHaveWrites
        <3>1. Handled(x)' = Handled(x) /\ Handled(x) \in Nat
            <4>1. Cardinality(Acks(Append(down[x], m))) = Handled(x) /\ Handled(x) \in Nat
                BY <2>1, <2>2, AcksAppend, AcksFinite DEF Handled
            <4>2. down'[x] = IF x = d THEN Append(down[x], m) ELSE down[x]
                BY <2>1 DEF SyncTypeOK
            <4> QED BY <4>1, <4>2 DEF Handled
        <3> QED BY <2>1, <3>1, WritesAlone
    <2>5. ChangesFollowInit'
        <3> SUFFICES ASSUME NEW x \in Device
                     PROVE  /\ sub'[x] => KnownAfter(x, Len(down[x]))'
                            /\ \A i \in 1..Len(down'[x]) :
                                   down'[x][i].kind = "data" => KnownAfter(x, i - 1)'
            BY DEF ChangesFollowInit
        <3>1. CASE x = d
            <4>1. down'[x] = Append(down[x], m)
                BY <2>1, <3>1 DEF SyncTypeOK
            <4> QED BY <2>1, <4>1, ChannelAppended
        <3>2. CASE x # d
            <4>1. down'[x] = down[x] /\ sub'[x] = sub[x]
                BY <2>1, <3>2 DEF SyncTypeOK
            <4> QED BY <2>1, <4>1, ChannelAppended
        <3> QED BY <3>1, <3>2
    <2> QED BY <2>3, <2>4, <2>5
<1>7. ASSUME NEW d \in Device, ServerApply(d) PROVE TypeInv'
    <2>1. /\ Unhandled(d)
          /\ db' = [db EXCEPT ![NextPut(d).key] = NextPut(d).val]
          /\ down' = [x \in Device |-> Push(d, NextPut(d), TRUE, x)]
          /\ UNCHANGED <<open, online, sub, held, puts, cache, mainq, shown, sets, faults>>
        BY <1>7 DEF ServerApply, screen
    <2>2. /\ NextPut(d) \in Put
          /\ down' \in [Device -> Seq(Message)]
          /\ AnswersHaveWrites'
          /\ ChangesFollowInit'
        BY <2>1, PutHandled
    <2>3. db' \in Snapshot
        BY <2>1, <2>2 DEF SyncTypeOK, Snapshot, Put, Entry
    <2>4. SyncTypeOK'
        BY <2>1, <2>2, <2>3 DEF SyncTypeOK
    <2> QED BY <2>2, <2>4
<1>8. ASSUME NEW d \in Device, ServerReject(d) PROVE TypeInv'
    <2>1. /\ Unhandled(d)
          /\ down' = [x \in Device |-> Push(d, NextPut(d), FALSE, x)]
          /\ faults < MaxFaults /\ faults' = faults + 1
          /\ UNCHANGED <<db, open, online, sub, held, puts, cache, mainq, shown, sets>>
        BY <1>8 DEF ServerReject, screen
    <2>2. /\ down' \in [Device -> Seq(Message)]
          /\ AnswersHaveWrites'
          /\ ChangesFollowInit'
        BY <2>1, PutHandled
    <2>3. faults' \in 0..MaxFaults
        BY <2>1, BoundAssumption DEF SyncTypeOK
    <2>4. SyncTypeOK'
        BY <2>1, <2>2, <2>3 DEF SyncTypeOK
    <2> QED BY <2>2, <2>4
<1>9. ASSUME NEW d \in Device, Deliver(d) PROVE TypeInv'
    <2>1. mainq[d] \in Seq(Snapshot) /\ mainq[d] # <<>>
        BY <1>9 DEF Deliver, SyncTypeOK
    <2>2. Head(mainq[d]) \in Snapshot /\ Tail(mainq[d]) \in Seq(Snapshot)
        BY <2>1, HeadTailProperties
    <2>3. SyncTypeOK'
        BY <1>9, <2>2 DEF Deliver, SyncTypeOK, wire
    <2>4. AnswersHaveWrites' /\ ChangesFollowInit'
        BY <1>9, ChannelsUntouched DEF Deliver, wire
    <2> QED BY <2>3, <2>4
<1>10. CASE UNCHANGED syncVars
    <2>1. SyncTypeOK'
        BY <1>10 DEF syncVars, wire, screen, SyncTypeOK
    <2>2. AnswersHaveWrites' /\ ChangesFollowInit'
        BY <1>10, ChannelsUntouched DEF syncVars, wire
    <2> QED BY <2>1, <2>2
<1> QED
    <2>1. SUFFICES ASSUME NEW d \in Device,
                          \/ Observe(d)
                          \/ \E k \in Key, v \in Val : SetValue(d, k, v)
                          \/ Kill(d)
                          \/ Background(d)
                          \/ ServerApply(d)
                          \/ ServerReject(d)
                          \/ Deliver(d)
                   PROVE  TypeInv'
        BY <1>10 DEF SyncNext
    <2>2. RecvInit(d) \/ RecvData(d) \/ RecvAck(d) \/ HoldAck(d) \/ AckPuts(d) => TypeInv'
        BY ReceivePreserves
    <2>3. Background(d) => TypeInv'
        BY <1>3, <1>4, <1>6, <2>2 DEF Background
    <2> QED BY <1>1, <1>2, <1>5, <1>7, <1>8, <1>9, <2>1, <2>3

\* Whatever is lost, sent again or refused, the client's state stays
\* well-formed: no answer without a write, no change before its snapshot.
THEOREM SyncTypeCorrect == SyncSpec => []SyncTypeOK
<1>1. TypeInv /\ [SyncNext]_syncVars => TypeInv'
    BY TypeInvStep
<1>2. TypeInv => SyncTypeOK
    BY DEF TypeInv
<1> QED BY TypeInvInit, <1>1, <1>2, PTL DEF SyncSpec

-----------------------------------------------------------------------------
(* The screen's newest snapshot is the overlaid view.                      *)

\* The steps of the client raise the view they leave behind.
LEMMA RaisedIsNewest ==
    ASSUME SyncTypeOK, SyncTypeOK', NewestIsView, NEW d \in Device,
           Raise(d, View(cache'[d], puts'[d])), shown' = shown,
           View(cache'[d], puts'[d]) # View(cache[d], puts[d]) => cache'[d] # Unknown,
           \A x \in Device \ {d} : cache'[x] = cache[x] /\ puts'[x] = puts[x]
    PROVE  NewestIsView'
<1> DEFINE view == View(cache'[d], puts'[d])
<1>1. SUFFICES ASSUME NEW x \in Device PROVE Newest(x)' = View(cache'[x], puts'[x])
    BY DEF NewestIsView
<1>2. Newest(x) = View(cache[x], puts[x])
    BY DEF NewestIsView
<1>3. mainq \in [Device -> Seq(Snapshot)]
    BY DEF SyncTypeOK
<1>4. CASE x # d
    <2>1. mainq'[x] = mainq[x] /\ cache'[x] = cache[x] /\ puts'[x] = puts[x]
        BY <1>3, <1>4 DEF Raise
    <2> QED BY <1>2, <2>1 DEF Newest
<1>5. CASE x = d /\ view = View(cache[d], puts[d])
    <2>1. mainq' = mainq
        BY <1>5 DEF Raise
    <2> QED BY <1>2, <1>5, <2>1 DEF Newest
<1>6. CASE x = d /\ view # View(cache[d], puts[d])
    <2>1. view \in Snapshot
        BY <1>6, ViewType DEF SyncTypeOK
    <2>2. mainq'[d] = Append(mainq[d], view)
        BY <1>3, <1>6 DEF Raise
    <2> HIDE DEF view
    <2>3. /\ Append(mainq[d], view) # <<>>
          /\ Len(Append(mainq[d], view)) = Len(mainq[d]) + 1
          /\ Append(mainq[d], view)[Len(mainq[d]) + 1] = view
        BY <1>3, <2>1, AppendProperties
    <2>4. Newest(d)' = view
        BY <2>2, <2>3 DEF Newest
    <2> QED BY <1>6, <2>4 DEF view
<1> QED BY <1>4, <1>5, <1>6

LEMMA NewestStep ==
    ASSUME TypeInv, TypeInv', NewestIsView, [SyncNext]_syncVars
    PROVE  NewestIsView'
<1> USE DEF TypeInv
<1>1. ASSUME UNCHANGED <<mainq, shown, cache, puts>> PROVE NewestIsView'
    BY <1>1 DEF NewestIsView, Newest
<1>2. ASSUME NEW d \in Device, NEW k \in Key, NEW v \in Val, SetValue(d, k, v)
      PROVE  NewestIsView'
    <2>1. Raise(d, View(cache'[d], puts'[d])) /\ UNCHANGED <<shown, cache>>
        BY <1>2 DEF SetValue
    <2>2. \A x \in Device \ {d} : puts'[x] = puts[x]
        BY <1>2 DEF SetValue, SyncTypeOK
    <2>3. View(cache'[d], puts'[d]) # View(cache[d], puts[d]) => cache'[d] # Unknown
        BY <2>1 DEF View
    <2> QED BY <2>1, <2>2, <2>3, RaisedIsNewest
<1>3. ASSUME NEW d \in Device, Kill(d) PROVE NewestIsView'
    <2>1. /\ mainq' = [mainq EXCEPT ![d] = <<>>]
          /\ shown' = [shown EXCEPT ![d] = Unknown]
          /\ cache' = [cache EXCEPT ![d] = Unknown]
          /\ puts' = [puts EXCEPT ![d] = <<>>]
        BY <1>3 DEF Kill
    <2> SUFFICES ASSUME NEW x \in Device PROVE Newest(x)' = View(cache'[x], puts'[x])
        BY DEF NewestIsView
    <2>2. CASE x = d
        BY <2>1, <2>2 DEF Newest, View, SyncTypeOK
    <2>3. CASE x # d
        BY <2>1, <2>3 DEF Newest, NewestIsView, SyncTypeOK
    <2> QED BY <2>2, <2>3
<1>4. ASSUME NEW d \in Device, RecvInit(d) PROVE NewestIsView'
    <2>1. /\ Receive(d, "init")
          /\ cache' = [cache EXCEPT ![d] = Head(down[d]).snap]
          /\ Raise(d, View(cache'[d], puts'[d]))
          /\ UNCHANGED <<shown, puts>>
        BY <1>4 DEF RecvInit, Receive
    <2>2. cache'[d] # Unknown
        <3>1. Head(down[d]) \in InitMsg
            BY <2>1, MessageTaken DEF Message, DataMsg, AckMsg
        <3> QED BY <2>1, <3>1, UnknownAssumption DEF SyncTypeOK, InitMsg, Snapshot, Entry
    <2>3. \A x \in Device \ {d} : cache'[x] = cache[x]
        BY <2>1 DEF SyncTypeOK
    <2> QED BY <2>1, <2>2, <2>3, RaisedIsNewest
<1>5. ASSUME NEW d \in Device, RecvData(d) PROVE NewestIsView'
    <2>1. /\ Receive(d, "data")
          /\ cache' = [cache EXCEPT ![d] = [cache[d] EXCEPT ![Head(down[d]).key] = Head(down[d]).val]]
          /\ Raise(d, View(cache'[d], puts'[d]))
          /\ UNCHANGED <<shown, puts>>
        BY <1>5 DEF RecvData, Receive
    <2>2. cache'[d] # Unknown
        <3>1. Head(down[d]) \in DataMsg /\ cache[d] # Unknown
            BY <2>1, MessageTaken DEF Message, InitMsg, AckMsg
        <3>2. cache[d] \in Snapshot
            BY <3>1 DEF SyncTypeOK
        <3>3. cache'[d] \in Snapshot
            BY <2>1, <3>1, <3>2 DEF SyncTypeOK, DataMsg, Snapshot, Entry
        <3> QED BY <3>3, UnknownAssumption DEF Snapshot, Entry
    <2>3. \A x \in Device \ {d} : cache'[x] = cache[x]
        BY <2>1 DEF SyncTypeOK
    <2> QED BY <2>1, <2>2, <2>3, RaisedIsNewest
<1>6. ASSUME NEW d \in Device, RecvAck(d) PROVE NewestIsView'
    <2>1. /\ Raise(d, View(cache'[d], puts'[d]))
          /\ UNCHANGED <<shown, cache>>
          /\ \A x \in Device \ {d} : puts'[x] = puts[x]
        BY <1>6 DEF RecvAck, Receive, SyncTypeOK
    <2>2. View(cache'[d], puts'[d]) # View(cache[d], puts[d]) => cache'[d] # Unknown
        BY <2>1 DEF View
    <2> QED BY <2>1, <2>2, RaisedIsNewest
<1>10. ASSUME NEW d \in Device, HoldAck(d) PROVE NewestIsView'
    <2>1. UNCHANGED <<mainq, shown, cache, puts>>
        BY <1>10 DEF HoldAck, Receive
    <2> QED BY <1>1, <2>1
<1>11. ASSUME NEW d \in Device, AckPuts(d) PROVE NewestIsView'
    <2>1. /\ mainq' = [mainq EXCEPT ![d] = @ \o Raised(d)]
          /\ UNCHANGED <<shown, cache>>
        BY <1>11 DEF AckPuts, Raised
    <2>2. puts'[d] = Waiting(d) /\ \A x \in Device \ {d} : puts'[x] = puts[x]
        BY <1>11, AnswersLifted
    <2>3. PICK q \in Seq(Snapshot) : q = mainq[d]
        BY DEF SyncTypeOK
    <2>4. PICK r \in Seq(Snapshot) :
              /\ r = Raised(d)
              /\ r = <<>> => View(cache[d], Waiting(d)) = View(cache[d], puts[d])
              /\ r # <<>> => r[Len(r)] = View(cache[d], Waiting(d))
        BY RaisedProperties DEF AnswersHaveWrites
    <2>5. mainq'[d] = q \o r /\ \A x \in Device \ {d} : mainq'[x] = mainq[x]
        BY <2>1, <2>3, <2>4 DEF SyncTypeOK
    <2>6. Newest(d) = View(cache[d], puts[d])
        BY DEF NewestIsView
    <2>7. Newest(d)' = View(cache'[d], puts'[d])
        <3>1. CASE r = <<>>
            <4>1. q \o r = q
                BY <3>1, ConcatEmptySeq
            <4>2. Newest(d)' = Newest(d)
                <5>1. mainq'[d] = mainq[d] /\ shown'[d] = shown[d]
                    BY <2>1, <2>3, <2>5, <4>1
                <5> QED BY <5>1 DEF Newest
            <4> QED BY <2>1, <2>2, <2>4, <2>6, <3>1, <4>2
        <3>2. CASE r # <<>>
            <4>1. PICK m, n \in Nat : m = Len(q) /\ n = Len(r)
                BY LenProperties
            <4>2. n # 0
                BY <3>2, <4>1, EmptySeq
            <4>3. PICK t \in Seq(Snapshot) : t = q \o r
                BY ConcatProperties
            <4>4. Len(t) = m + n /\ t[m + n] = IF m + n <= m THEN q[m + n] ELSE r[(m + n) - m]
                <5>1. m + n \in 1..(m + n)
                    BY <4>1, <4>2
                <5> QED BY <4>1, <4>3, <5>1, ConcatProperties
            <4>5. t # <<>> /\ t[Len(t)] = r[n]
                <5>1. ~ (m + n <= m) /\ (m + n) - m = n /\ m + n # 0
                    BY <4>1, <4>2
                <5> QED BY <4>4, <5>1, EmptySeq
            <4>6. Newest(d)' = r[n]
                BY <2>5, <4>3, <4>5 DEF Newest
            <4> QED BY <2>1, <2>2, <2>4, <3>2, <4>1, <4>6
        <3> QED BY <3>1, <3>2
    <2>8. \A x \in Device \ {d} : Newest(x)' = Newest(x)
        BY <2>1, <2>5 DEF Newest
    <2> QED BY <2>1, <2>2, <2>7, <2>8 DEF NewestIsView
<1>7. ASSUME NEW d \in Device, Deliver(d) PROVE NewestIsView'
    <2>1. /\ mainq[d] # <<>>
          /\ shown' = [shown EXCEPT ![d] = Head(mainq[d])]
          /\ mainq' = [mainq EXCEPT ![d] = Tail(@)]
          /\ UNCHANGED <<cache, puts>>
        BY <1>7 DEF Deliver
    <2>2. Newest(d)' = Newest(d)
        <3>1. PICK q \in Seq(Snapshot) : q = mainq[d]
            BY DEF SyncTypeOK
        <3>2. /\ Len(q) \in Nat \ {0}
              /\ Head(q) = q[1]
              /\ Tail(q) \in Seq(Snapshot)
              /\ Len(Tail(q)) = Len(q) - 1
              /\ \A i \in 1..(Len(q) - 1) : Tail(q)[i] = q[i + 1]
            BY <2>1, <3>1, EmptySeq, HeadTailProperties
        <3>3. mainq'[d] = Tail(q) /\ shown'[d] = q[1]
            BY <2>1, <3>1, <3>2 DEF SyncTypeOK
        <3>4. CASE Tail(q) = <<>>
            <4>1. Len(q) = 1
                BY <3>2, <3>4, EmptySeq
            <4> QED BY <2>1, <3>1, <3>3, <3>4, <4>1 DEF Newest
        <3>5. CASE Tail(q) # <<>>
            <4>1. Len(Tail(q)) \in 1..(Len(q) - 1) /\ Len(Tail(q)) + 1 = Len(q)
                BY <3>2, <3>5, EmptySeq
            <4>2. Tail(q)[Len(Tail(q))] = q[Len(q)]
                BY <3>2, <4>1
            <4> QED BY <2>1, <3>1, <3>3, <3>5, <4>2 DEF Newest
        <3> QED BY <3>4, <3>5
    <2>3. \A x \in Device \ {d} : Newest(x)' = Newest(x)
        BY <2>1 DEF Newest, SyncTypeOK
    <2> QED BY <2>1, <2>2, <2>3 DEF NewestIsView
<1>8. ASSUME NEW d \in Device,
             \/ Observe(d) \/ Connect(d) \/ Disconnect(d)
             \/ ServerListen(d) \/ ServerApply(d) \/ ServerReject(d)
      PROVE  UNCHANGED <<mainq, shown, cache, puts>>
    BY <1>8 DEF Observe, Connect, Disconnect, ServerListen, ServerApply, ServerReject, screen
<1>9. UNCHANGED syncVars => UNCHANGED <<mainq, shown, cache, puts>>
    BY DEF syncVars, screen
<1> QED
    BY <1>1, <1>2, <1>3, <1>4, <1>5, <1>6, <1>7, <1>8, <1>9, <1>10, <1>11
    DEF SyncNext, Background

\* The optimistic value of a tap is never overtaken by an older event.
THEOREM NewestIsViewCorrect == SyncSpec => []NewestIsView
<1>1. SyncInit => NewestIsView
    BY DEF SyncInit, NewestIsView, Newest, View
<1>2. TypeInv /\ TypeInv' /\ NewestIsView /\ [SyncNext]_syncVars => NewestIsView'
    BY NewestStep
<1>3. TypeInv /\ [SyncNext]_syncVars => TypeInv'
    BY TypeInvStep
<1> QED BY TypeInvInit, <1>1, <1>2, <1>3, PTL DEF SyncSpec

-----------------------------------------------------------------------------
(* Convergence of a settled screen.  The channel of a connection that      *)
(* listens always carries the client to the server's copy: the last word   *)
(* on each child, in the channel or else in the cache, is the server's.    *)

Touches(m, k) == m.kind = "init" \/ (m.kind = "data" /\ m.key = k)
Carried(m, k) == IF m.kind = "init" THEN m.snap[k] ELSE m.val

\* v is the last word on child k, for a client with cache c and channel msgs.
LastWord(c, msgs, k, v) ==
    \/ /\ \A i \in 1..Len(msgs) : ~Touches(msgs[i], k)
       /\ c # Unknown /\ c[k] = v
    \/ \E i \in 1..Len(msgs) :
           /\ Touches(msgs[i], k) /\ Carried(msgs[i], k) = v
           /\ \A j \in (i + 1)..Len(msgs) : ~Touches(msgs[j], k)

CatchesUp ==
    \A d \in Device, k \in Key : sub[d] => LastWord(cache[d], down[d], k, db[k])

LEMMA LastWordAppended ==
    ASSUME NEW c, NEW msgs \in Seq(Message), NEW m \in Message, NEW k, NEW v,
           IF Touches(m, k) THEN Carried(m, k) = v ELSE LastWord(c, msgs, k, v)
    PROVE  LastWord(c, Append(msgs, m), k, v)
<1>1. PICK n \in Nat : n = Len(msgs)
    BY LenProperties
<1>2. PICK q : q = Append(msgs, m)
    OBVIOUS
<1>3. /\ Len(q) = n + 1
      /\ \A i \in 1..n : q[i] = msgs[i]
      /\ q[n + 1] = m
    BY <1>1, <1>2, AppendProperties
<1>4. CASE Touches(m, k)
    <2>1. /\ n + 1 \in 1..Len(q)
          /\ Touches(q[n + 1], k) /\ Carried(q[n + 1], k) = v
          /\ \A j \in ((n + 1) + 1)..Len(q) : ~Touches(q[j], k)
        BY <1>3, <1>4
    <2> QED BY <1>2, <2>1 DEF LastWord
<1>5. CASE ~Touches(m, k)
    <2>1. CASE (\A i \in 1..n : ~Touches(msgs[i], k)) /\ c # Unknown /\ c[k] = v
        <3>1. \A i \in 1..Len(q) : ~Touches(q[i], k)
            BY <1>3, <1>5, <2>1
        <3> QED BY <1>2, <2>1, <3>1 DEF LastWord
    <2>2. CASE \E i \in 1..n :
                   /\ Touches(msgs[i], k) /\ Carried(msgs[i], k) = v
                   /\ \A j \in (i + 1)..n : ~Touches(msgs[j], k)
        <3>1. PICK i \in 1..n :
                   /\ Touches(msgs[i], k) /\ Carried(msgs[i], k) = v
                   /\ \A j \in (i + 1)..n : ~Touches(msgs[j], k)
            BY <2>2
        <3>2. i \in 1..Len(q) /\ Touches(q[i], k) /\ Carried(q[i], k) = v
            BY <1>3, <3>1
        <3>3. \A j \in (i + 1)..Len(q) : ~Touches(q[j], k)
            <4> SUFFICES ASSUME NEW j \in (i + 1)..Len(q) PROVE ~Touches(q[j], k)
                OBVIOUS
            <4>1. CASE j = n + 1
                BY <1>3, <1>5, <4>1
            <4>2. CASE j # n + 1
                <5>1. j \in (i + 1)..n /\ j \in 1..n
                    BY <1>3, <3>1, <4>2
                <5> QED BY <1>3, <3>1, <5>1
            <4> QED BY <4>1, <4>2
        <3> QED BY <1>2, <3>2, <3>3 DEF LastWord
    <2> QED BY <1>1, <1>5, <2>1, <2>2 DEF LastWord
<1> QED BY <1>4, <1>5

LEMMA LastWordTaken ==
    ASSUME NEW c, NEW c2, NEW msgs \in Seq(Message), msgs # <<>>, NEW k, NEW v,
           LastWord(c, msgs, k, v),
           IF Touches(Head(msgs), k)
           THEN c2 # Unknown /\ c2[k] = Carried(Head(msgs), k)
           ELSE c # Unknown => c2 # Unknown /\ c2[k] = c[k]
    PROVE  LastWord(c2, Tail(msgs), k, v)
<1>1. PICK n \in Nat : n + 1 = Len(msgs)
    <2>1. Len(msgs) \in Nat \ {0}
        BY EmptySeq
    <2>2. Len(msgs) - 1 \in Nat /\ (Len(msgs) - 1) + 1 = Len(msgs)
        BY <2>1
    <2> QED BY <2>2
<1>2. PICK q : q = Tail(msgs)
    OBVIOUS
<1>3. /\ Len(q) = n
      /\ \A i \in 1..n : q[i] = msgs[i + 1]
      /\ Head(msgs) = msgs[1]
    BY <1>1, <1>2, HeadTailProperties
<1>4. CASE (\A i \in 1..(n + 1) : ~Touches(msgs[i], k)) /\ c # Unknown /\ c[k] = v
    <2>1. \A i \in 1..Len(q) : ~Touches(q[i], k)
        BY <1>3, <1>4
    <2>2. c2 # Unknown /\ c2[k] = v
        BY <1>3, <1>4
    <2> QED BY <1>2, <2>1, <2>2 DEF LastWord
<1>5. CASE \E i \in 1..(n + 1) :
               /\ Touches(msgs[i], k) /\ Carried(msgs[i], k) = v
               /\ \A j \in (i + 1)..(n + 1) : ~Touches(msgs[j], k)
    <2>1. PICK i \in 1..(n + 1) :
               /\ Touches(msgs[i], k) /\ Carried(msgs[i], k) = v
               /\ \A j \in (i + 1)..(n + 1) : ~Touches(msgs[j], k)
        BY <1>5
    <2>2. CASE i = 1
        <3>1. \A j \in 1..Len(q) : ~Touches(q[j], k)
            BY <1>3, <2>1, <2>2
        <3>2. c2 # Unknown /\ c2[k] = v
            BY <1>3, <2>1, <2>2
        <3> QED BY <1>2, <3>1, <3>2 DEF LastWord
    <2>3. CASE i # 1
        <3>1. i - 1 \in 1..n /\ (i - 1) + 1 = i
            BY <2>1, <2>3
        <3>2. i - 1 \in 1..Len(q) /\ Touches(q[i - 1], k) /\ Carried(q[i - 1], k) = v
            BY <1>3, <2>1, <3>1
        <3>3. \A j \in ((i - 1) + 1)..Len(q) : ~Touches(q[j], k)
            <4> SUFFICES ASSUME NEW j \in ((i - 1) + 1)..Len(q) PROVE ~Touches(q[j], k)
                OBVIOUS
            <4>1. j \in 1..n /\ j + 1 \in (i + 1)..(n + 1)
                BY <1>3, <3>1
            <4> QED BY <1>3, <2>1, <4>1
        <3> QED BY <1>2, <3>2, <3>3 DEF LastWord
    <2> QED BY <2>2, <2>3
<1> QED BY <1>1, <1>4, <1>5 DEF LastWord

\* A message that is taken moves its word from the channel to the cache.
LEMMA ReceiveCatchesUp ==
    ASSUME TypeInv, CatchesUp, NEW d \in Device, NEW kind, Receive(d, kind),
           \A x \in Device \ {d} : cache'[x] = cache[x],
           \A k \in Key :
               IF Touches(Head(down[d]), k)
               THEN cache'[d] # Unknown /\ cache'[d][k] = Carried(Head(down[d]), k)
               ELSE cache[d] # Unknown => cache'[d] # Unknown /\ cache'[d][k] = cache[d][k]
    PROVE  CatchesUp'
<1>1. /\ down' = [down EXCEPT ![d] = Tail(@)]
      /\ down \in [Device -> Seq(Message)]
      /\ down[d] # <<>>
      /\ sub' = sub /\ db' = db
    BY DEF Receive, TypeInv, SyncTypeOK
<1> SUFFICES ASSUME NEW x \in Device, NEW k \in Key, sub[x]
             PROVE  LastWord(cache'[x], down'[x], k, db[k])
    BY <1>1 DEF CatchesUp
<1>2. LastWord(cache[x], down[x], k, db[k])
    BY DEF CatchesUp
<1>3. CASE x = d
    <2>1. down'[x] = Tail(down[d])
        BY <1>1, <1>3
    <2>2. LastWord(cache'[d], Tail(down[d]), k, db[k])
        BY <1>1, <1>2, <1>3, LastWordTaken
    <2> QED BY <1>3, <2>1, <2>2
<1>4. CASE x # d
    <2>1. down'[x] = down[x] /\ cache'[x] = cache[x]
        BY <1>1, <1>4
    <2> QED BY <1>2, <2>1
<1> QED BY <1>3, <1>4

\* The server's answer to a put tells every listener its new copy.
LEMMA PushCatchesUp ==
    ASSUME TypeInv, CatchesUp, NEW d \in Device, Unhandled(d), NEW ok \in BOOLEAN,
           down' = [x \in Device |-> Push(d, NextPut(d), ok, x)],
           db' = IF ok THEN [db EXCEPT ![NextPut(d).key] = NextPut(d).val] ELSE db,
           UNCHANGED <<sub, puts, held, cache>>
    PROVE  CatchesUp'
<1>1. SyncTypeOK /\ NextPut(d) \in Put
    BY PutHandled DEF TypeInv
<1>2. PICK p \in Put : p = NextPut(d)
    BY <1>1
<1> SUFFICES ASSUME NEW x \in Device, NEW k \in Key, sub[x]
             PROVE  LastWord(cache[x], down'[x], k, db'[k])
    BY DEF CatchesUp
<1>3. /\ WithData(p, ok, x) \in Seq(Message)
      /\ DataOf(p) \in Message
      /\ AckOf(ok) \in Message
      /\ down'[x] = IF x = d THEN Append(WithData(p, ok, x), AckOf(ok))
                    ELSE WithData(p, ok, x)
    BY <1>1, <1>2, PushIsAppends
<1>4. LastWord(cache[x], down[x], k, db[k]) /\ down[x] \in Seq(Message)
    BY <1>1 DEF CatchesUp, SyncTypeOK
<1>5. ~Touches(AckOf(ok), k)
    BY DEF Touches, AckOf
<1>6. LastWord(cache[x], WithData(p, ok, x), k, db'[k])
    <2>1. CASE ~ok
        BY <1>4, <2>1 DEF WithData
    <2>2. CASE ok
        <3>1. WithData(p, ok, x) = Append(down[x], DataOf(p))
            BY <2>2 DEF WithData
        <3>2. /\ Touches(DataOf(p), k) <=> p.key = k
              /\ Carried(DataOf(p), k) = p.val
            BY DEF Touches, Carried, DataOf
        <3>3. db'[k] = IF p.key = k THEN p.val ELSE db[k]
            BY <1>1, <1>2, <2>2 DEF SyncTypeOK, Snapshot
        <3> QED BY <1>3, <1>4, <3>1, <3>2, <3>3, LastWordAppended
    <2> QED BY <2>1, <2>2
<1>7. CASE x = d
    BY <1>3, <1>5, <1>6, <1>7, LastWordAppended
<1>8. CASE x # d
    BY <1>3, <1>6, <1>8
<1> QED BY <1>7, <1>8

LEMMA CatchUpStep ==
    ASSUME TypeInv, CatchesUp, [SyncNext]_syncVars
    PROVE  CatchesUp'
<1>1. ASSUME UNCHANGED <<db, sub, down, cache>> PROVE CatchesUp'
    BY <1>1 DEF CatchesUp
<1>2. ASSUME NEW d \in Device, \/ Observe(d)
                               \/ \E k \in Key, v \in Val : SetValue(d, k, v)
                               \/ Connect(d)
                               \/ AckPuts(d)
                               \/ Deliver(d)
      PROVE  UNCHANGED <<db, sub, down, cache>>
    BY <1>2 DEF Observe, SetValue, Connect, AckPuts, Deliver, wire
<1>3. ASSUME NEW d \in Device, CloseWire(d), db' = db,
             \A x \in Device \ {d} : cache'[x] = cache[x]
      PROVE  CatchesUp'
    <2> SUFFICES ASSUME NEW x \in Device, NEW k \in Key, sub'[x]
                 PROVE  LastWord(cache'[x], down'[x], k, db[k])
        BY <1>3 DEF CatchesUp
    <2>1. x # d /\ sub[x] /\ down'[x] = down[x] /\ cache'[x] = cache[x]
        BY <1>3 DEF CloseWire, TypeInv, SyncTypeOK
    <2> QED BY <2>1 DEF CatchesUp
<1>4. ASSUME NEW d \in Device, Disconnect(d) \/ Kill(d) PROVE CatchesUp'
    <2>1. CloseWire(d) /\ db' = db /\ \A x \in Device \ {d} : cache'[x] = cache[x]
        BY <1>4 DEF Disconnect, Kill, TypeInv, SyncTypeOK
    <2> QED BY <1>3, <2>1
<1>5. ASSUME NEW d \in Device, ServerListen(d) PROVE CatchesUp'
    <2>1. PICK m \in Message : m = [kind |-> "init", snap |-> db]
        BY DEF TypeInv, SyncTypeOK, Message, InitMsg
    <2>2. /\ down' = [down EXCEPT ![d] = Append(@, m)]
          /\ sub' = [sub EXCEPT ![d] = TRUE]
          /\ UNCHANGED <<db, cache>>
        BY <1>5, <2>1 DEF ServerListen
    <2> SUFFICES ASSUME NEW x \in Device, NEW k \in Key, sub'[x]
                 PROVE  LastWord(cache[x], down'[x], k, db[k])
        BY <2>2 DEF CatchesUp
    <2>3. CASE x = d
        <3>1. down'[x] = Append(down[x], m) /\ down[x] \in Seq(Message)
            BY <2>2, <2>3 DEF TypeInv, SyncTypeOK
        <3>2. Touches(m, k) /\ Carried(m, k) = db[k]
            BY <2>1 DEF Touches, Carried
        <3> QED BY <3>1, <3>2, LastWordAppended
    <2>4. CASE x # d
        BY <2>2, <2>4 DEF CatchesUp, TypeInv, SyncTypeOK
    <2> QED BY <2>3, <2>4
<1>6. ASSUME NEW d \in Device, ServerApply(d) PROVE CatchesUp'
    <2>1. /\ Unhandled(d)
          /\ down' = [x \in Device |-> Push(d, NextPut(d), TRUE, x)]
          /\ db' = [db EXCEPT ![NextPut(d).key] = NextPut(d).val]
          /\ UNCHANGED <<sub, puts, held, cache>>
        BY <1>6 DEF ServerApply
    <2> QED BY <2>1, PushCatchesUp
<1>7. ASSUME NEW d \in Device, ServerReject(d) PROVE CatchesUp'
    <2>1. /\ Unhandled(d)
          /\ down' = [x \in Device |-> Push(d, NextPut(d), FALSE, x)]
          /\ UNCHANGED <<db, sub, puts, held, cache>>
        BY <1>7 DEF ServerReject
    <2> QED BY <2>1, PushCatchesUp
<1>8. ASSUME NEW d \in Device, RecvInit(d) \/ RecvData(d) \/ RecvAck(d) \/ HoldAck(d)
      PROVE  CatchesUp'
    <2> DEFINE m == Head(down[d])
    <2>1. CASE RecvInit(d)
        <3>1. Receive(d, "init") /\ cache' = [cache EXCEPT ![d] = m.snap]
            BY <2>1 DEF RecvInit
        <3>2. m \in InitMsg
            BY <3>1, MessageTaken DEF Message, DataMsg, AckMsg
        <3>3. cache'[d] = m.snap /\ \A x \in Device \ {d} : cache'[x] = cache[x]
            BY <3>1 DEF TypeInv, SyncTypeOK
        <3>4. m.snap # Unknown
            BY <3>2, UnknownAssumption DEF InitMsg, Snapshot, Entry
        <3>5. \A k \in Key : Touches(m, k) /\ Carried(m, k) = m.snap[k]
            BY <3>2 DEF Touches, Carried, InitMsg
        <3> QED BY <3>1, <3>3, <3>4, <3>5, ReceiveCatchesUp
    <2>2. CASE RecvData(d)
        <3>1. /\ Receive(d, "data")
              /\ cache' = [cache EXCEPT ![d] = [cache[d] EXCEPT ![m.key] = m.val]]
            BY <2>2 DEF RecvData
        <3>2. m \in DataMsg /\ cache[d] # Unknown
            BY <3>1, MessageTaken DEF Message, InitMsg, AckMsg
        <3>3. cache[d] \in Snapshot
            BY <3>2 DEF TypeInv, SyncTypeOK
        <3>4. /\ cache'[d] = [cache[d] EXCEPT ![m.key] = m.val]
              /\ \A x \in Device \ {d} : cache'[x] = cache[x]
            BY <3>1 DEF TypeInv, SyncTypeOK
        <3>5. cache'[d] \in Snapshot
            BY <3>2, <3>3, <3>4 DEF DataMsg, Snapshot, Entry
        <3>6. cache'[d] # Unknown
            BY <3>5, UnknownAssumption DEF Snapshot, Entry
        <3>7. \A k \in Key : /\ Touches(m, k) <=> m.key = k
                             /\ Carried(m, k) = m.val
            BY <3>2 DEF Touches, Carried, DataMsg
        <3>8. \A k \in Key : cache'[d][k] = IF m.key = k THEN m.val ELSE cache[d][k]
            BY <3>3, <3>4 DEF Snapshot
        <3>9. Receive(d, "data") /\ cache'[d] # Unknown
            BY <3>1, <3>6
        <3> QED BY <3>4, <3>7, <3>8, <3>9, ReceiveCatchesUp
    <2>3. CASE RecvAck(d) \/ HoldAck(d)
        <3>1. Receive(d, "ack") /\ cache' = cache
            BY <2>3 DEF RecvAck, HoldAck
        <3>2. \A k \in Key : ~Touches(m, k)
            BY <3>1, MessageTaken DEF Touches
        <3> QED BY <3>1, <3>2, ReceiveCatchesUp
    <2> QED BY <1>8, <2>1, <2>2, <2>3
<1>9. UNCHANGED syncVars => UNCHANGED <<db, sub, down, cache>>
    BY DEF syncVars, wire
<1> QED BY <1>1, <1>2, <1>4, <1>5, <1>6, <1>7, <1>8, <1>9 DEF SyncNext, Background

LEMMA CaughtUpIsShown ==
    ASSUME TypeInv, CatchesUp, NewestIsView
    PROVE  SettledShowsServer
<1> SUFFICES ASSUME NEW d \in Device, Settled(d) PROVE shown[d] = db
    BY DEF SettledShowsServer
<1>1. sub[d] /\ puts[d] = <<>> /\ down[d] = <<>> /\ mainq[d] = <<>> /\ Len(<<>>) = 0
    BY EmptySeq DEF Settled
<1>2. ASSUME NEW k \in Key PROVE cache[d] # Unknown /\ cache[d][k] = db[k]
    BY <1>1 DEF CatchesUp, LastWord
<1>3. cache[d] # Unknown
    <2>1. KnownAfter(d, Len(down[d]))
        BY <1>1 DEF TypeInv, ChangesFollowInit
    <2> QED BY <1>1, <2>1 DEF KnownAfter
<1>4. cache[d] \in Snapshot /\ db \in Snapshot
    BY <1>3 DEF TypeInv, SyncTypeOK
<1>5. cache[d] = db
    BY <1>2, <1>4 DEF Snapshot
<1>6. View(cache[d], puts[d]) = db
    <2>1. \A k \in Key : On(<<>>, k) = {}
        BY DEF On
    <2>2. View(cache[d], puts[d]) = [k \in Key |-> db[k]]
        BY <1>1, <1>3, <1>5, <2>1 DEF View
    <2> QED BY <1>4, <2>2 DEF Snapshot
<1> QED BY <1>1, <1>6 DEF NewestIsView, Newest

\* What a screen shows once nothing is under way is what the server holds,
\* whatever was lost, sent again or refused on the way.
THEOREM SettledShowsServerCorrect == SyncSpec => []SettledShowsServer
<1> DEFINE IInv == TypeInv /\ NewestIsView /\ CatchesUp
<1>1. SyncInit => IInv
    <2>1. SyncInit => NewestIsView /\ CatchesUp
        BY DEF SyncInit, NewestIsView, Newest, View, CatchesUp
    <2> QED BY <2>1, TypeInvInit
<1>2. IInv /\ [SyncNext]_syncVars => IInv'
    BY TypeInvStep, NewestStep, CatchUpStep
<1>3. IInv => SettledShowsServer
    BY CaughtUpIsShown
<1> QED BY <1>1, <1>2, <1>3, PTL DEF SyncSpec
=============================================================================
