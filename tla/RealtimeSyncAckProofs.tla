----------------------- MODULE RealtimeSyncAckProofs -----------------------
(***************************************************************************)
(* A positive answer that is not held back never changes what a device     *)
(* shows, for any number of devices, children, values, writes and faults.  *)
(* The answer to a put is always right behind the server's own account of  *)
(* that put, so the cache already holds the value the overlay is about to  *)
(* lose.                                                                   *)
(***************************************************************************)
EXTENDS RealtimeSyncProofs

AcksBefore(msgs, n) == {i \in Acks(msgs) : i < n}

\* The put that the answer at place i of d's channel belongs to.
Answered(d, i) == Waiting(d)[Cardinality(AcksBefore(down[d], i)) + 1]

\* The message m, or for the first answer the cache, holds the value of p.
Tells(m, p) == m.kind = "data" /\ m.key = p.key /\ m.val = p.val
Holds(d, p) == cache[d] # Unknown /\ cache[d][p.key] = p.val

EchoOf(d) ==
    \A i \in 1..Len(down[d]) :
        down[d][i].kind = "ack" /\ down[d][i].ok
            => IF i = 1 THEN Holds(d, Answered(d, i))
               ELSE Tells(down[d][i - 1], Answered(d, i))

EchoFirst == \A d \in Device : EchoOf(d)

-----------------------------------------------------------------------------
(* Which put an answer belongs to.                                         *)

LEMMA AcksBeforeCount ==
    ASSUME NEW msgs \in Seq(Message), NEW n \in Nat
    PROVE  /\ IsFiniteSet(AcksBefore(msgs, n))
           /\ Cardinality(AcksBefore(msgs, n)) \in Nat
           /\ n \in Acks(msgs) =>
                  Cardinality(AcksBefore(msgs, n)) + 1 <= Cardinality(Acks(msgs))
<1>1. IsFiniteSet(Acks(msgs)) /\ AcksBefore(msgs, n) \in SUBSET Acks(msgs)
    BY AcksFinite DEF AcksBefore
<1>2. IsFiniteSet(AcksBefore(msgs, n))
    BY <1>1, FS_Subset
<1>3. Cardinality(AcksBefore(msgs, n)) \in Nat
    BY <1>2, FS_CardinalityType
<1>4. ASSUME n \in Acks(msgs)
      PROVE  Cardinality(AcksBefore(msgs, n)) + 1 <= Cardinality(Acks(msgs))
    <2>1. n \notin AcksBefore(msgs, n)
        BY DEF AcksBefore
    <2>2. Cardinality(AcksBefore(msgs, n) \cup {n}) = Cardinality(AcksBefore(msgs, n)) + 1
        BY <1>2, <2>1, FS_AddElement
    <2>3. AcksBefore(msgs, n) \cup {n} \in SUBSET Acks(msgs)
        BY <1>1, <1>4
    <2>4. Cardinality(AcksBefore(msgs, n) \cup {n}) <= Cardinality(Acks(msgs))
        BY <1>1, <2>3, FS_Subset
    <2> QED BY <2>2, <2>4
<1> QED BY <1>2, <1>3, <1>4

LEMMA AcksBeforeAppend ==
    ASSUME NEW msgs \in Seq(Message), NEW m \in Message
    PROVE  /\ \A i \in 1..Len(msgs) :
                  AcksBefore(Append(msgs, m), i) = AcksBefore(msgs, i)
           /\ AcksBefore(Append(msgs, m), Len(msgs) + 1) = Acks(msgs)
<1>1. /\ DOMAIN msgs = 1..Len(msgs)
      /\ Len(msgs) \in Nat
      /\ DOMAIN Append(msgs, m) = 1..(Len(msgs) + 1)
      /\ \A i \in 1..Len(msgs) : Append(msgs, m)[i] = msgs[i]
    BY LenProperties, AppendProperties
<1> QED BY <1>1 DEF AcksBefore, Acks

LEMMA AcksBeforeTail ==
    ASSUME NEW msgs \in Seq(Message), msgs # <<>>, NEW i \in 1..Len(Tail(msgs))
    PROVE  Cardinality(AcksBefore(msgs, i + 1)) =
               Cardinality(AcksBefore(Tail(msgs), i))
                   + (IF Head(msgs).kind = "ack" THEN 1 ELSE 0)
<1> DEFINE n == Len(msgs)
           B == AcksBefore(msgs, i + 1)
           T == AcksBefore(Tail(msgs), i)
           S == {j \in B : j # 1}
           f == [j \in T |-> j + 1]
<1>1. /\ DOMAIN msgs = 1..n
      /\ n \in Nat \ {0}
      /\ Head(msgs) = msgs[1]
      /\ Tail(msgs) \in Seq(Message)
      /\ DOMAIN Tail(msgs) = 1..(n - 1)
      /\ i \in 1..(n - 1)
      /\ \A j \in 1..(n - 1) : Tail(msgs)[j] = msgs[j + 1]
    BY LenProperties, EmptySeq, HeadTailProperties
<1>2. /\ IsFiniteSet(B) /\ Cardinality(B) \in Nat
      /\ IsFiniteSet(T) /\ Cardinality(T) \in Nat
    <2>1. i \in Nat /\ i + 1 \in Nat
        BY <1>1
    <2> QED BY <1>1, <2>1, AcksBeforeCount
<1>3. Cardinality(S) = Cardinality(T)
    <2>1. f \in Bijection(T, S)
        <3>1. \A j \in T : j \in 1..(n - 1) /\ j + 1 \in S
            BY <1>1 DEF AcksBefore, Acks
        <3>2. \A j \in S : j - 1 \in T /\ (j - 1) + 1 = j
            BY <1>1 DEF AcksBefore, Acks
        <3> QED BY <3>1, <3>2 DEF Bijection, Injection, Surjection, IsInjective
    <2>2. ExistsBijection(T, S)
        BY <2>1 DEF ExistsBijection
    <2> QED BY <1>2, <2>2, FS_Bijection
<1>4. CASE Head(msgs).kind = "ack"
    <2>1. S = B \ {1} /\ 1 \in B
        BY <1>1, <1>4 DEF AcksBefore, Acks
    <2> HIDE DEF B, S, T
    <2>2. Cardinality(B \ {1}) = Cardinality(B) - 1
        BY <1>2, <2>1, FS_RemoveElement
    <2>3. Cardinality(B) = Cardinality(T) + 1
        BY <1>2, <1>3, <2>1, <2>2
    <2> QED BY <1>4, <2>3 DEF B, T
<1>5. CASE Head(msgs).kind # "ack"
    <2>1. S = B
        BY <1>1, <1>5 DEF AcksBefore, Acks
    <2> HIDE DEF B, S, T
    <2>2. Cardinality(B) = Cardinality(T) + 0
        BY <1>2, <1>3, <2>1
    <2> QED BY <1>5, <2>2 DEF B, T
<1> QED BY <1>4, <1>5

\* The put of an answer that is on its way is one of those without one.
LEMMA AnsweredIsPending ==
    ASSUME TypeInv, NEW d \in Device, NEW i \in 1..Len(down[d]),
           down[d][i].kind = "ack"
    PROVE  /\ Cardinality(AcksBefore(down[d], i)) \in Nat
           /\ Cardinality(AcksBefore(down[d], i)) + 1 \in 1..Len(Waiting(d))
           /\ Answered(d, i) \in Put
<1>1. /\ down[d] \in Seq(Message) /\ Waiting(d) \in Seq(Put)
      /\ Handled(d) \in Nat /\ Len(Waiting(d)) \in Nat /\ Handled(d) <= Len(Waiting(d))
    <2>1. SyncTypeOK /\ held[d] <= Len(puts[d]) /\ Handled(d) <= Len(Waiting(d))
        BY DEF TypeInv, AnswersHaveWrites
    <2> QED BY <2>1, AcksFinite, WaitingType DEF SyncTypeOK, Handled
<1>2. i \in Acks(down[d]) /\ i \in Nat
    BY <1>1, LenProperties DEF Acks
<1>3. /\ Cardinality(AcksBefore(down[d], i)) \in Nat
      /\ Cardinality(AcksBefore(down[d], i)) + 1 <= Handled(d)
    BY <1>1, <1>2, AcksBeforeCount DEF Handled
<1>4. Cardinality(AcksBefore(down[d], i)) + 1 \in 1..Len(Waiting(d))
    BY <1>1, <1>3
<1>5. Answered(d, i) \in Put
    BY <1>1, <1>4, ElementOfSeq DEF Answered
<1> QED BY <1>3, <1>4, <1>5

-----------------------------------------------------------------------------
(* Every positive answer follows the value it answers.                     *)

\* What holds of an answer that is still where it was, for the same put.
LEMMA EchoKept ==
    ASSUME EchoFirst, NEW d \in Device, NEW i \in 1..Len(down[d]),
           down[d][i].kind = "ack" /\ down[d][i].ok,
           i = 1 => cache'[d] = cache[d],
           i # 1 => down'[d][i - 1] = down[d][i - 1],
           Answered(d, i)' = Answered(d, i)
    PROVE  IF i = 1 THEN Holds(d, Answered(d, i))'
           ELSE Tells(down'[d][i - 1], Answered(d, i)')
<1> USE DEF EchoFirst, EchoOf
<1>1. CASE i = 1
    <2>1. Holds(d, Answered(d, i))
        BY <1>1
    <2> QED BY <1>1, <2>1 DEF Holds
<1>2. CASE i # 1
    BY <1>2
<1> QED BY <1>1, <1>2

\* A channel that is left alone, while writes may be added.
LEMMA EchoUndisturbed ==
    ASSUME TypeInv, EchoFirst, NEW d \in Device,
           down'[d] = down[d], cache'[d] = cache[d],
           \A j \in 1..Len(Waiting(d)) : Waiting(d)'[j] = Waiting(d)[j]
    PROVE  EchoOf(d)'
<1> USE DEF EchoOf
<1> SUFFICES ASSUME NEW i \in 1..Len(down[d]), down[d][i].kind = "ack", down[d][i].ok
             PROVE  IF i = 1 THEN Holds(d, Answered(d, i))'
                    ELSE Tells(down'[d][i - 1], Answered(d, i)')
    OBVIOUS
<1>1. Cardinality(AcksBefore(down[d], i)) + 1 \in 1..Len(Waiting(d))
    BY AnsweredIsPending
<1>2. Answered(d, i)' = Answered(d, i)
    BY <1>1 DEF Answered
<1> QED BY <1>2, EchoKept

\* Anything but a positive answer may be appended to a channel.
LEMMA EchoAppended ==
    ASSUME TypeInv, EchoFirst, NEW d \in Device, NEW m \in Message,
           down'[d] = Append(down[d], m), cache'[d] = cache[d], Waiting(d)' = Waiting(d),
           ~ (m.kind = "ack" /\ m.ok)
    PROVE  EchoOf(d)'
<1> USE DEF EchoOf
<1>1. down[d] \in Seq(Message) /\ Len(down[d]) \in Nat
    BY LenProperties DEF TypeInv, SyncTypeOK
<1>2. /\ Len(down'[d]) = Len(down[d]) + 1
      /\ \A i \in 1..Len(down[d]) : down'[d][i] = down[d][i]
      /\ down'[d][Len(down[d]) + 1] = m
    BY <1>1, AppendProperties
<1> SUFFICES ASSUME NEW i \in 1..Len(down'[d]), down'[d][i].kind = "ack", down'[d][i].ok
             PROVE  IF i = 1 THEN Holds(d, Answered(d, i))'
                    ELSE Tells(down'[d][i - 1], Answered(d, i)')
    OBVIOUS
<1>3. i \in 1..Len(down[d]) /\ down[d][i].kind = "ack" /\ down[d][i].ok
    BY <1>1, <1>2
<1>4. i # 1 => down'[d][i - 1] = down[d][i - 1]
    BY <1>1, <1>2, <1>3
<1>5. AcksBefore(down'[d], i) = AcksBefore(down[d], i)
    BY <1>1, <1>3, AcksBeforeAppend
<1>6. Answered(d, i)' = Answered(d, i)
    BY <1>5 DEF Answered
<1> QED BY <1>3, <1>4, <1>6, EchoKept

\* Two messages at the end of a channel, the first of them no answer.
LEMMA AppendedTwice ==
    ASSUME NEW msgs \in Seq(Message), NEW a \in Message, NEW b \in Message,
           a.kind # "ack"
    PROVE  LET n == Len(msgs)
               r == Append(Append(msgs, a), b)
           IN  /\ n \in Nat /\ Len(r) = n + 2
               /\ \A i \in 1..n : r[i] = msgs[i]
               /\ r[n + 1] = a /\ r[n + 2] = b
               /\ \A i \in 1..n : AcksBefore(r, i) = AcksBefore(msgs, i)
               /\ AcksBefore(r, n + 2) = Acks(msgs)
<1>0. PICK n, q, r : n = Len(msgs) /\ q = Append(msgs, a) /\ r = Append(q, b)
    OBVIOUS
<1>1. n \in Nat /\ DOMAIN msgs = 1..n
    BY <1>0, LenProperties
<1>2. /\ q \in Seq(Message)
      /\ Len(q) = n + 1
      /\ \A i \in 1..n : q[i] = msgs[i]
      /\ q[n + 1] = a
    BY <1>0, AppendProperties
<1>3. /\ Len(r) = Len(q) + 1
      /\ \A i \in 1..Len(q) : r[i] = q[i]
      /\ r[Len(q) + 1] = b
    BY <1>0, <1>2, AppendProperties
<1>4. /\ \A i \in 1..n : AcksBefore(q, i) = AcksBefore(msgs, i)
      /\ \A i \in 1..(n + 1) : AcksBefore(r, i) = AcksBefore(q, i)
      /\ AcksBefore(r, (n + 1) + 1) = Acks(q)
    BY <1>0, <1>2, AcksBeforeAppend
<1>5. Acks(q) = Acks(msgs)
    <2>1. DOMAIN q = 1..(n + 1)
        BY <1>2, LenProperties
    <2> QED BY <1>1, <1>2, <2>1 DEF Acks
<1>6. \A i \in 1..n : i \in 1..(n + 1)
    BY <1>1
<1>7. \A i \in 1..n : r[i] = msgs[i] /\ AcksBefore(r, i) = AcksBefore(msgs, i)
    BY <1>2, <1>3, <1>4, <1>6
<1>8. Len(r) = n + 2 /\ r[n + 1] = a /\ r[n + 2] = b
    BY <1>1, <1>2, <1>3
<1>9. AcksBefore(r, n + 2) = Acks(msgs)
    <2>1. (n + 1) + 1 = n + 2
        BY <1>1
    <2> QED BY <1>4, <1>5, <2>1
<1> QED BY <1>0, <1>1, <1>7, <1>8, <1>9, Zenon

\* The positive answer follows the change it answers.
LEMMA EchoPushed ==
    ASSUME TypeInv, EchoFirst, NEW d \in Device, Unhandled(d),
           down'[d] = Append(Append(down[d], DataOf(NextPut(d))), AckOf(TRUE)),
           NextPut(d) \in Put, cache'[d] = cache[d], Waiting(d)' = Waiting(d)
    PROVE  EchoOf(d)'
<1>1. PICK p \in Put : p = NextPut(d)
    OBVIOUS
<1>2. PICK msgs \in Seq(Message), n \in Nat : msgs = down[d] /\ n = Len(msgs)
    BY DEF TypeInv, SyncTypeOK
<1>3. /\ DataOf(p) \in Message /\ AckOf(TRUE) \in Message
      /\ DataOf(p).kind # "ack"
    BY <1>1 DEF DataOf, AckOf, Message, DataMsg, AckMsg, Put
<1>4. PICK r : r = Append(Append(msgs, DataOf(p)), AckOf(TRUE))
    OBVIOUS
<1>5. /\ n \in Nat /\ Len(r) = n + 2
      /\ \A i \in 1..n : r[i] = msgs[i]
      /\ r[n + 1] = DataOf(p) /\ r[n + 2] = AckOf(TRUE)
      /\ \A i \in 1..n : AcksBefore(r, i) = AcksBefore(msgs, i)
      /\ AcksBefore(r, n + 2) = Acks(msgs)
    <2>1. PICK a \in Message, b \in Message : a = DataOf(p) /\ b = AckOf(TRUE)
        BY <1>3
    <2>2. a.kind # "ack" /\ n = Len(msgs) /\ r = Append(Append(msgs, a), b)
        BY <1>2, <1>3, <1>4, <2>1
    <2>3. n \in Nat /\ Len(r) = n + 2
        BY <2>2, AppendedTwice
    <2>4. \A i \in 1..n : r[i] = msgs[i]
        BY <2>2, AppendedTwice
    <2>5. r[n + 1] = a /\ r[n + 2] = b
        BY <2>2, AppendedTwice
    <2>6. \A i \in 1..n : AcksBefore(r, i) = AcksBefore(msgs, i)
        BY <2>2, AppendedTwice
    <2>7. AcksBefore(r, n + 2) = Acks(msgs)
        BY <2>2, AppendedTwice
    <2> QED BY <2>1, <2>3, <2>4, <2>5, <2>6, <2>7
<1>6. down'[d] = r
    BY <1>1, <1>2, <1>4
<1>7. SUFFICES ASSUME NEW i \in 1..(n + 2), r[i].kind = "ack" /\ r[i].ok
               PROVE  IF i = 1 THEN Holds(d, Answered(d, i))'
                      ELSE Tells(down'[d][i - 1], Answered(d, i)')
    <2>1. Len(down'[d]) = n + 2 /\ \A i \in 1..(n + 2) : down'[d][i] = r[i]
        BY <1>5, <1>6
    <2> QED BY <2>1, Zenon DEF EchoOf
<1>8. CASE i = n + 2
    <2>1. Cardinality(AcksBefore(r, i)) = Handled(d)
        BY <1>2, <1>5, <1>8 DEF Handled
    <2>2. Answered(d, i)' = p
        BY <1>1, <1>6, <2>1 DEF Answered, NextPut
    <2>3. i - 1 = n + 1 /\ i # 1
        BY <1>5, <1>8
    <2>4. r[i - 1] = DataOf(p)
        BY <1>5, <2>3
    <2>5. Tells(DataOf(p), p)
        BY DEF Tells, DataOf
    <2> QED BY <1>6, <2>2, <2>3, <2>4, <2>5
<1>9. CASE i = n + 1
    BY <1>3, <1>5, <1>7, <1>9
<1>10. CASE i \in 1..n
    <2>1. i \in 1..Len(down[d]) /\ down[d][i].kind = "ack" /\ down[d][i].ok
        BY <1>2, <1>5, <1>7, <1>10
    <2>2. ASSUME i # 1 PROVE r[i - 1] = down[d][i - 1]
        <3>1. i - 1 \in 1..n
            BY <1>5, <1>10, <2>2
        <3> QED BY <1>2, <1>5, <3>1
    <2>3. Answered(d, i)' = Answered(d, i)
        BY <1>2, <1>5, <1>6, <1>10 DEF Answered
    <2>4. i # 1 => down'[d][i - 1] = down[d][i - 1]
        BY <1>6, <2>2
    <2> QED BY <2>1, <2>3, <2>4, EchoKept
<1>11. i = n + 2 \/ i = n + 1 \/ i \in 1..n
    BY <1>5
<1> QED BY <1>8, <1>9, <1>10, <1>11

\* The first message of a channel is taken.
LEMMA EchoTaken ==
    ASSUME TypeInv, EchoFirst, NEW d \in Device, NEW kind, Receive(d, kind),
           IF kind = "ack" THEN Waiting(d)' = Tail(Waiting(d)) ELSE Waiting(d)' = Waiting(d),
           \A p \in Put : Tells(Head(down[d]), p) => Holds(d, p)'
    PROVE  EchoOf(d)'
<1> USE DEF EchoOf
<1>1. PICK msgs, q : msgs \in Seq(Message) /\ msgs = down[d] /\ q = Tail(msgs)
    BY DEF TypeInv, SyncTypeOK
<1>2. msgs # <<>> /\ Head(msgs).kind = kind /\ down'[d] = q
    BY <1>1 DEF Receive, TypeInv, SyncTypeOK
<1>3. /\ Len(msgs) \in Nat \ {0}
      /\ q \in Seq(Message)
      /\ Len(q) = Len(msgs) - 1
      /\ \A i \in 1..Len(q) : q[i] = msgs[i + 1]
      /\ Head(msgs) = msgs[1]
    BY <1>1, <1>2, EmptySeq, HeadTailProperties
<1> SUFFICES ASSUME NEW i \in 1..Len(q), q[i].kind = "ack" /\ q[i].ok
             PROVE  IF i = 1 THEN Holds(d, Answered(d, i))'
                    ELSE Tells(down'[d][i - 1], Answered(d, i)')
    BY <1>2
<1>4. /\ i \in Nat \ {0} /\ i + 1 \in 1..Len(down[d]) /\ (i + 1) - 1 = i
      /\ down[d][i + 1].kind = "ack" /\ down[d][i + 1].ok
    BY <1>1, <1>3
<1>5. Answered(d, i)' = Answered(d, i + 1) /\ Answered(d, i + 1) \in Put
    <2> DEFINE before == Cardinality(AcksBefore(q, i))
    <2>1. Cardinality(AcksBefore(down[d], i + 1)) = before + (IF kind = "ack" THEN 1 ELSE 0)
        BY <1>1, <1>2, AcksBeforeTail
    <2>2. before \in Nat
        BY <1>3, <1>4, AcksBeforeCount
    <2>3. /\ Cardinality(AcksBefore(down[d], i + 1)) + 1 \in 1..Len(Waiting(d))
          /\ Answered(d, i + 1) \in Put
        BY <1>4, AnsweredIsPending
    <2>4. Answered(d, i)' = Waiting(d)'[before + 1]
        BY <1>2 DEF Answered
    <2>5. Answered(d, i + 1) = Waiting(d)[Cardinality(AcksBefore(down[d], i + 1)) + 1]
        BY DEF Answered
    <2> HIDE DEF before
    <2>6. CASE kind = "ack"
        <3>1. PICK w \in Seq(Put) : w = Waiting(d) /\ w # <<>>
            <4>1. SyncTypeOK /\ held[d] <= Len(puts[d])
                BY DEF TypeInv, AnswersHaveWrites
            <4>2. Waiting(d) \in Seq(Put)
                BY <4>1, WaitingType
            <4> QED BY <2>3, <4>2, EmptySeq
        <3>2. /\ Len(Tail(w)) = Len(w) - 1
              /\ Len(w) \in Nat
              /\ \A j \in 1..Len(Tail(w)) : Tail(w)[j] = w[j + 1]
            BY <3>1, HeadTailProperties, LenProperties
        <3>3. before + 1 \in 1..Len(Tail(w))
            BY <2>1, <2>2, <2>3, <2>6, <3>1, <3>2
        <3>4. Tail(Waiting(d))[before + 1] = Waiting(d)[(before + 1) + 1]
            BY <3>1, <3>2, <3>3
        <3> QED BY <2>1, <2>3, <2>4, <2>5, <2>6, <3>4
    <2>7. CASE kind # "ack"
        BY <2>1, <2>2, <2>3, <2>4, <2>5, <2>7
    <2> QED BY <2>6, <2>7
<1>6. Tells(down[d][i], Answered(d, i + 1))
    <2>1. i + 1 # 1
        BY <1>4
    <2> QED BY <1>4, <2>1 DEF EchoFirst
<1>7. CASE i = 1
    <2>1. Tells(Head(down[d]), Answered(d, i + 1))
        BY <1>1, <1>3, <1>6, <1>7
    <2>2. PICK p \in Put : p = Answered(d, i + 1)
        BY <1>5
    <2>3. Holds(d, p)'
        BY <2>1, <2>2
    <2> QED BY <1>5, <1>7, <2>2, <2>3 DEF Holds
<1>8. CASE i # 1
    <2>1. i - 1 \in 1..Len(q) /\ (i - 1) + 1 = i
        BY <1>3, <1>8
    <2>2. down'[d][i - 1] = down[d][i]
        BY <1>1, <1>2, <1>3, <2>1
    <2> QED BY <1>5, <1>6, <1>8, <2>2
<1> QED BY <1>7, <1>8

\* A put is handled: only its writer gets an answer, and the writer listens.
LEMMA EchoHandled ==
    ASSUME TypeInv, EchoFirst, NEW d \in Device, Unhandled(d), NEW ok \in BOOLEAN,
           down' = [x \in Device |-> Push(d, NextPut(d), ok, x)],
           UNCHANGED <<sub, puts, held, cache>>
    PROVE  EchoFirst'
<1>1. /\ SyncTypeOK /\ NextPut(d) \in Put
      /\ \A x \in Device : Waiting(x)' = Waiting(x)
    BY PutHandled, WritesAlone DEF TypeInv
<1>2. SUFFICES ASSUME NEW x \in Device PROVE EchoOf(x)'
    BY DEF EchoFirst
<1>3. PICK p \in Put : p = NextPut(d)
    BY <1>1
<1>4. /\ DataOf(p) \in Message
      /\ AckOf(ok) \in Message
      /\ down'[x] = IF x = d THEN Append(WithData(p, ok, x), AckOf(ok))
                    ELSE WithData(p, ok, x)
    BY <1>1, <1>3, PushIsAppends
<1>5. /\ DataOf(p).kind = "data"
      /\ AckOf(ok).kind = "ack" /\ AckOf(ok).ok = ok
      /\ sub[d]
    BY DEF DataOf, AckOf, Unhandled
<1>6. CASE x = d /\ ok
    BY <1>1, <1>3, <1>4, <1>5, <1>6, EchoPushed DEF WithData
<1>7. CASE x = d /\ ~ok
    BY <1>1, <1>4, <1>5, <1>7, EchoAppended DEF WithData
<1>8. CASE x # d /\ ok /\ sub[x]
    BY <1>1, <1>4, <1>5, <1>8, EchoAppended DEF WithData
<1>9. CASE x # d /\ ~(ok /\ sub[x])
    BY <1>1, <1>4, <1>9, EchoUndisturbed DEF WithData
<1> QED BY <1>6, <1>7, <1>8, <1>9

\* The device whose message was taken is looked at, the others are alone.
LEMMA EchoReceived ==
    ASSUME TypeInv, EchoFirst, NEW d \in Device, NEW kind, Receive(d, kind),
           \A x \in Device \ {d} : cache'[x] = cache[x] /\ Waiting(x)' = Waiting(x),
           IF kind = "ack" THEN Waiting(d)' = Tail(Waiting(d)) ELSE Waiting(d)' = Waiting(d),
           \A p \in Put : Tells(Head(down[d]), p) => Holds(d, p)'
    PROVE  EchoFirst'
<1>1. SUFFICES ASSUME NEW x \in Device PROVE EchoOf(x)'
    BY DEF EchoFirst
<1>2. CASE x = d
    BY <1>2, EchoTaken
<1>3. CASE x # d
    <2>1. down'[x] = down[x] /\ cache'[x] = cache[x] /\ Waiting(x)' = Waiting(x)
        BY <1>3 DEF Receive, TypeInv, SyncTypeOK
    <2> QED BY <2>1, EchoUndisturbed
<1> QED BY <1>2, <1>3

LEMMA EchoStep ==
    ASSUME TypeInv, EchoFirst, [SyncNext]_syncVars
    PROVE  EchoFirst'
<1>1. ASSUME UNCHANGED <<down, cache>>, \A x \in Device : Waiting(x)' = Waiting(x)
      PROVE  EchoFirst'
    BY <1>1, EchoUndisturbed DEF EchoFirst
<1>2. ASSUME NEW d \in Device, Observe(d) \/ Connect(d) \/ AckPuts(d) \/ Deliver(d)
      PROVE  EchoFirst'
    <2>1. UNCHANGED <<down, cache>>
        BY <1>2 DEF Observe, Connect, AckPuts, Deliver, wire
    <2>2. Observe(d) \/ Connect(d) \/ Deliver(d) => UNCHANGED <<puts, held>>
        BY DEF Observe, Connect, Deliver, wire
    <2>3. \A x \in Device : Waiting(x)' = Waiting(x)
        BY <1>2, <2>2, WritesAlone, AnswersLifted
    <2> QED BY <1>1, <2>1, <2>3
<1>3. ASSUME NEW d \in Device, NEW k \in Key, NEW v \in Val, SetValue(d, k, v)
      PROVE  EchoFirst'
    <2>1. PICK p \in Put : p = [key |-> k, val |-> v]
        BY DEF Put
    <2>2. UNCHANGED <<down, cache>>
        BY <1>3 DEF SetValue, wire
    <2>3. /\ Waiting(d)' = Append(Waiting(d), p)
          /\ \A x \in Device \ {d} : Waiting(x)' = Waiting(x)
        BY <1>3, <2>1, WriteWaits
    <2>4. Waiting(d) \in Seq(Put)
        <3>1. SyncTypeOK /\ held[d] <= Len(puts[d])
            BY DEF TypeInv, AnswersHaveWrites
        <3> QED BY <3>1, WaitingType
    <2>5. \A j \in 1..Len(Waiting(d)) : Waiting(d)'[j] = Waiting(d)[j]
        BY <2>3, <2>4, AppendProperties
    <2>6. ASSUME NEW x \in Device PROVE EchoOf(x)'
        <3>1. CASE x = d
            BY <2>2, <2>5, <3>1, EchoUndisturbed
        <3>2. CASE x # d
            BY <2>2, <2>3, <3>2, EchoUndisturbed
        <3> QED BY <3>1, <3>2
    <2> QED BY <2>6 DEF EchoFirst
<1>4. ASSUME NEW d \in Device, Disconnect(d) \/ Kill(d) PROVE EchoFirst'
    <2>1. /\ down' = [down EXCEPT ![d] = <<>>]
          /\ \A x \in Device \ {d} : /\ cache'[x] = cache[x]
                                      /\ puts'[x] = puts[x]
                                      /\ held'[x] = held[x]
        BY <1>4 DEF Disconnect, Kill, CloseWire, TypeInv, SyncTypeOK
    <2> SUFFICES ASSUME NEW x \in Device PROVE EchoOf(x)'
        BY DEF EchoFirst
    <2>2. CASE x = d
        <3>1. down'[x] = <<>>
            BY <2>1, <2>2 DEF TypeInv, SyncTypeOK
        <3> QED BY <3>1, EmptySeq DEF EchoOf
    <2>3. CASE x # d
        <3>1. down'[x] = down[x] /\ cache'[x] = cache[x] /\ Waiting(x)' = Waiting(x)
            BY <2>1, <2>3, WritesAlone DEF TypeInv, SyncTypeOK
        <3> QED BY <3>1, EchoUndisturbed
    <2> QED BY <2>2, <2>3
<1>5. ASSUME NEW d \in Device, ServerListen(d) PROVE EchoFirst'
    <2>1. PICK m \in Message : m = [kind |-> "init", snap |-> db]
        BY DEF TypeInv, SyncTypeOK, Message, InitMsg
    <2>2. down' = [down EXCEPT ![d] = Append(@, m)] /\ UNCHANGED <<cache, puts, held>>
        BY <1>5, <2>1 DEF ServerListen
    <2>3. m.kind # "ack"
        BY <2>1
    <2> SUFFICES ASSUME NEW x \in Device PROVE EchoOf(x)'
        BY DEF EchoFirst
    <2>4. cache'[x] = cache[x] /\ Waiting(x)' = Waiting(x)
        BY <2>2, WritesAlone
    <2>5. CASE x = d
        <3>1. down'[x] = Append(down[x], m)
            BY <2>2, <2>5 DEF TypeInv, SyncTypeOK
        <3> QED BY <2>3, <2>4, <3>1, EchoAppended
    <2>6. CASE x # d
        <3>1. down'[x] = down[x]
            BY <2>2, <2>6 DEF TypeInv, SyncTypeOK
        <3> QED BY <2>4, <3>1, EchoUndisturbed
    <2> QED BY <2>5, <2>6
<1>6. ASSUME NEW d \in Device, ServerApply(d) PROVE EchoFirst'
    <2>1. /\ Unhandled(d)
          /\ down' = [x \in Device |-> Push(d, NextPut(d), TRUE, x)]
          /\ UNCHANGED <<sub, puts, held, cache>>
        BY <1>6 DEF ServerApply
    <2> QED BY <2>1, EchoHandled
<1>7. ASSUME NEW d \in Device, ServerReject(d) PROVE EchoFirst'
    <2>1. /\ Unhandled(d)
          /\ down' = [x \in Device |-> Push(d, NextPut(d), FALSE, x)]
          /\ UNCHANGED <<sub, puts, held, cache>>
        BY <1>7 DEF ServerReject
    <2> QED BY <2>1, EchoHandled
<1>8. ASSUME NEW d \in Device, RecvInit(d) PROVE EchoFirst'
    <2>1. /\ Receive(d, "init")
          /\ cache' = [cache EXCEPT ![d] = Head(down[d]).snap]
          /\ UNCHANGED <<puts, held>>
        BY <1>8 DEF RecvInit
    <2>2. \A p \in Put : ~Tells(Head(down[d]), p)
        BY <2>1, MessageTaken DEF Tells
    <2>3. /\ \A x \in Device \ {d} : cache'[x] = cache[x]
          /\ \A x \in Device : Waiting(x)' = Waiting(x)
          /\ "init" # "ack"
        BY <2>1, WritesAlone DEF TypeInv, SyncTypeOK
    <2> QED BY <2>1, <2>2, <2>3, EchoReceived
<1>9. ASSUME NEW d \in Device, RecvData(d) PROVE EchoFirst'
    <2> DEFINE m == Head(down[d])
    <2>1. /\ Receive(d, "data")
          /\ cache' = [cache EXCEPT ![d] = [cache[d] EXCEPT ![m.key] = m.val]]
          /\ UNCHANGED <<puts, held>>
        BY <1>9 DEF RecvData
    <2>2. m \in DataMsg /\ cache[d] # Unknown
        BY <2>1, MessageTaken DEF Message, InitMsg, AckMsg
    <2>3. cache[d] \in Snapshot
        BY <2>2 DEF TypeInv, SyncTypeOK
    <2>4. cache'[d] = [cache[d] EXCEPT ![m.key] = m.val]
        BY <2>1 DEF TypeInv, SyncTypeOK
    <2>5. cache'[d] \in Snapshot
        BY <2>2, <2>3, <2>4 DEF DataMsg, Snapshot, Entry
    <2>6. cache'[d] # Unknown /\ cache'[d][m.key] = m.val
        BY <2>2, <2>3, <2>4, <2>5, UnknownAssumption DEF DataMsg, Snapshot, Entry
    <2>7. \A p \in Put : Tells(m, p) => Holds(d, p)'
        BY <2>6 DEF Tells, Holds
    <2>8. /\ \A x \in Device \ {d} : cache'[x] = cache[x]
          /\ \A x \in Device : Waiting(x)' = Waiting(x)
          /\ "data" # "ack"
        BY <2>1, WritesAlone DEF TypeInv, SyncTypeOK
    <2> QED BY <2>1, <2>7, <2>8, EchoReceived
<1>10. ASSUME NEW d \in Device, RecvAck(d) \/ HoldAck(d) PROVE EchoFirst'
    <2>1. Receive(d, "ack") /\ cache' = cache
        BY <1>10 DEF RecvAck, HoldAck
    <2>2. \A p \in Put : ~Tells(Head(down[d]), p)
        BY <2>1, MessageTaken DEF Tells
    <2>3. /\ Waiting(d)' = Tail(Waiting(d))
          /\ \A x \in Device \ {d} : cache'[x] = cache[x] /\ Waiting(x)' = Waiting(x)
        BY <1>10, <2>1, AnswerTaken
    <2> QED BY <2>1, <2>2, <2>3, EchoReceived
<1>11. CASE UNCHANGED syncVars
    <2>1. UNCHANGED <<down, cache, puts, held>>
        BY <1>11 DEF syncVars, wire
    <2>2. \A x \in Device : Waiting(x)' = Waiting(x)
        BY <2>1, WritesAlone
    <2> QED BY <1>1, <2>1, <2>2
<1> QED BY <1>2, <1>3, <1>4, <1>5, <1>6, <1>7, <1>8, <1>9, <1>10, <1>11
        DEF SyncNext, Background

-----------------------------------------------------------------------------
(* Lifting the overlay.                                                    *)

\* Dropping the oldest write does not change the view when the cache holds
\* its value already.
LEMMA ViewOfTail ==
    ASSUME NEW c \in Snapshot, NEW ps \in Seq(Put), ps # <<>>,
           c[Head(ps).key] = Head(ps).val
    PROVE  View(c, Tail(ps)) = View(c, ps)
<1>1. PICK n, q : n \in Nat /\ n + 1 = Len(ps) /\ q = Tail(ps)
    <2>1. Len(ps) \in Nat \ {0}
        BY EmptySeq
    <2>2. Len(ps) - 1 \in Nat /\ (Len(ps) - 1) + 1 = Len(ps)
        BY <2>1
    <2> QED BY <2>2
<1>2. /\ q \in Seq(Put) /\ Len(q) = n
      /\ DOMAIN q = 1..n /\ DOMAIN ps = 1..(n + 1)
      /\ \A i \in 1..n : q[i] = ps[i + 1]
      /\ Head(ps) = ps[1]
    BY <1>1, HeadTailProperties, LenProperties
<1>3. SUFFICES ASSUME NEW k \in Key
      PROVE  (IF On(q, k) = {} THEN c[k] ELSE q[LastOn(q, k)].val)
                 = (IF On(ps, k) = {} THEN c[k] ELSE ps[LastOn(ps, k)].val)
    BY <1>1 DEF View
<1>4. /\ \A i \in On(q, k) : i \in 1..n /\ i + 1 \in On(ps, k)
      /\ \A i \in On(ps, k) : i \in 1..(n + 1) /\ (i = 1 \/ i - 1 \in On(q, k))
    BY <1>2 DEF On
<1>5. CASE On(q, k) = {} /\ On(ps, k) = {}
    BY <1>5
<1>6. CASE On(q, k) = {} /\ On(ps, k) # {}
    <2>1. LastOn(ps, k) = 1 /\ ps[1].key = k
        BY <1>4, <1>6, LastOnIsGreatest DEF On
    <2> QED BY <1>2, <1>6, <2>1
<1>7. CASE On(q, k) # {}
    <2>1. PICK i : i = LastOn(q, k)
        OBVIOUS
    <2>2. i \in On(q, k) /\ \A j \in On(q, k) : j <= i
        BY <1>2, <1>7, <2>1, LastOnIsGreatest
    <2>3. PICK l : l = LastOn(ps, k)
        OBVIOUS
    <2>4. On(ps, k) # {} /\ l \in On(ps, k) /\ \A j \in On(ps, k) : j <= l
        BY <1>4, <1>7, <2>3, LastOnIsGreatest
    <2>5. l = i + 1
        <3>1. i \in Nat \ {0} /\ l \in Nat
            BY <1>4, <2>2, <2>4
        <3>2. i + 1 <= l
            BY <1>4, <2>2, <2>4
        <3>3. l - 1 \in On(q, k)
            BY <1>4, <2>4, <3>1, <3>2
        <3>4. l - 1 <= i
            BY <2>2, <3>3
        <3> QED BY <3>1, <3>2, <3>4
    <2>6. q[i] = ps[l]
        BY <1>2, <1>4, <2>2, <2>5
    <2> QED BY <1>7, <2>1, <2>3, <2>4, <2>6
<1> QED BY <1>5, <1>6, <1>7

LEMMA AcceptedKeepsQueue ==
    ASSUME TypeInv, EchoFirst, NEW d \in Device, Accepted(d)
    PROVE  UNCHANGED mainq
<1>1. /\ Receive(d, "ack") /\ Head(down[d]).ok
      /\ puts[d] # <<>> /\ held[d] = 0
      /\ puts' = [puts EXCEPT ![d] = Tail(@)]
      /\ Raise(d, View(cache[d], puts'[d]))
    BY DEF Accepted, RecvAck
<1>2. /\ down[d] \in Seq(Message) /\ down[d] # <<>>
      /\ puts[d] \in Seq(Put) /\ puts'[d] = Tail(puts[d])
      /\ Head(puts[d]) = puts[d][1]
    BY <1>1, HeadTailProperties DEF TypeInv, SyncTypeOK, Receive
<1>3. 1 \in 1..Len(down[d]) /\ down[d][1].kind = "ack" /\ down[d][1].ok
    BY <1>1, <1>2, EmptySeq, HeadTailProperties DEF Receive
<1>4. Answered(d, 1) = Head(puts[d])
    <2>1. DOMAIN down[d] = 1..Len(down[d]) /\ Len(down[d]) \in Nat
        BY <1>2, LenProperties
    <2>2. AcksBefore(down[d], 1) = {}
        BY <2>1 DEF AcksBefore, Acks
    <2>3. Cardinality(AcksBefore(down[d], 1)) + 1 = 1
        BY <2>2, FS_EmptySet
    <2>4. Waiting(d) = puts[d]
        <3>1. SyncTypeOK /\ held[d] <= Len(puts[d])
            BY DEF TypeInv, AnswersHaveWrites
        <3> QED BY <1>1, <3>1, WaitingType
    <2> QED BY <1>2, <2>3, <2>4 DEF Answered
<1>5. cache[d] # Unknown /\ cache[d][Head(puts[d]).key] = Head(puts[d]).val
    BY <1>3, <1>4 DEF EchoFirst, EchoOf, Holds
<1>6. cache[d] \in Snapshot
    BY <1>5 DEF TypeInv, SyncTypeOK
<1>7. View(cache[d], puts'[d]) = View(cache[d], puts[d])
    BY <1>1, <1>2, <1>5, <1>6, ViewOfTail
<1> QED BY <1>1, <1>7 DEF Raise

\* The positive answer to a write that lifts the overlay at once never
\* changes what the device shows, also when the put was sent twice:
\* ackUserWriteWithWriteId finds the server's data in the cache already.
THEOREM AckDoesNotFlickerCorrect == SyncSpec => AckDoesNotFlicker
<1>1. SyncInit => EchoFirst
    BY EmptySeq DEF SyncInit, EchoFirst, EchoOf
<1>2. TypeInv /\ EchoFirst /\ [SyncNext]_syncVars => TypeInv' /\ EchoFirst'
    BY TypeInvStep, EchoStep
<1>3. TypeInv /\ EchoFirst => [\A d \in Device : Accepted(d) => UNCHANGED mainq]_syncVars
    BY AcceptedKeepsQueue
<1> QED BY TypeInvInit, <1>1, <1>2, <1>3, PTL DEF SyncSpec, AckDoesNotFlicker
=============================================================================
