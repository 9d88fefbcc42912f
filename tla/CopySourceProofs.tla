-------------------------- MODULE CopySourceProofs --------------------------
(***************************************************************************)
(* What the iterator of COPY sends, for a batch of any length.             *)
(*                                                                         *)
(* The calls of Next are a recursive function.  The proof shows that a     *)
(* closed form solves its equation, and that no other function does: the   *)
(* least call at which two solutions differ would be one at which they     *)
(* agree.                                                                  *)
(***************************************************************************)
EXTENDS CopySource, Integers, FiniteSetTheorems, SequenceTheorems,
        WellFoundedInduction, TLAPS

\* A set of natural numbers that is not empty has a least member: the sets
\* 0..n are well-founded by inclusion.
LEMMA LeastNumber ==
  ASSUME NEW T, T \subseteq Nat, T # {}
  PROVE  \E x \in T : \A y \in T : x <= y
<1> DEFINE R == StrictSubsetOrdering(Nat)
           Below == {0..n : n \in T}
<1>1. Below \subseteq FiniteSubsetsOf(Nat)
  <2>1. ASSUME NEW n \in T PROVE 0..n \in FiniteSubsetsOf(Nat)
    <3>1. IsFiniteSet(0..n)
      BY FS_Interval
    <3>2. 0..n \subseteq Nat
      OBVIOUS
    <3>3. QED
      BY Zenon, <3>1, <3>2 DEF FiniteSubsetsOf
  <2>2. QED
    BY Zenon, <2>1
<1>2. Below # {}
  OBVIOUS
<1>3. \E A \in Below : \A B \in Below : ~ (<<B, A>> \in R)
  <2> HIDE DEF R, Below
  <2>1. IsWellFoundedOn(R, FiniteSubsetsOf(Nat))
    BY Zenon, FS_StrictSubsetOrderingWellFounded DEF R
  <2>2. QED
    BY Zenon, <1>1, <1>2, <2>1, WFMin
<1>4. PICK x \in T : \A y \in T : ~ (<<0..y, 0..x>> \in R)
  BY Zenon, <1>3
<1>5. ASSUME NEW y \in T, ~(x <= y)
      PROVE  FALSE
  <2>1. 0..y \subseteq 0..x /\ x \in 0..x /\ x \notin 0..y
    BY <1>5
  <2>2. <<0..y, 0..x>> \in R
    BY <2>1 DEF StrictSubsetOrdering
  <2>3. QED
    BY <1>4, <2>2
<1>6. QED
  BY <1>5

\* The iterator after n calls of Next.
Sent(rows, n) ==
  IF n = 0 \/ rows = <<>> THEN Iterator(rows)
  ELSE [rows |-> SubSeq(rows, n, Len(rows)), skippedFirstNextCall |-> TRUE]

\* What the n-th call of Next leaves: it answers true, and the n-th row is the
\* first one, as long as there is an n-th row.
LEMMA SentRows ==
  ASSUME NEW S, NEW rows \in Seq(S), NEW n \in 1..Len(rows) + 1
  PROVE  /\ Answer(Sent(rows, n)) <=> n \in 1..Len(rows)
         /\ n \in 1..Len(rows) => Values(Sent(rows, n)) = rows[n]
<1>1. CASE rows = <<>>
  BY <1>1, EmptySeq DEF Sent, Iterator, Answer
<1>2. CASE rows # <<>>
  <2>1. Len(rows) \in Nat
    BY LenProperties
  <2>2. Sent(rows, n).rows = SubSeq(rows, n, Len(rows))
    BY <1>2 DEF Sent
  <2>3. CASE n = Len(rows) + 1
    <3>1. SubSeq(rows, n, Len(rows)) = <<>>
      BY <2>1, <2>3, SubSeqEmpty
    <3>2. QED
      BY <2>1, <2>2, <2>3, <3>1 DEF Answer
  <2>4. CASE n \in 1..Len(rows)
    <3>1. Head(SubSeq(rows, n, Len(rows))) = rows[n]
      BY <2>1, <2>4, HeadTailOfSubSeq
    <3>2. \A i \in n..Len(rows) : rows[i] \in S
      BY <2>4, LenProperties
    <3>3. Len(SubSeq(rows, n, Len(rows))) = Len(rows) - n + 1
      BY <2>1, <2>4, <3>2, SubSeqProperties
    <3>4. SubSeq(rows, n, Len(rows)) # <<>>
      BY <2>1, <2>4, <3>3
    <3>5. QED
      BY <2>2, <2>4, <3>1, <3>4 DEF Answer, Values
  <2>5. QED
    BY <2>1, <2>3, <2>4
<1>3. QED
  BY <1>1, <1>2

LEMMA DropsRow ==
  ASSUME NEW a, a # <<>>
  PROVE  AfterNext([rows |-> a, skippedFirstNextCall |-> TRUE])
           = [rows |-> Tail(a), skippedFirstNextCall |-> TRUE]
BY DEF AfterNext

\* A call of Next takes the iterator from one of these states to the next.
LEMMA SentNext ==
  ASSUME NEW S, NEW rows \in Seq(S), NEW n \in 0..Len(rows)
  PROVE  AfterNext(Sent(rows, n)) = Sent(rows, n + 1)
<1>1. CASE rows = <<>>
  BY Zenon, <1>1 DEF Sent, AfterNext, Iterator
<1>2. CASE rows # <<>> /\ n = 0
  <2>1. SubSeq(rows, 1, Len(rows)) = rows
    BY SubSeqFull
  <2>2. Sent(rows, 1) = [rows |-> rows, skippedFirstNextCall |-> TRUE]
    <3>1. 1 # 0
      OBVIOUS
    <3>2. QED
      BY Zenon, <1>2, <2>1, <3>1 DEF Sent
  <2>3. Sent(rows, 0) = [rows |-> rows, skippedFirstNextCall |-> FALSE]
    BY DEF Sent, Iterator
  <2>4. AfterNext(Sent(rows, 0)) = Sent(rows, 1)
    BY <1>2, <2>2, <2>3 DEF AfterNext
  <2>5. QED
    BY <1>2, <2>4
<1>3. CASE rows # <<>> /\ n # 0
  <2>1. Len(rows) \in Nat /\ n \in 1..Len(rows) /\ Len(rows) \in n..Len(rows)
    BY <1>3, LenProperties
  <2>2. Tail(SubSeq(rows, n, Len(rows))) = SubSeq(rows, n + 1, Len(rows))
    BY <2>1, HeadTailOfSubSeq
  <2>3. Sent(rows, n) = [rows |-> SubSeq(rows, n, Len(rows)),
                         skippedFirstNextCall |-> TRUE]
    BY <1>3 DEF Sent
  <2>4. SubSeq(rows, n, Len(rows)) # <<>>
    <3>1. n \in 1..Len(rows) + 1
      BY <2>1
    <3>2. Answer(Sent(rows, n))
      BY Zenon, <2>1, <3>1, SentRows
    <3>3. QED
      BY <2>3, <3>2 DEF Answer
  <2>5. Sent(rows, n + 1) = [rows |-> SubSeq(rows, n + 1, Len(rows)),
                             skippedFirstNextCall |-> TRUE]
    BY <1>3, <2>1 DEF Sent
  <2>6. QED
    BY Zenon, <2>2, <2>3, <2>4, <2>5, DropsRow
<1>4. QED
  BY <1>1, <1>2, <1>3

\* COPY sends every row of the batch, once and in its place (copyfrom.go).
THEOREM CopiedIsRows ==
  ASSUME NEW S, NEW rows \in Seq(S)
  PROVE  Copied(rows) = rows
<1> DEFINE calls == 0..Len(rows) + 1
           after[n \in calls] ==
             IF n = 0 THEN Iterator(rows) ELSE AfterNext(after[n - 1])
           answered == {n \in calls \ {0} : Answer(after[n])}
           sent == [n \in calls |-> Sent(rows, n)]
           Solves(f) ==
             f = [n \in calls |->
                   IF n = 0 THEN Iterator(rows) ELSE AfterNext(f[n - 1])]
<1>1. Copied(rows) = [n \in 1..Cardinality(answered) |-> Values(after[n])]
  BY DEF Copied
<1>2. after = CHOOSE f : Solves(f)
  OBVIOUS
<1>3. Len(rows) \in Nat /\ rows = [n \in 1..Len(rows) |-> rows[n]]
  BY LenProperties
<1> HIDE DEF after
<1>4. Solves(sent)
  <2>1. ASSUME NEW n \in calls
        PROVE  Sent(rows, n) = IF n = 0 THEN Iterator(rows)
                               ELSE AfterNext(sent[n - 1])
    <3>1. CASE n = 0
      BY <3>1 DEF Sent
    <3>2. CASE n # 0
      <4>1. n - 1 \in 0..Len(rows) /\ n - 1 \in calls /\ (n - 1) + 1 = n
        BY <1>3, <3>2
      <4>2. AfterNext(Sent(rows, n - 1)) = Sent(rows, n)
        BY <4>1, SentNext
      <4>3. QED
        BY <3>2, <4>1, <4>2
    <3>3. QED
      BY <3>1, <3>2
  <2>2. QED
    BY Zenon, <2>1
<1>5. Solves(after)
  BY Zenon, <1>2, <1>4
<1>6. \A n \in calls : after[n] = Sent(rows, n)
  <2> DEFINE differ == {n \in calls : after[n] # Sent(rows, n)}
  <2>1. SUFFICES ASSUME differ # {} PROVE FALSE
    OBVIOUS
  <2>2. differ \subseteq Nat
    BY <1>3
  <2>3. PICK n \in differ : \A k \in differ : n <= k
    <3> HIDE DEF differ
    <3>1. QED
      BY Zenon, <2>1, <2>2, LeastNumber
  <2>4. after[n] = IF n = 0 THEN Iterator(rows) ELSE AfterNext(after[n - 1])
    BY <1>5
  <2>5. CASE n = 0
    BY <2>3, <2>4, <2>5 DEF Sent
  <2>6. CASE n # 0
    <3>1. n - 1 \in 0..Len(rows) /\ n - 1 \in calls /\ (n - 1) + 1 = n
      BY <1>3, <2>6
    <3>2. after[n - 1] = Sent(rows, n - 1)
      <4>1. n - 1 \notin differ
        BY <1>3, <2>3
      <4>2. QED
        BY <3>1, <4>1
    <3>3. QED
      BY <2>3, <2>4, <2>6, <3>1, <3>2, SentNext
  <2>7. QED
    BY <2>5, <2>6
<1>7. answered = 1..Len(rows)
  BY <1>3, <1>6, SentRows
<1>8. Cardinality(1..Len(rows)) = Len(rows)
  BY <1>3, FS_Interval
<1>9. \A n \in 1..Len(rows) : Values(after[n]) = rows[n]
  BY <1>3, <1>6, SentRows
<1>10. QED
  <2>1. Copied(rows) = [n \in 1..Len(rows) |-> Values(after[n])]
    BY <1>1, <1>7, <1>8
  <2>2. QED
    BY <1>3, <1>9, <2>1
=============================================================================
