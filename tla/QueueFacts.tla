---------------------------- MODULE QueueFacts ----------------------------
(***************************************************************************)
(* What the operators of module Queue do to the members of a queue, for    *)
(* queues of any length.  The proofs about the kernel cite these facts and *)
(* never look at the positions of a queue.                                 *)
(***************************************************************************)
EXTENDS Queue, Integers, Sequences, SequenceTheorems, WellFoundedInduction, TLAPS

\* The data in a queue, by position.
LEMMA MembersDef ==
  ASSUME NEW S, NEW q \in Seq(S)
  PROVE  /\ Members(q) = {q[i] : i \in 1..Len(q)}
         /\ Members(q) \subseteq S
         /\ NoDuplicates(q) <=> \A i, j \in 1..Len(q) : q[i] = q[j] => i = j
<1>1. DOMAIN q = 1..Len(q)
  BY LenProperties
<1> QED
  BY <1>1, ElementOfSeq DEF Members, ToSet, NoDuplicates

\* The empty queue, the one isEmpty recognises, has no members.
LEMMA EmptyQueue ==
  /\ Members(<<>>) = {}
  /\ NoDuplicates(<<>>)
BY DEF Members, ToSet, NoDuplicates

\* A queue with a member is not empty.
LEMMA MemberNotEmpty ==
  ASSUME NEW q, NEW x \in Members(q)
  PROVE  ~isEmpty(q)
BY EmptyQueue DEF isEmpty

\* Enqueue adds its argument, and keeps the queue free of duplicates if the
\* argument was not in it.
LEMMA EnqueueFacts ==
  ASSUME NEW S, NEW q \in Seq(S), NEW d \in S
  PROVE  /\ Enqueue(q, d) \in Seq(S)
         /\ Members(Enqueue(q, d)) = Members(q) \cup {d}
         /\ NoDuplicates(q) /\ d \notin Members(q) => NoDuplicates(Enqueue(q, d))
<1> DEFINE r == Append(q, d)
           n == Len(q)
<1>1. /\ r \in Seq(S)
      /\ Len(r) = n + 1
      /\ \A i \in 1..n : r[i] = q[i]
      /\ r[n + 1] = d
  BY AppendProperties
<1>2. n \in Nat
  BY LenProperties
<1>3. Members(r) = {r[i] : i \in 1..(n + 1)}
  BY <1>1, MembersDef
<1>4. Members(q) = {q[i] : i \in 1..n}
  BY MembersDef
<1> HIDE DEF r, n
<1>5. Members(r) = Members(q) \cup {d}
  <2>1. 1..(n + 1) = 1..n \cup {n + 1}
    BY <1>2
  <2> QED
    BY <1>1, <1>2, <1>3, <1>4, <2>1
<1>6. ASSUME NoDuplicates(q), d \notin Members(q)
      PROVE  NoDuplicates(r)
  <2>1. \A i, j \in 1..n : q[i] = q[j] => i = j
    BY <1>6, MembersDef DEF n
  <2>2. \A i \in 1..n : q[i] # d
    BY <1>4, <1>6
  <2>3. \A i, j \in 1..(n + 1) : r[i] = r[j] => i = j
    BY <1>1, <1>2, <2>1, <2>2
  <2> QED
    BY <1>1, <2>3, MembersDef
<1> QED
  BY <1>1, <1>5, <1>6 DEF Enqueue, r

\* Enqueue leaves the head alone.
LEMMA EnqueueHead ==
  ASSUME NEW S, NEW q \in Seq(S), ~isEmpty(q), NEW d \in S
  PROVE  Head(Enqueue(q, d)) = Head(q)
<1>1. 1 \in 1..Len(q)
  BY EmptySeq, LenProperties DEF isEmpty
<1>2. Append(q, d)[1] = q[1]
  BY <1>1, AppendProperties
<1>3. Append(q, d) \in Seq(S)
  BY AppendProperties
<1>4. Head(q) = q[1] /\ Head(Append(q, d)) = Append(q, d)[1]
  BY <1>3
<1> QED
  BY <1>2, <1>4 DEF Enqueue

\* Dequeue on a queue that is not empty takes its head out and nothing else.
LEMMA DequeueFacts ==
  ASSUME NEW S, NEW q \in Seq(S), ~isEmpty(q)
  PROVE  /\ Head(q) \in S
         /\ Head(q) \in Members(q)
         /\ Dequeue(q) \in Seq(S)
         /\ NoDuplicates(q) =>
              /\ Members(Dequeue(q)) = Members(q) \ {Head(q)}
              /\ NoDuplicates(Dequeue(q))
<1> DEFINE r == Tail(q)
           n == Len(q)
<1>1. /\ Head(q) \in S
      /\ r \in Seq(S)
      /\ Len(r) = n - 1
      /\ \A i \in 1..Len(r) : r[i] = q[i + 1]
  BY HeadTailProperties DEF isEmpty
<1>2. n \in Nat \ {0}
  BY EmptySeq DEF isEmpty
<1>3. Head(q) = q[1]
  OBVIOUS
<1>4. Members(q) = {q[i] : i \in 1..n}
  BY MembersDef
<1>5. Members(r) = {r[i] : i \in 1..Len(r)}
  BY <1>1, MembersDef
<1>6. Head(q) \in Members(q)
  BY <1>2, <1>3, <1>4
<1>7. Dequeue(q) = r
  BY DEF Dequeue
<1>8. ASSUME NoDuplicates(q)
      PROVE  Members(r) = Members(q) \ {Head(q)} /\ NoDuplicates(r)
  <2>1. \A i, j \in 1..n : q[i] = q[j] => i = j
    BY <1>8, MembersDef
  <2> HIDE DEF r, n
  <2>2. ASSUME NEW x \in Members(r)
        PROVE  x \in Members(q) \ {Head(q)}
    <3>1. PICK i \in 1..Len(r) : x = r[i]
      BY <1>5
    <3>2. x = q[i + 1] /\ i + 1 \in 1..n /\ i + 1 # 1
      BY <1>1, <1>2, <3>1
    <3> QED
      BY <1>2, <1>3, <1>4, <2>1, <3>2
  <2>3. ASSUME NEW x \in Members(q) \ {Head(q)}
        PROVE  x \in Members(r)
    <3>1. PICK i \in 1..n : x = q[i]
      BY <1>4
    <3>2. i # 1
      BY <1>3, <2>3, <3>1
    <3>3. i - 1 \in 1..Len(r) /\ r[i - 1] = q[(i - 1) + 1]
      BY <1>1, <1>2, <3>2
    <3> QED
      BY <1>2, <1>5, <3>1, <3>3
  <2>4. \A i, j \in 1..Len(r) : r[i] = r[j] => i = j
    BY <1>1, <1>2, <2>1
  <2> QED
    BY <1>1, <2>2, <2>3, <2>4, MembersDef
<1> QED
  BY <1>1, <1>6, <1>7, <1>8

\* Dequeue keeps the type of any queue.
LEMMA DequeueType ==
  ASSUME NEW S, NEW q \in Seq(S)
  PROVE  Dequeue(q) \in Seq(S)
BY DequeueFacts DEF Dequeue

\* Splicing out one node moves those behind it up, by position.
LEMMA UnlinkAtDef ==
  ASSUME NEW S, NEW q \in Seq(S), NEW k \in 1..Len(q)
  PROVE  /\ UnlinkAt(q, k) \in Seq(S)
         /\ Len(UnlinkAt(q, k)) = Len(q) - 1
         /\ \A i \in 1..(Len(q) - 1) :
              UnlinkAt(q, k)[i] = IF i < k THEN q[i] ELSE q[i + 1]
<1> DEFINE n == Len(q)
           front == SubSeq(q, 1, k - 1)
           back == SubSeq(q, k + 1, n)
           r == front \o back
<1>1. n \in Nat /\ k \in 1..n
  BY LenProperties
<1>2. \A i \in 1..n : q[i] \in S
  BY ElementOfSeq
<1>3. /\ front \in Seq(S)
      /\ Len(front) = k - 1
      /\ \A i \in 1..(k - 1) : front[i] = q[i]
  <2>1. /\ front \in Seq(S)
        /\ Len(front) = IF 1 <= k - 1 THEN k - 1 - 1 + 1 ELSE 0
        /\ \A i \in 1..(k - 1 - 1 + 1) : front[i] = q[1 + i - 1]
    <3>1. 1 \in Int /\ k - 1 \in Int /\ \A i \in 1..(k - 1) : q[i] \in S
      BY <1>1, <1>2
    <3> HIDE DEF n
    <3> QED
      BY <3>1, SubSeqProperties
  <2> QED
    BY <1>1, <2>1
<1>4. /\ back \in Seq(S)
      /\ Len(back) = n - k
      /\ \A i \in 1..(n - k) : back[i] = q[k + i]
  <2>1. /\ back \in Seq(S)
        /\ Len(back) = IF k + 1 <= n THEN n - (k + 1) + 1 ELSE 0
        /\ \A i \in 1..(n - (k + 1) + 1) : back[i] = q[k + 1 + i - 1]
    <3>1. k + 1 \in Int /\ n \in Int /\ \A i \in (k + 1)..n : q[i] \in S
      BY <1>1, <1>2
    <3> HIDE DEF n
    <3> QED
      BY <3>1, SubSeqProperties
  <2> QED
    BY <1>1, <2>1
<1> HIDE DEF front, back
<1>5. /\ r \in Seq(S)
      /\ Len(r) = (k - 1) + (n - k)
      /\ \A i \in 1..((k - 1) + (n - k)) :
           r[i] = IF i <= k - 1 THEN front[i] ELSE back[i - (k - 1)]
  <2>1. /\ r \in Seq(S)
        /\ Len(r) = Len(front) + Len(back)
        /\ \A i \in 1..(Len(front) + Len(back)) :
             r[i] = IF i <= Len(front) THEN front[i] ELSE back[i - Len(front)]
    BY <1>3, <1>4, ConcatProperties
  <2> HIDE DEF r, n
  <2> QED
    BY <1>3, <1>4, <2>1
<1> HIDE DEF r
<1>6. /\ Len(r) = n - 1
      /\ \A i \in 1..(n - 1) : r[i] = IF i < k THEN q[i] ELSE q[i + 1]
  <2>1. Len(r) = n - 1
    BY <1>1, <1>5
  <2>2. ASSUME NEW i \in 1..(n - 1), i < k
        PROVE  r[i] = q[i]
    BY <1>1, <1>3, <1>5, <2>2
  <2>3. ASSUME NEW i \in 1..(n - 1), ~(i < k)
        PROVE  r[i] = q[i + 1]
    <3>1. r[i] = back[i - (k - 1)]
      BY <1>1, <1>5, <2>3
    <3>2. i - (k - 1) \in 1..(n - k) /\ k + (i - (k - 1)) = i + 1
      BY <1>1, <2>3
    <3> QED
      BY <1>4, <3>1, <3>2
  <2> QED
    BY <2>1, <2>2, <2>3
<1> QED
  BY <1>5, <1>6 DEF UnlinkAt, RemoveAt, r, front, back

\* So it removes its data from the queue and nothing else.
LEMMA UnlinkAtFacts ==
  ASSUME NEW S, NEW q \in Seq(S), NEW k \in 1..Len(q)
  PROVE  /\ UnlinkAt(q, k) \in Seq(S)
         /\ NoDuplicates(q) =>
              /\ Members(UnlinkAt(q, k)) = Members(q) \ {q[k]}
              /\ NoDuplicates(UnlinkAt(q, k))
<1> DEFINE n == Len(q)
           r == UnlinkAt(q, k)
<1>1. n \in Nat /\ k \in 1..n
  BY LenProperties
<1>2. /\ r \in Seq(S) /\ Len(r) = n - 1
      /\ \A i \in 1..(n - 1) : r[i] = IF i < k THEN q[i] ELSE q[i + 1]
  BY UnlinkAtDef
<1> HIDE DEF r
<1>3. Members(q) = {q[i] : i \in 1..n} /\ Members(r) = {r[i] : i \in 1..(n - 1)}
  BY <1>2, MembersDef
<1>4. ASSUME NoDuplicates(q)
      PROVE  Members(r) = Members(q) \ {q[k]} /\ NoDuplicates(r)
  <2>1. \A i, j \in 1..n : q[i] = q[j] => i = j
    BY <1>4, MembersDef
  <2> HIDE DEF n
  <2>2. ASSUME NEW x \in Members(r)
        PROVE  x \in Members(q) \ {q[k]}
    <3>1. PICK i \in 1..(n - 1) : x = r[i]
      BY <1>3
    <3>2. PICK j \in 1..n : x = q[j] /\ j # k
      BY <1>1, <1>2, <3>1
    <3> QED
      BY <1>1, <1>3, <2>1, <3>2
  <2>3. ASSUME NEW x \in Members(q) \ {q[k]}
        PROVE  x \in Members(r)
    <3>1. PICK i \in 1..n : x = q[i]
      BY <1>3
    <3>2. CASE i < k
      <4>1. i \in 1..(n - 1)
        BY <1>1, <3>2
      <4> QED
        BY <1>2, <1>3, <3>1, <3>2, <4>1
    <3>3. CASE i > k
      <4>1. i - 1 \in 1..(n - 1) /\ ~(i - 1 < k) /\ (i - 1) + 1 = i
        BY <1>1, <3>3
      <4> QED
        BY <1>2, <1>3, <3>1, <4>1
    <3> QED
      BY <1>1, <2>3, <3>1, <3>2, <3>3
  <2>4. \A i, j \in 1..(n - 1) : r[i] = r[j] => i = j
    <3>1. \A i \in 1..(n - 1) : /\ r[i] = IF i < k THEN q[i] ELSE q[i + 1]
                                /\ i \in 1..n /\ i + 1 \in 1..n
      BY <1>1, <1>2
    <3> QED
      BY <1>1, <2>1, <3>1
  <2>5. NoDuplicates(r)
    BY <1>2, <2>4, MembersDef
  <2> QED
    BY <2>2, <2>3, <2>5
<1> QED
  BY <1>2, <1>4 DEF r

\* The nodes in front of the one that is spliced out keep their positions.
LEMMA UnlinkAtFront ==
  ASSUME NEW S, NEW q \in Seq(S), NEW k \in 1..Len(q), NEW i \in 1..(k - 1)
  PROVE  UnlinkAt(q, k)[i] = q[i] /\ i \in DOMAIN q
<1>1. Len(q) \in Nat /\ k \in 1..Len(q) /\ DOMAIN q = 1..Len(q)
  BY LenProperties
<1>2. i \in 1..(Len(q) - 1) /\ i \in 1..Len(q) /\ i < k
  BY <1>1
<1> QED
  BY <1>1, <1>2, UnlinkAtDef

\* A set of positions that is not empty has a least one.
LEMMA LeastPosition ==
  ASSUME NEW T, T \subseteq Nat, T # {}
  PROVE  \E i \in T : \A j \in T : i <= j
<1> DEFINE R == OpToRel(<, Nat)
<1>1. \E i \in T : \A j \in T : ~(<<j, i>> \in R)
  <2>1. IsWellFoundedOn(R, Nat)
    BY NatLessThanWellFounded
  <2> HIDE DEF R
  <2> QED
    BY <2>1, WFMin
<1>2. \A i, j \in Nat : <<j, i>> \in R <=> j < i
  BY DEF OpToRel
<1> HIDE DEF R
<1>3. PICK i \in T : \A j \in T : ~(<<j, i>> \in R)
  BY <1>1
<1>4. \A j \in T : i <= j
  <2> TAKE j \in T
  <2>1. i \in Nat /\ j \in Nat
    OBVIOUS
  <2>2. ~(j < i)
    BY <1>2, <1>3, <2>1, Zenon
  <2> QED
    BY <2>1, <2>2
<1> QED
  BY <1>4

\* remove_data leaves the queue without its argument.
LEMMA RemoveDataFacts ==
  ASSUME NEW S, NEW q \in Seq(S), NEW d
  PROVE  /\ remove_data(q, d) \in Seq(S)
         /\ NoDuplicates(q) =>
              /\ Members(remove_data(q, d)) = Members(q) \ {d}
              /\ NoDuplicates(remove_data(q, d))
<1> DEFINE hits == {i \in DOMAIN q : q[i] = d}
<1>1. Len(q) \in Nat /\ DOMAIN q = 1..Len(q)
  BY LenProperties
<1>2. CASE hits = {}
  <2>1. remove_data(q, d) = q
    BY <1>2 DEF remove_data
  <2>2. d \notin Members(q)
    BY <1>1, <1>2, MembersDef
  <2> QED
    BY <2>1, <2>2
<1>3. CASE hits # {}
  <2> DEFINE First(i) == \A j \in hits : i <= j
             k == CHOOSE i \in hits : First(i)
  <2>1. \E i \in hits : First(i)
    <3>1. hits \subseteq Nat
      BY <1>1
    <3> HIDE DEF hits
    <3> QED
      BY <1>3, <3>1, LeastPosition
  <2>2. k \in hits
    BY <2>1
  <2>3. k \in 1..Len(q) /\ q[k] = d
    BY <1>1, <2>2
  <2>4. remove_data(q, d) = UnlinkAt(q, k)
    BY <1>3 DEF remove_data
  <2> HIDE DEF k
  <2> QED
    BY <2>3, <2>4, UnlinkAtFacts
<1> QED
  BY <1>2, <1>3

\* remove_data unlinks the node that it finds first.
LEMMA RemoveDataFirst ==
  ASSUME NEW S, NEW q \in Seq(S), NEW d, NEW k \in 1..Len(q), q[k] = d,
         \A i \in 1..(k - 1) : q[i] # d
  PROVE  remove_data(q, d) = UnlinkAt(q, k)
<1> DEFINE hits == {i \in DOMAIN q : q[i] = d}
           First(i) == \A j \in hits : i <= j
<1>1. Len(q) \in Nat /\ DOMAIN q = 1..Len(q)
  BY LenProperties
<1>2. k \in hits /\ First(k)
  BY <1>1
<1>3. \A i \in hits : First(i) => i = k
  BY <1>1, <1>2
<1>4. (CHOOSE i \in hits : First(i)) = k
  <2> HIDE DEF hits, First
  <2> QED
    BY <1>2, <1>3
<1> QED
  BY <1>2, <1>4 DEF remove_data

LEMMA RemoveDataNone ==
  ASSUME NEW S, NEW q \in Seq(S), NEW d, \A i \in 1..Len(q) : q[i] # d
  PROVE  remove_data(q, d) = q
<1>1. DOMAIN q = 1..Len(q)
  BY LenProperties
<1> QED
  BY <1>1 DEF remove_data
=============================================================================
