------------------------- MODULE LinkedQueueProofs -------------------------
(***************************************************************************)
(* Proofs about module LinkedQueue, for any number of nodes and any data.  *)
(***************************************************************************)
EXTENDS LinkedQueue, TLAPS, SequenceTheorems

Facts == INSTANCE QueueFacts

USE LinkedQueueAssumption
-----------------------------------------------------------------------------
(* The list.                                                               *)

\* The recursive definition of Chain has one solution, which is that.
LEMMA ChainIs ==
  ASSUME TypeOK, NEW c, IsChain(c)
  PROVE  Chain = c
<1> DEFINE Step(f) == [i \in 1..size |-> IF i = 1 THEN head
                                         ELSE IF f[i - 1] = NULL THEN NULL
                                         ELSE next[f[i - 1]]]
           at == CHOOSE f : f = Step(f)
<1>1. /\ c \in [1..size -> allocated] /\ \A i \in 1..size : c[i] \in allocated /\ c[i] # NULL
      /\ size \in Nat
      /\ size > 0 => c[1] = head
      /\ \A i \in 1..(size - 1) : next[c[i]] = c[i + 1]
  BY DEF IsChain, TypeOK
<1>2. c = Step(c)
  <2>1. ASSUME NEW i \in 1..size PROVE c[i] = Step(c)[i]
    <3>1. CASE i = 1
      BY <1>1, <3>1
    <3>2. CASE i # 1
      <4>1. i - 1 \in 1..(size - 1) /\ i - 1 \in 1..size /\ (i - 1) + 1 = i
        BY <1>1, <3>2
      <4> QED
        BY <1>1, <3>2, <4>1
    <3> QED
      BY <3>1, <3>2
  <2> QED
    BY <1>1, <2>1
<1>3. at = Step(at)
  <2> HIDE DEF Step
  <2> QED
    BY <1>2
<1>4. ASSUME NEW i \in 1..size PROVE at[i] = c[i]
  <2> DEFINE Wrong == {j \in 1..size : at[j] # c[j]}
  <2> SUFFICES ASSUME Wrong # {} PROVE FALSE
    OBVIOUS
  <2>1. PICK j \in Wrong : \A k \in Wrong : j <= k
    <3>1. Wrong \subseteq Nat
      OBVIOUS
    <3> HIDE DEF Wrong
    <3> QED
      BY <3>1, Facts!LeastPosition
  <2>2. j \in 1..size /\ at[j] = IF j = 1 THEN head
                                ELSE IF at[j - 1] = NULL THEN NULL ELSE next[at[j - 1]]
    <3> HIDE DEF at
    <3> QED
      BY <1>3
  <2> HIDE DEF at, Step
  <2>3. j = 1 => at[j] = c[j]
    BY <1>1, <2>2
  <2>4. j # 1 => at[j] = c[j]
    <3> SUFFICES ASSUME j # 1 PROVE at[j] = c[j]
      OBVIOUS
    <3>1. j - 1 \in 1..(size - 1) /\ j - 1 \in 1..size /\ (j - 1) + 1 = j /\ ~(j <= j - 1)
      BY <1>1, <2>2
    <3>2. at[j - 1] = c[j - 1]
      BY <2>1, <3>1
    <3> QED
      BY <1>1, <2>2, <3>1, <3>2
  <2> QED
    BY <2>1, <2>3, <2>4
<1>5. Chain = [i \in 1..size |-> at[i]]
  BY DEF Chain
<1> HIDE DEF at
<1> QED
  BY <1>1, <1>4, <1>5

\* The last node is the one that ends the list.
LEMMA LastNode ==
  ASSUME TypeOK, NEW c, IsChain(c), NEW k \in 1..size
  PROVE  /\ c[k] \in Node /\ c[k] # NULL /\ c[k] \in allocated /\ size # 0
         /\ (next[c[k]] = NULL <=> k = size)
         /\ (tail = c[k] <=> k = size)
         /\ (head = c[k] <=> k = 1)
<1>1. size \in Nat \ {0} /\ 1 \in 1..size /\ size \in 1..size
  BY DEF TypeOK
<1>2. k # size => k \in 1..(size - 1) /\ k + 1 \in 1..size
  BY <1>1
<1> QED
  BY <1>1, <1>2 DEF IsChain, TypeOK

\* Enqueue hangs a new node behind the last.
Enqueued(c, d) ==
  \E n \in Node \ allocated, e \in [1..(size + 1) -> allocated'] :
    /\ IsChain(e)' /\ size' = size + 1 /\ allocated' = allocated \cup {n}
    /\ e[size + 1] = n /\ data'[n] = d
    /\ \A i \in 1..size : e[i] = c[i] /\ data'[c[i]] = data[c[i]]

LEMMA EnqueueChain ==
  ASSUME TypeOK, NEW c, IsChain(c), NEW d \in Data, Enqueue(d)
  PROVE  TypeOK' /\ Enqueued(c, d)
<1>1. PICK n \in Node \ allocated :
        /\ allocated' = allocated \cup {n}
        /\ data' = [data EXCEPT ![n] = d]
        /\ next' = LinkedBehindTail(n)
        /\ head' = IF isEmpty THEN n ELSE head
        /\ tail' = n
        /\ size' = size + 1
  BY DEF Enqueue
<1>2. UNCHANGED <<loop, prev, current, find_data>>
  BY DEF Enqueue, cursors
<1>3. TypeOK'
  <2>1. next' \in [Node -> Node \cup {NULL}] /\ data' \in [Node -> Data \cup {NULL}]
    BY <1>1 DEF TypeOK, LinkedBehindTail
  <2>2. \A m \in allocated' : data'[m] \in Data
    BY <1>1 DEF TypeOK
  <2> QED
    BY <1>1, <1>2, <2>1, <2>2 DEF TypeOK
<1>4. PICK e : e = [i \in 1..(size + 1) |-> IF i = size + 1 THEN n ELSE c[i]]
  OBVIOUS
<1>5. size \in Nat /\ n # NULL /\ n \in Node
  BY DEF TypeOK
<1>6. \A i \in 1..size : /\ c[i] \in allocated /\ c[i] \in Node /\ c[i] # n
                         /\ i \in 1..(size + 1) /\ i # size + 1
  BY <1>5, LastNode
<1>7. e[size + 1] = n /\ e \in [1..(size + 1) -> allocated'] /\ \A i \in 1..size : e[i] = c[i]
  BY <1>1, <1>5, <1>6, <1>4
<1>8. \A i, j \in 1..(size + 1) : e[i] = e[j] => i = j
  <2> SUFFICES ASSUME NEW i \in 1..(size + 1), NEW j \in 1..(size + 1), e[i] = e[j]
               PROVE  i = j
    OBVIOUS
  <2>1. (i = size + 1 \/ i \in 1..size) /\ (j = size + 1 \/ j \in 1..size)
    BY <1>5
  <2> QED
    BY <1>6, <1>7, <2>1 DEF IsChain
<1>9. next'[n] = NULL
      /\ \A m \in Node \ {n} : next'[m] = IF size # 0 /\ m = tail THEN n ELSE next[m]
  BY <1>1, <1>5 DEF LinkedBehindTail, isEmpty, TypeOK, IsChain
<1>10. \A i \in 1..size : next'[e[i]] = e[i + 1]
  <2> TAKE i \in 1..size
  <2>1. CASE i = size
    BY <1>5, <1>6, <1>7, <1>9, <2>1, LastNode
  <2>2. CASE i # size
    <3>1. i \in 1..(size - 1) /\ i + 1 \in 1..size
      BY <1>5, <2>2
    <3>2. next[c[i]] = c[i + 1] /\ c[i] # tail
      BY <2>2, <3>1, LastNode DEF IsChain
    <3> QED
      BY <1>6, <1>7, <1>9, <3>1, <3>2
  <2> QED
    BY <2>1, <2>2
<1>11. e[1] = head' /\ (size + 1) - 1 = size /\ size + 1 > 0
  BY <1>1, <1>5, <1>7 DEF isEmpty, IsChain
<1>12. IsChain(e)'
  <2>1. size' = size + 1 /\ tail' = n /\ next'[n] = NULL /\ size + 1 # 0
    BY <1>1, <1>5, <1>9
  <2> QED
    BY <1>7, <1>8, <1>10, <1>11, <2>1 DEF IsChain
<1>13. \A i \in 1..size : e[i] = c[i] /\ data'[c[i]] = data[c[i]]
  BY <1>1, <1>6, <1>7
<1>14. data'[n] = d
  BY <1>1, <1>5 DEF TypeOK
<1> QED
  BY <1>1, <1>3, <1>7, <1>12, <1>13, <1>14 DEF Enqueued

\* To unlink the node at position k moves those behind it up.
LEMMA UnlinkChain ==
  ASSUME TypeOK, NEW c, IsChain(c), NEW k \in 1..size,
         size' = size - 1, UNCHANGED data,
         head' = IF k = 1 THEN next[c[k]] ELSE head,
         next' = IF k = 1 THEN next ELSE [next EXCEPT ![c[k - 1]] = next[c[k]]],
         tail' = IF k = size THEN (IF k = 1 THEN NULL ELSE c[k - 1]) ELSE tail,
         allocated' \subseteq allocated, allocated \ {c[k]} \subseteq allocated'
  PROVE  /\ size' \in Nat
         /\ head' \in Node \cup {NULL} /\ tail' \in Node \cup {NULL}
         /\ next' \in [Node -> Node \cup {NULL}]
         /\ \E e \in [1..(size - 1) -> allocated'] :
              /\ IsChain(e)'
              /\ \A i \in 1..(size - 1) : e[i] = IF i < k THEN c[i] ELSE c[i + 1]
<1>1. size \in Nat \ {0} /\ k \in 1..size
  BY LastNode DEF TypeOK
<1>2. /\ \A i \in 1..size : c[i] \in Node /\ c[i] # NULL /\ c[i] \in allocated
      /\ \A i, j \in 1..size : c[i] = c[j] => i = j
      /\ c[1] = head /\ c[size] = tail /\ next[tail] = NULL
      /\ \A i \in 1..(size - 1) : next[c[i]] = c[i + 1]
  BY <1>1, LastNode DEF IsChain
<1>3. next \in [Node -> Node \cup {NULL}] /\ head \in Node /\ tail \in Node
  BY <1>1, <1>2 DEF TypeOK
<1>4. k # 1 => k - 1 \in 1..size /\ k - 1 \in 1..(size - 1) /\ (k - 1) + 1 = k
  BY <1>1
<1>5. k # size => k \in 1..(size - 1) /\ k + 1 \in 1..size
  BY <1>1
<1>6. PICK e : e = [i \in 1..(size - 1) |-> IF i < k THEN c[i] ELSE c[i + 1]]
  OBVIOUS
<1>7. \A i \in 1..(size - 1) : /\ e[i] = IF i < k THEN c[i] ELSE c[i + 1]
                               /\ i \in 1..size /\ i + 1 \in 1..size
  BY <1>1, <1>6
<1>8. \A i \in 1..(size - 1) : e[i] \in allocated' /\ e[i] \in Node
  <2> TAKE i \in 1..(size - 1)
  <2>1. e[i] \in allocated /\ e[i] # c[k] /\ e[i] \in Node
    BY <1>1, <1>2, <1>7
  <2> QED
    BY <2>1
<1>9. e \in [1..(size - 1) -> allocated']
  BY <1>6, <1>8
<1>10. \A i, j \in 1..(size - 1) : e[i] = e[j] => i = j
  BY <1>1, <1>2, <1>7
<1>11. next' \in [Node -> Node \cup {NULL}]
       /\ \A m \in Node : next'[m] = IF k # 1 /\ m = c[k - 1] THEN next[c[k]] ELSE next[m]
  BY <1>2, <1>3, <1>4
<1>12. head' \in Node \cup {NULL} /\ tail' \in Node \cup {NULL}
  BY <1>2, <1>3, <1>4
<1>13. \A i \in 1..((size - 1) - 1) : next'[e[i]] = e[i + 1]
  <2> TAKE i \in 1..((size - 1) - 1)
  <2>1. /\ i \in 1..(size - 1) /\ i + 1 \in 1..(size - 1) /\ i + 2 \in 1..size
        /\ i \in 1..size /\ i + 1 \in 1..size /\ (i + 1) + 1 = i + 2
    BY <1>1
  <2>2. CASE i + 1 < k
    <3>1. e[i] = c[i] /\ e[i + 1] = c[i + 1] /\ i # k - 1
      BY <1>1, <1>7, <2>1, <2>2
    <3> QED
      BY <1>2, <1>4, <1>11, <2>1, <3>1
  <2>3. CASE i + 1 = k
    <3>1. e[i] = c[i] /\ e[i + 1] = c[i + 2] /\ i = k - 1 /\ k # 1
      BY <1>1, <1>7, <2>1, <2>3
    <3>2. next[c[k]] = c[i + 2]
      BY <1>2, <2>1, <2>3
    <3> QED
      BY <1>2, <1>11, <2>1, <3>1, <3>2
  <2>4. CASE i + 1 > k
    <3>1. e[i] = c[i + 1] /\ e[i + 1] = c[i + 2] /\ i + 1 # k - 1
      BY <1>1, <1>7, <2>1, <2>4
    <3> QED
      BY <1>2, <1>4, <1>11, <2>1, <3>1
  <2> QED
    BY <1>1, <2>1, <2>2, <2>3, <2>4
<1>14. size - 1 = 0 => head' = NULL /\ tail' = NULL
  <2> SUFFICES ASSUME size = 1 PROVE head' = NULL /\ tail' = NULL
    BY <1>1
  <2>1. k = 1
    BY <1>1
  <2> QED
    BY <1>2, <2>1
<1>15. size - 1 > 0 => e[1] = head' /\ e[size - 1] = tail' /\ next'[tail'] = NULL
  <2> SUFFICES ASSUME size - 1 > 0
               PROVE  e[1] = head' /\ e[size - 1] = tail' /\ next'[tail'] = NULL
    OBVIOUS
  <2>1. /\ 1 \in 1..(size - 1) /\ size - 1 \in 1..(size - 1) /\ (size - 1) + 1 = size
        /\ 1 \in 1..size /\ size \in 1..size
    BY <1>1
  <2>2. e[1] = head'
    <3>1. CASE k = 1
      BY <1>2, <1>7, <2>1, <3>1
    <3>2. CASE k # 1
      BY <1>1, <1>2, <1>7, <2>1, <3>2
    <3> QED
      BY <3>1, <3>2
  <2>3. CASE k = size
    <3>1. k # 1 /\ tail' = c[k - 1] /\ e[size - 1] = c[k - 1]
      BY <1>1, <1>7, <2>1, <2>3
    <3> QED
      BY <1>2, <1>4, <1>11, <2>2, <2>3, <3>1
  <2>4. CASE k # size
    <3>1. tail' = c[size] /\ e[size - 1] = c[size]
      BY <1>1, <1>2, <1>7, <2>1, <2>4
    <3>2. k # 1 => k - 1 # size
      BY <1>1
    <3> QED
      BY <1>2, <1>4, <1>11, <2>1, <2>2, <3>1, <3>2
  <2> QED
    BY <2>3, <2>4
<1>16. IsChain(e)'
  BY <1>9, <1>10, <1>13, <1>14, <1>15 DEF IsChain
<1> QED
  BY <1>1, <1>7, <1>9, <1>11, <1>12, <1>16
-----------------------------------------------------------------------------
(* The queue as a sequence.                                                *)

LEMMA ContentsAre ==
  \A c : TypeOK /\ IsChain(c) =>
    /\ Contents \in Seq(Data) /\ Len(Contents) = size
    /\ \A i \in 1..size : Contents[i] = data[c[i]]
    /\ LostNodes = allocated \ {c[i] : i \in 1..size}
<1> SUFFICES ASSUME NEW c, TypeOK, IsChain(c)
             PROVE  /\ Contents \in Seq(Data) /\ Len(Contents) = size
                    /\ \A i \in 1..size : Contents[i] = data[c[i]]
                    /\ LostNodes = allocated \ {c[i] : i \in 1..size}
  OBVIOUS
<1>1. /\ Chain = c /\ size \in Nat
      /\ \A i \in 1..size : c[i] # NULL /\ data[c[i]] \in Data
  BY ChainIs, LastNode DEF TypeOK
<1>2. Contents = [i \in 1..size |-> data[c[i]]]
  BY <1>1 DEF Contents
<1>3. Contents \in [1..size -> Data]
  BY <1>1, <1>2
<1> QED
  BY <1>1, <1>2, <1>3 DEF LostNodes

\* The same in the next state.
LEMMA ContentsAreNext ==
  \A c : TypeOK' /\ IsChain(c)' =>
    /\ Contents' \in Seq(Data) /\ Len(Contents') = size'
    /\ \A i \in 1..size' : Contents'[i] = data'[c[i]]
    /\ LostNodes' = allocated' \ {c[i] : i \in 1..size'}
<1>1. (\A c : TypeOK /\ IsChain(c) =>
         /\ Contents \in Seq(Data) /\ Len(Contents) = size
         /\ \A i \in 1..size : Contents[i] = data[c[i]]
         /\ LostNodes = allocated \ {c[i] : i \in 1..size})'
  BY ContentsAre, PTL
<1> QED
  BY <1>1

\* What module Queue says of its operators.
LEMMA FifoUnlinkAt ==
  ASSUME NEW q \in Seq(Data), NEW k \in 1..Len(q), NEW r \in Seq(Data),
         Len(r) = Len(q) - 1,
         \A i \in 1..(Len(q) - 1) : r[i] = IF i < k THEN q[i] ELSE q[i + 1]
  PROVE  r = Fifo!UnlinkAt(q, k)
<1>1. Fifo!UnlinkAt(q, k) = Facts!UnlinkAt(q, k)
  BY DEF Fifo!UnlinkAt, Facts!UnlinkAt, Fifo!RemoveAt, Facts!RemoveAt
<1>2. /\ Facts!UnlinkAt(q, k) \in Seq(Data)
      /\ Len(Facts!UnlinkAt(q, k)) = Len(q) - 1
      /\ \A i \in 1..(Len(q) - 1) :
           Facts!UnlinkAt(q, k)[i] = IF i < k THEN q[i] ELSE q[i + 1]
  BY Facts!UnlinkAtDef
<1> QED
  BY <1>1, <1>2, SeqEqual

LEMMA FifoRemoveData ==
  ASSUME NEW q \in Seq(Data), NEW d
  PROVE  /\ \A k \in 1..Len(q) :
              q[k] = d /\ (\A i \in 1..(k - 1) : q[i] # d) =>
                Fifo!remove_data(q, d) = Fifo!UnlinkAt(q, k)
         /\ (\A i \in 1..Len(q) : q[i] # d) => Fifo!remove_data(q, d) = q
<1>1. /\ Fifo!remove_data(q, d) = Facts!remove_data(q, d)
      /\ \A k \in 1..Len(q) : Fifo!UnlinkAt(q, k) = Facts!UnlinkAt(q, k)
  BY DEF Fifo!remove_data, Facts!remove_data, Fifo!UnlinkAt, Facts!UnlinkAt,
         Fifo!RemoveAt, Facts!RemoveAt
<1> QED
  BY <1>1, Facts!RemoveDataFirst, Facts!RemoveDataNone

\* Where the node at position k was unlinked and freed, or only unlinked, the
\* contents are what UnlinkAt leaves.
LEMMA UnlinkContents ==
  ASSUME TypeOK, TypeOK', NEW c, IsChain(c), NEW k \in 1..size, NEW e, IsChain(e)',
         size' = size - 1, UNCHANGED data,
         \A i \in 1..(size - 1) : e[i] = IF i < k THEN c[i] ELSE c[i + 1]
  PROVE  /\ Contents' = Fifo!UnlinkAt(Contents, k)
         /\ allocated' = allocated \ {c[k]} => LostNodes' \subseteq LostNodes
<1>1. /\ Contents \in Seq(Data) /\ Len(Contents) = size
      /\ \A i \in 1..size : Contents[i] = data[c[i]]
      /\ LostNodes = allocated \ {c[i] : i \in 1..size}
  BY ContentsAre
<1>2. /\ Contents' \in Seq(Data) /\ Len(Contents') = size - 1
      /\ \A i \in 1..(size - 1) : Contents'[i] = data[e[i]]
      /\ LostNodes' = allocated' \ {e[i] : i \in 1..(size - 1)}
  BY ContentsAreNext
<1>3. size \in Nat \ {0} /\ \A i \in 1..(size - 1) : i \in 1..size /\ i + 1 \in 1..size
  BY LastNode DEF TypeOK
<1>4. \A i \in 1..(size - 1) :
        Contents'[i] = IF i < k THEN Contents[i] ELSE Contents[i + 1]
  <2> TAKE i \in 1..(size - 1)
  <2>1. i \in 1..size /\ i + 1 \in 1..size
    BY <1>3
  <2>2. Contents'[i] = data[e[i]] /\ e[i] = IF i < k THEN c[i] ELSE c[i + 1]
    BY <1>2
  <2>3. Contents[i] = data[c[i]] /\ Contents[i + 1] = data[c[i + 1]]
    BY <1>1, <2>1
  <2> QED
    BY <2>2, <2>3
<1>5. Contents' = Fifo!UnlinkAt(Contents, k)
  <2>1. k \in 1..Len(Contents) /\ Len(Contents') = Len(Contents) - 1
        /\ \A i \in 1..(Len(Contents) - 1) :
             Contents'[i] = IF i < k THEN Contents[i] ELSE Contents[i + 1]
    BY <1>1, <1>2, <1>4
  <2>2. Contents \in Seq(Data) /\ Contents' \in Seq(Data)
    BY <1>1, <1>2
  <2> QED
    BY <2>1, <2>2, FifoUnlinkAt
<1>6. ASSUME allocated' = allocated \ {c[k]}, NEW n \in LostNodes'
      PROVE  n \in LostNodes
  <2>1. n \in allocated /\ n # c[k] /\ \A i \in 1..(size - 1) : n # e[i]
    BY <1>2, <1>6
  <2>2. ASSUME NEW i \in 1..size, n = c[i] PROVE FALSE
    <3>1. i < k => i \in 1..(size - 1) /\ e[i] = c[i]
      BY <1>3
    <3>2. i > k => i - 1 \in 1..(size - 1) /\ (i - 1) + 1 = i /\ e[i - 1] = c[i]
      BY <1>3
    <3> QED
      BY <1>3, <2>1, <2>2, <3>1, <3>2
  <2> QED
    BY <1>1, <2>1, <2>2
<1> QED
  BY <1>5, <1>6

\* What the three unlinking steps have in common: the node at position k leaves
\* the list c, and is freed or not.
Unlinks(c, k) ==
  /\ size' = size - 1 /\ data' = data
  /\ head' = IF k = 1 THEN next[c[k]] ELSE head
  /\ next' = IF k = 1 THEN next ELSE [next EXCEPT ![c[k - 1]] = next[c[k]]]
  /\ tail' = IF k = size THEN (IF k = 1 THEN NULL ELSE c[k - 1]) ELSE tail
  /\ allocated' = allocated \/ allocated' = allocated \ {c[k]}
CursorTypes ==
  /\ loop \in {"none", "remove", "sweep"}
  /\ prev \in Node \cup {NULL} /\ current \in Node \cup {NULL}
  /\ find_data \in Data \cup {NULL}

LEMMA Unlinked ==
  ASSUME TypeOK, NEW c, IsChain(c), NEW k \in 1..size, Unlinks(c, k), CursorTypes'
  PROVE  /\ TypeOK'
         /\ \E e \in [1..(size - 1) -> allocated'] :
              /\ IsChain(e)'
              /\ \A i \in 1..(size - 1) : e[i] = IF i < k THEN c[i] ELSE c[i + 1]
         /\ Contents' = Fifo!UnlinkAt(Contents, k)
         /\ allocated' = allocated \ {c[k]} => LostNodes' \subseteq LostNodes
<1>1. allocated' \subseteq allocated /\ allocated \ {c[k]} \subseteq allocated' /\ data' = data
      /\ size' = size - 1
  BY DEF Unlinks
<1>2. /\ size' \in Nat
      /\ head' \in Node \cup {NULL} /\ tail' \in Node \cup {NULL}
      /\ next' \in [Node -> Node \cup {NULL}]
      /\ \E e \in [1..(size - 1) -> allocated'] :
           /\ IsChain(e)'
           /\ \A i \in 1..(size - 1) : e[i] = IF i < k THEN c[i] ELSE c[i + 1]
  BY <1>1, UnlinkChain DEF Unlinks
<1>3. PICK e \in [1..(size - 1) -> allocated'] :
        /\ IsChain(e)'
        /\ \A i \in 1..(size - 1) : e[i] = IF i < k THEN c[i] ELSE c[i + 1]
  BY <1>2
<1>4. TypeOK'
  BY <1>1, <1>2 DEF TypeOK, CursorTypes
<1>5. /\ Contents' = Fifo!UnlinkAt(Contents, k)
      /\ allocated' = allocated \ {c[k]} => LostNodes' \subseteq LostNodes
  BY <1>1, <1>3, <1>4, UnlinkContents
<1> QED
  BY <1>3, <1>4, <1>5

\* A step that leaves the list alone leaves all of it alone.
LEMMA ListKept ==
  ASSUME TypeOK, NEW c, IsChain(c), UNCHANGED list, CursorTypes'
  PROVE  /\ TypeOK' /\ IsChain(c)'
         /\ Contents' = Contents /\ LostNodes' = LostNodes
<1>1. /\ head' = head /\ tail' = tail /\ size' = size
      /\ next' = next /\ data' = data /\ allocated' = allocated
  BY DEF list
<1>2. TypeOK'
  BY <1>1 DEF TypeOK, CursorTypes
<1>3. IsChain(c)'
  BY <1>1 DEF IsChain
<1>4. /\ Contents \in Seq(Data) /\ Len(Contents) = size
      /\ \A i \in 1..size : Contents[i] = data[c[i]]
      /\ LostNodes = allocated \ {c[i] : i \in 1..size}
  BY ContentsAre
<1>5. /\ Contents' \in Seq(Data) /\ Len(Contents') = size
      /\ \A i \in 1..size : Contents'[i] = data[c[i]]
      /\ LostNodes' = allocated \ {c[i] : i \in 1..size}
  BY <1>1, <1>2, <1>3, ContentsAreNext
<1>6. Contents' = Contents
  BY <1>4, <1>5, SeqEqual
<1> QED
  BY <1>2, <1>3, <1>4, <1>5, <1>6
-----------------------------------------------------------------------------
(* The cursors.                                                            *)

\* Where a loop is: current is the node at some position k and prev the one
\* before it, or the loop has come to the end; what the search has passed does
\* not hold what it looks for.
CurrentIs(c, k) ==
  /\ c[k] = current /\ next[current] \in Node \cup {NULL}
  /\ prev = NULL => k = 1 /\ loop = "sweep"
  /\ prev # NULL => k > 1 /\ k - 1 \in 1..size /\ c[k - 1] = prev
  /\ loop = "remove" => prev # NULL /\ \A i \in 1..(k - 1) : data[c[i]] # find_data

LEMMA CurrentAt ==
  ASSUME TypeOK, NEW c, IsChain(c), CursorsAt(c), loop # "none"
  PROVE  /\ current # NULL => \E k \in 1..size : CurrentIs(c, k)
         /\ current = NULL /\ loop = "remove" => \A i \in 1..size : data[c[i]] # find_data
<1>1. size \in Nat
  BY DEF TypeOK
<1>2. ASSUME prev = NULL
      PROVE  /\ loop = "sweep"
             /\ current # NULL => CurrentIs(c, 1) /\ 1 \in 1..size
  <2>1. loop = "sweep" /\ current = head
    BY <1>2 DEF CursorsAt
  <2>2. current # NULL => size # 0 /\ 1 \in 1..size /\ c[1] = head
    BY <1>1, <2>1 DEF IsChain
  <2>3. current # NULL => next[current] \in Node \cup {NULL}
    BY DEF TypeOK
  <2> QED
    BY <1>2, <2>1, <2>2, <2>3 DEF CurrentIs
<1>3. ASSUME prev # NULL
      PROVE  /\ current # NULL => \E k \in 1..size : CurrentIs(c, k)
             /\ current = NULL /\ loop = "remove" => \A i \in 1..size : data[c[i]] # find_data
  <2>1. PICK k \in 1..size :
          /\ c[k] = prev /\ next[prev] = current
          /\ loop = "remove" => \A i \in 1..k : data[c[i]] # find_data
    BY <1>3 DEF CursorsAt
  <2>2. current = NULL <=> k = size
    BY <2>1, LastNode
  <2>3. ASSUME current # NULL PROVE \E m \in 1..size : CurrentIs(c, m)
    <3>1. /\ k \in 1..(size - 1) /\ k + 1 \in 1..size /\ (k + 1) - 1 = k /\ k + 1 > 1
      BY <1>1, <2>2, <2>3
    <3>2. c[k + 1] = current
      BY <2>1, <3>1 DEF IsChain
    <3>3. next[current] \in Node \cup {NULL}
      BY <2>3 DEF TypeOK
    <3>4. CurrentIs(c, k + 1)
      BY <1>3, <2>1, <3>1, <3>2, <3>3 DEF CurrentIs
    <3> QED
      BY <3>1, <3>4
  <2> QED
    BY <2>1, <2>2, <2>3
<1> QED
  BY <1>2, <1>3

\* Position names the place of the current node.
LEMMA PositionIs ==
  ASSUME NEW c, IsChain(c), TypeOK, NEW k \in 1..size
  PROVE  Position(c[k]) = k
<1>1. Chain = c
  BY ChainIs
<1>2. \A i \in 1..size : Chain[i] = c[k] <=> i = k
  BY <1>1 DEF IsChain
<1> QED
  BY <1>2 DEF Position
-----------------------------------------------------------------------------
(* The operations.  Each keeps the inductive invariant, and does to the     *)
(* contents what module Queue says.                                        *)

\* Outside the loops there is nothing to say of the cursors.
LEMMA IdleChain ==
  ASSUME TypeOK', loop' = "none", NEW e \in [1..size' -> allocated'], IsChain(e)'
  PROVE  IInv'
<1>1. CursorsAt(e)'
  BY DEF CursorsAt
<1> QED
  BY <1>1 DEF IInv

LEMMA EnqueueStep ==
  ASSUME IInv, NEW d \in Data, Enqueue(d)
  PROVE  /\ IInv'
         /\ Contents' = Fifo!Enqueue(Contents, d)
         /\ LostNodes' \subseteq LostNodes
<1>1. PICK c \in [1..size -> allocated] : IsChain(c) /\ CursorsAt(c)
  BY DEF IInv
<1>2. TypeOK /\ TypeOK' /\ Enqueued(c, d)
  BY <1>1, EnqueueChain DEF IInv
<1>3. PICK n \in Node \ allocated, e \in [1..(size + 1) -> allocated'] :
        /\ IsChain(e)' /\ size' = size + 1 /\ allocated' = allocated \cup {n}
        /\ e[size + 1] = n /\ data'[n] = d
        /\ \A i \in 1..size : e[i] = c[i] /\ data'[c[i]] = data[c[i]]
  BY <1>2 DEF Enqueued
<1>4. loop' = "none"
  BY DEF Enqueue, cursors
<1>5. IInv'
  BY <1>2, <1>3, <1>4, IdleChain
<1>6. /\ Contents \in Seq(Data) /\ Len(Contents) = size
      /\ \A i \in 1..size : Contents[i] = data[c[i]]
      /\ LostNodes = allocated \ {c[i] : i \in 1..size}
  BY <1>1, <1>2, ContentsAre
<1>7. /\ Contents' \in Seq(Data) /\ Len(Contents') = size + 1
      /\ \A i \in 1..(size + 1) : Contents'[i] = data'[e[i]]
      /\ LostNodes' = allocated' \ {e[i] : i \in 1..(size + 1)}
  BY <1>2, <1>3, ContentsAreNext
<1>8. size \in Nat /\ \A i \in 1..size : i \in 1..(size + 1)
  BY <1>2 DEF TypeOK
<1>9. Contents' = Append(Contents, d)
  <2>1. /\ Append(Contents, d) \in Seq(Data) /\ Len(Append(Contents, d)) = size + 1
        /\ \A i \in 1..size : Append(Contents, d)[i] = Contents[i]
        /\ Append(Contents, d)[size + 1] = d
    BY <1>6, AppendProperties
  <2>2. \A i \in 1..(size + 1) : Contents'[i] = Append(Contents, d)[i]
    <3> TAKE i \in 1..(size + 1)
    <3>1. CASE i = size + 1
      BY <1>3, <1>7, <2>1, <3>1
    <3>2. CASE i # size + 1
      <4>1. i \in 1..size
        BY <1>8, <3>2
      <4> QED
        BY <1>3, <1>6, <1>7, <2>1, <4>1
    <3> QED
      BY <3>1, <3>2
  <2> QED
    BY <1>7, <2>1, <2>2, SeqEqual
<1>10. LostNodes' \subseteq LostNodes
  <2> SUFFICES ASSUME NEW m \in LostNodes' PROVE m \in LostNodes
    OBVIOUS
  <2>1. m \in allocated' /\ \A i \in 1..(size + 1) : m # e[i]
    BY <1>7
  <2>2. size + 1 \in 1..(size + 1)
    BY <1>8
  <2>3. m \in allocated /\ \A i \in 1..size : m # c[i]
    BY <1>3, <1>8, <2>1, <2>2
  <2> QED
    BY <1>6, <2>3
<1> QED
  BY <1>5, <1>9, <1>10 DEF Fifo!Enqueue

\* Dequeue and a remove_data that finds its data at the head.
LEMMA DropHeadStep ==
  ASSUME IInv, loop = "none", ~isEmpty, DropHead, UNCHANGED cursors
  PROVE  /\ IInv'
         /\ Contents \in Seq(Data) /\ 1 \in 1..Len(Contents) /\ Contents[1] = data[head]
         /\ Contents' = Fifo!UnlinkAt(Contents, 1)
         /\ LostNodes' \subseteq LostNodes
<1>1. PICK c \in [1..size -> allocated] : IsChain(c) /\ CursorsAt(c)
  BY DEF IInv
<1>2. TypeOK /\ size \in Nat /\ size > 0 /\ 1 \in 1..size
  BY DEF IInv, TypeOK, isEmpty
<1>3. c[1] = head /\ (next[head] = NULL <=> size = 1)
  BY <1>1, <1>2, LastNode
<1>4. Unlinks(c, 1) /\ allocated' = allocated \ {c[1]}
  <2>1. /\ head' = next[head] /\ tail' = (IF next[head] = NULL THEN NULL ELSE tail)
        /\ size' = size - 1 /\ allocated' = allocated \ {head}
        /\ next' = next /\ data' = data
    BY DEF DropHead
  <2> QED
    BY <1>3, <2>1 DEF Unlinks
<1>5. CursorTypes' /\ loop' = "none"
  BY <1>2 DEF CursorTypes, TypeOK, cursors
<1>6. /\ TypeOK'
      /\ \E e \in [1..(size - 1) -> allocated'] :
           /\ IsChain(e)'
           /\ \A i \in 1..(size - 1) : e[i] = IF i < 1 THEN c[i] ELSE c[i + 1]
      /\ Contents' = Fifo!UnlinkAt(Contents, 1)
      /\ LostNodes' \subseteq LostNodes
  BY <1>1, <1>2, <1>4, <1>5, Unlinked
<1>7. IInv'
  <2>1. size' = size - 1
    BY <1>4 DEF Unlinks
  <2> QED
    BY <1>5, <1>6, <2>1, IdleChain
<1>8. Contents \in Seq(Data) /\ 1 \in 1..Len(Contents) /\ Contents[1] = data[head]
  BY <1>1, <1>2, <1>3, ContentsAre
<1> QED
  BY <1>6, <1>7, <1>8

LEMMA DequeueStep ==
  ASSUME IInv, Dequeue
  PROVE  /\ IInv'
         /\ Contents' = Fifo!Dequeue(Contents)
         /\ LostNodes' \subseteq LostNodes
<1>1. /\ IInv'
      /\ Contents \in Seq(Data) /\ 1 \in 1..Len(Contents)
      /\ Contents' = Fifo!UnlinkAt(Contents, 1)
      /\ LostNodes' \subseteq LostNodes
  BY DropHeadStep DEF Dequeue
<1>2. Contents # << >> /\ Tail(Contents) \in Seq(Data)
      /\ Len(Tail(Contents)) = Len(Contents) - 1
      /\ \A i \in 1..(Len(Contents) - 1) : Tail(Contents)[i] = Contents[i + 1]
  BY <1>1, HeadTailProperties, EmptySeq
<1>3. \A i \in 1..(Len(Contents) - 1) :
        Tail(Contents)[i] = IF i < 1 THEN Contents[i] ELSE Contents[i + 1]
  BY <1>1, <1>2
<1>4. Tail(Contents) = Fifo!UnlinkAt(Contents, 1)
  BY <1>1, <1>2, <1>3, FifoUnlinkAt
<1> QED
  BY <1>1, <1>2, <1>4 DEF Fifo!Dequeue, Fifo!isEmpty

\* A search that is over at once has found its data at the head; another one
\* has looked at the head.
LEMMA RemoveDataStep ==
  ASSUME IInv, NEW d \in Data, remove_data(d)
  PROVE  /\ IInv'
         /\ loop' = "none" => Contents' = Fifo!remove_data(Contents, d)
         /\ loop' # "none" => Contents' = Contents
         /\ LostNodes' \subseteq LostNodes
<1>1. loop = "none" /\ ~isEmpty
  BY DEF remove_data
<1>2. ASSUME data[head] = d, DropHead, UNCHANGED cursors
      PROVE  /\ IInv' /\ loop' = "none"
             /\ Contents' = Fifo!remove_data(Contents, d)
             /\ LostNodes' \subseteq LostNodes
  <2>1. /\ IInv'
        /\ Contents \in Seq(Data) /\ 1 \in 1..Len(Contents) /\ Contents[1] = d
        /\ Contents' = Fifo!UnlinkAt(Contents, 1)
        /\ LostNodes' \subseteq LostNodes
    BY <1>1, <1>2, DropHeadStep
  <2>2. \A i \in 1..(1 - 1) : Contents[i] # d
    OBVIOUS
  <2>3. loop' = "none"
    BY <1>1, <1>2 DEF cursors
  <2> QED
    BY <2>1, <2>2, <2>3, FifoRemoveData
<1>3. ASSUME data[head] # d, loop' = "remove", prev' = head, current' = next[head],
             find_data' = d, UNCHANGED list
      PROVE  IInv' /\ loop' # "none" /\ Contents' = Contents /\ LostNodes' \subseteq LostNodes
  <2>1. PICK c \in [1..size -> allocated] : IsChain(c) /\ CursorsAt(c)
    BY DEF IInv
  <2>2. TypeOK /\ size \in Nat /\ size > 0 /\ 1 \in 1..size
    BY <1>1 DEF IInv, TypeOK, isEmpty
  <2>3. c[1] = head /\ head \in Node /\ head # NULL /\ next[head] \in Node \cup {NULL}
    BY <2>1, <2>2, LastNode DEF TypeOK
  <2>4. CursorTypes'
    BY <1>3, <2>3 DEF CursorTypes
  <2>5. TypeOK' /\ IsChain(c)' /\ Contents' = Contents /\ LostNodes' = LostNodes
    BY <1>3, <2>1, <2>2, <2>4, ListKept
  <2>6. /\ size' = size /\ next' = next /\ data' = data /\ allocated' = allocated
    BY <1>3 DEF list
  <2>7. CursorsAt(c)'
    <3>1. \A i \in 1..1 : data'[c[i]] # find_data'
      BY <1>3, <2>3, <2>6
    <3>2. c[1] = prev' /\ next'[prev'] = current' /\ 1 \in 1..size' /\ prev' # NULL
      BY <1>3, <2>2, <2>3, <2>6
    <3> QED
      BY <1>3, <3>1, <3>2 DEF CursorsAt
  <2> QED
    BY <1>3, <2>5, <2>6, <2>7 DEF IInv
<1>4. \/ data[head] = d /\ DropHead /\ UNCHANGED cursors
      \/ /\ data[head] # d /\ loop' = "remove" /\ prev' = head /\ current' = next[head]
         /\ find_data' = d /\ UNCHANGED list
  BY DEF remove_data
<1> QED
  BY <1>2, <1>3, <1>4

LEMMA RemoveUnlinkStep ==
  ASSUME IInv, RemoveUnlink
  PROVE  /\ IInv'
         /\ Contents' = Fifo!remove_data(Contents, find_data)
         /\ LostNodes' \subseteq LostNodes
<1>1. PICK c \in [1..size -> allocated] : IsChain(c) /\ CursorsAt(c)
  BY DEF IInv
<1>2. TypeOK /\ size \in Nat /\ loop = "remove" /\ current # NULL /\ data[current] = find_data
  BY DEF IInv, TypeOK, RemoveUnlink
<1>3. PICK k \in 1..size : CurrentIs(c, k)
  BY <1>1, <1>2, CurrentAt
<1>4. /\ c[k] = current /\ k > 1 /\ k - 1 \in 1..size /\ c[k - 1] = prev
      /\ \A i \in 1..(k - 1) : data[c[i]] # find_data
  BY <1>2, <1>3 DEF CurrentIs
<1>5. tail = current <=> k = size
  BY <1>1, <1>2, <1>4, LastNode
<1>6. Unlinks(c, k) /\ allocated' = allocated \ {c[k]}
  <2>1. /\ next' = [next EXCEPT ![prev] = next[current]]
        /\ tail' = (IF current = tail THEN prev ELSE tail)
        /\ size' = size - 1 /\ allocated' = allocated \ {current}
        /\ head' = head /\ data' = data
    BY DEF RemoveUnlink, FreedAfterUnlink
  <2>2. k # 1
    BY <1>4
  <2> QED
    BY <1>4, <1>5, <2>1, <2>2 DEF Unlinks
<1>7. CursorTypes' /\ loop' = "none"
  BY DEF CursorTypes, RemoveUnlink, LeaveLoop
<1>8. /\ TypeOK'
      /\ \E e \in [1..(size - 1) -> allocated'] :
           /\ IsChain(e)'
           /\ \A i \in 1..(size - 1) : e[i] = IF i < k THEN c[i] ELSE c[i + 1]
      /\ Contents' = Fifo!UnlinkAt(Contents, k)
      /\ LostNodes' \subseteq LostNodes
  BY <1>1, <1>2, <1>6, <1>7, Unlinked
<1>9. IInv'
  <2>1. size' = size - 1
    BY <1>6 DEF Unlinks
  <2> QED
    BY <1>7, <1>8, <2>1, IdleChain
<1>10. /\ Contents \in Seq(Data) /\ Len(Contents) = size
       /\ \A i \in 1..size : Contents[i] = data[c[i]]
  BY <1>1, <1>2, ContentsAre
<1>11. Contents[k] = find_data /\ \A i \in 1..(k - 1) : Contents[i] # find_data
  <2>1. \A i \in 1..(k - 1) : i \in 1..size
    BY <1>2
  <2> QED
    BY <1>2, <1>4, <1>10, <2>1
<1>12. Fifo!remove_data(Contents, find_data) = Fifo!UnlinkAt(Contents, k)
  BY <1>10, <1>11, FifoRemoveData
<1> QED
  BY <1>8, <1>9, <1>12

LEMMA RemoveAdvanceStep ==
  ASSUME IInv, RemoveAdvance
  PROVE  IInv' /\ loop' = "remove" /\ Contents' = Contents /\ LostNodes' = LostNodes
<1>1. PICK c \in [1..size -> allocated] : IsChain(c) /\ CursorsAt(c)
  BY DEF IInv
<1>2. TypeOK /\ size \in Nat /\ loop = "remove" /\ current # NULL /\ data[current] # find_data
  BY DEF IInv, TypeOK, RemoveAdvance
<1>3. /\ loop' = "remove" /\ prev' = current /\ current' = next[current]
      /\ find_data' = find_data /\ UNCHANGED list
  BY <1>2 DEF RemoveAdvance
<1>4. PICK k \in 1..size : CurrentIs(c, k)
  BY <1>1, <1>2, CurrentAt
<1>5. CursorTypes'
  BY <1>2, <1>3, <1>4 DEF CursorTypes, TypeOK, CurrentIs
<1>6. TypeOK' /\ IsChain(c)' /\ Contents' = Contents /\ LostNodes' = LostNodes
  BY <1>1, <1>2, <1>3, <1>5, ListKept
<1>7. /\ size' = size /\ next' = next /\ data' = data /\ allocated' = allocated
  BY <1>3 DEF list
<1>8. CursorsAt(c)'
  <2>1. c[k] = current /\ \A i \in 1..(k - 1) : data[c[i]] # find_data
    BY <1>2, <1>4 DEF CurrentIs
  <2>2. \A i \in 1..k : data'[c[i]] # find_data'
    <3> TAKE i \in 1..k
    <3>1. i = k \/ i \in 1..(k - 1)
      BY <1>2
    <3> QED
      BY <1>2, <1>3, <1>7, <2>1, <3>1
  <2>3. prev' # NULL /\ k \in 1..size' /\ c[k] = prev' /\ next'[prev'] = current'
    BY <1>2, <1>3, <1>7, <2>1
  <2> QED
    BY <1>3, <2>2, <2>3 DEF CursorsAt
<1> QED
  BY <1>3, <1>6, <1>7, <1>8 DEF IInv

\* Where a search or a sweep ends, or a sweep starts, the list is left alone.
LEMMA RemoveNotFoundStep ==
  ASSUME IInv, RemoveNotFound
  PROVE  /\ IInv'
         /\ Contents' = Contents /\ LostNodes' = LostNodes
         /\ Contents' = Fifo!remove_data(Contents, find_data)
<1>1. PICK c \in [1..size -> allocated] : IsChain(c) /\ CursorsAt(c)
  BY DEF IInv
<1>2. TypeOK /\ loop = "remove" /\ current = NULL /\ UNCHANGED list /\ loop' = "none"
  BY DEF IInv, RemoveNotFound, LeaveLoop
<1>3. CursorTypes'
  BY DEF CursorTypes, RemoveNotFound, LeaveLoop
<1>4. TypeOK' /\ IsChain(c)' /\ Contents' = Contents /\ LostNodes' = LostNodes
  BY <1>1, <1>2, <1>3, ListKept
<1>5. c \in [1..size' -> allocated']
  BY <1>2 DEF list
<1>6. IInv'
  BY <1>2, <1>4, <1>5, IdleChain
<1>7. \A i \in 1..size : data[c[i]] # find_data
  BY <1>1, <1>2, CurrentAt
<1>8. /\ Contents \in Seq(Data) /\ Len(Contents) = size
      /\ \A i \in 1..size : Contents[i] = data[c[i]]
  BY <1>1, <1>2, ContentsAre
<1>9. Fifo!remove_data(Contents, find_data) = Contents
  BY <1>7, <1>8, FifoRemoveData
<1> QED
  BY <1>4, <1>6, <1>9

LEMMA SweepEndsStep ==
  ASSUME IInv, SweepStart \/ SweepEnd
  PROVE  IInv' /\ Contents' = Contents /\ LostNodes' = LostNodes
<1>1. PICK c \in [1..size -> allocated] : IsChain(c) /\ CursorsAt(c)
  BY DEF IInv
<1>2. TypeOK /\ UNCHANGED list
  BY DEF IInv, SweepStart, SweepEnd
<1>3. CursorTypes'
  BY <1>2 DEF CursorTypes, SweepStart, SweepEnd, LeaveLoop, TypeOK
<1>4. TypeOK' /\ IsChain(c)' /\ Contents' = Contents /\ LostNodes' = LostNodes
  BY <1>1, <1>2, <1>3, ListKept
<1>5. c \in [1..size' -> allocated'] /\ head' = head
  BY <1>2 DEF list
<1>6. CursorsAt(c)'
  BY <1>5 DEF CursorsAt, SweepStart, SweepEnd, LeaveLoop
<1> QED
  BY <1>4, <1>5, <1>6 DEF IInv

\* A process that is not due stays, and the cursors move on.
LEMMA SweepOverStep ==
  ASSUME IInv, SweepStep(FALSE)
  PROVE  IInv' /\ loop' = "sweep" /\ Contents' = Contents /\ LostNodes' = LostNodes
<1>1. PICK c \in [1..size -> allocated] : IsChain(c) /\ CursorsAt(c)
  BY DEF IInv
<1>2. /\ TypeOK /\ loop = "sweep" /\ current # NULL /\ UNCHANGED list
      /\ prev' = current /\ current' = next[current]
      /\ loop' = "sweep" /\ find_data' = find_data
  BY DEF IInv, SweepStep, SweptPrev
<1>3. PICK k \in 1..size : CurrentIs(c, k)
  BY <1>1, <1>2, CurrentAt
<1>4. CursorTypes'
  BY <1>2, <1>3 DEF CursorTypes, TypeOK, CurrentIs
<1>5. TypeOK' /\ IsChain(c)' /\ Contents' = Contents /\ LostNodes' = LostNodes
  BY <1>1, <1>2, <1>4, ListKept
<1>6. /\ size' = size /\ next' = next /\ allocated' = allocated
  BY <1>2 DEF list
<1>7. prev' # NULL /\ k \in 1..size' /\ c[k] = prev' /\ next'[prev'] = current'
  BY <1>2, <1>3, <1>6 DEF CurrentIs
<1>8. CursorsAt(c)'
  BY <1>2, <1>7 DEF CursorsAt
<1> QED
  BY <1>2, <1>5, <1>6, <1>8 DEF IInv

\* One that is due is unlinked, and the cursor behind stays where it is.
LEMMA SweepUnlinkStep ==
  ASSUME IInv, SweepStep(TRUE)
  PROVE  /\ IInv' /\ size' # size
         /\ Contents' = Fifo!UnlinkAt(Contents, Position(current))
<1>1. PICK c \in [1..size -> allocated] : IsChain(c) /\ CursorsAt(c)
  BY DEF IInv
<1>2. TypeOK /\ size \in Nat /\ loop = "sweep" /\ current # NULL
  BY DEF IInv, TypeOK, SweepStep
<1>3. /\ head' = IF prev = NULL THEN next[current] ELSE head
      /\ next' = IF prev = NULL THEN next ELSE [next EXCEPT ![prev] = next[current]]
      /\ tail' = IF next[current] = NULL THEN prev ELSE tail
      /\ size' = size - 1 /\ data' = data /\ allocated' = allocated
      /\ prev' = prev /\ current' = next[current]
      /\ loop' = "sweep" /\ find_data' = find_data
  BY <1>2 DEF SweepStep, SweptTail, SweptPrev
<1>4. PICK k \in 1..size : CurrentIs(c, k)
  BY <1>1, <1>2, CurrentAt
<1>5. /\ c[k] = current /\ next[current] \in Node \cup {NULL}
      /\ prev = NULL => k = 1
      /\ prev # NULL => k > 1 /\ k # 1 /\ k - 1 \in 1..size /\ c[k - 1] = prev
  BY <1>4 DEF CurrentIs
<1>6. next[current] = NULL <=> k = size
  BY <1>1, <1>2, <1>5, LastNode
<1>7. Unlinks(c, k)
  BY <1>3, <1>5, <1>6 DEF Unlinks
<1>8. CursorTypes'
  BY <1>2, <1>3, <1>5 DEF CursorTypes, TypeOK
<1>9. TypeOK' /\ Contents' = Fifo!UnlinkAt(Contents, k)
  BY <1>1, <1>2, <1>7, <1>8, Unlinked
<1>10. PICK e \in [1..(size - 1) -> allocated'] :
         /\ IsChain(e)'
         /\ \A i \in 1..(size - 1) : e[i] = IF i < k THEN c[i] ELSE c[i + 1]
  BY <1>1, <1>2, <1>7, <1>8, Unlinked
<1>11. CursorsAt(e)'
  <2>1. prev' = NULL => loop' = "sweep" /\ current' = head'
    BY <1>3
  <2>2. prev' # NULL => k - 1 \in 1..size' /\ e[k - 1] = prev' /\ next'[prev'] = current'
    <3> SUFFICES ASSUME prev # NULL
                 PROVE  k - 1 \in 1..size' /\ e[k - 1] = prev' /\ next'[prev'] = current'
      BY <1>3
    <3>1. k - 1 \in 1..(size - 1) /\ k - 1 < k
      BY <1>2, <1>5
    <3>2. prev \in Node /\ next \in [Node -> Node \cup {NULL}]
      BY <1>2 DEF TypeOK
    <3> QED
      BY <1>3, <1>5, <1>10, <3>1, <3>2
  <2> QED
    BY <1>3, <2>1, <2>2 DEF CursorsAt
<1>12. Position(current) = k
  BY <1>1, <1>2, <1>5, PositionIs
<1>13. IInv'
  <2>1. e \in [1..size' -> allocated']
    BY <1>3, <1>10
  <2> QED
    BY <1>9, <1>10, <1>11, <2>1 DEF IInv
<1> QED
  BY <1>2, <1>3, <1>9, <1>12, <1>13

\* A stutter, and an Enqueue that got no memory.
LEMMA StutterStep ==
  ASSUME IInv, UNCHANGED vars
  PROVE  IInv' /\ Contents' = Contents /\ LostNodes' = LostNodes
<1>1. PICK c \in [1..size -> allocated] : IsChain(c) /\ CursorsAt(c)
  BY DEF IInv
<1>2. TypeOK /\ UNCHANGED list /\ UNCHANGED cursors
  BY DEF IInv, vars
<1>3. CursorTypes'
  BY <1>2 DEF CursorTypes, TypeOK, cursors
<1>4. TypeOK' /\ IsChain(c)' /\ Contents' = Contents /\ LostNodes' = LostNodes
  BY <1>1, <1>2, <1>3, ListKept
<1>5. c \in [1..size' -> allocated'] /\ CursorsAt(c)'
  BY <1>1, <1>2 DEF CursorsAt, list, cursors
<1> QED
  BY <1>4, <1>5 DEF IInv
-----------------------------------------------------------------------------
(* The theorems.                                                           *)

LEMMA InitIInv == Init => IInv
<1> SUFFICES ASSUME Init PROVE IInv
  OBVIOUS
<1>1. TypeOK
  BY DEF Init, TypeOK
<1>2. PICK c : c = [i \in 1..size |-> head]
  OBVIOUS
<1>3. size = 0 /\ allocated = {} /\ head = NULL /\ tail = NULL /\ loop = "none" /\ 1..0 = {}
  BY DEF Init
<1>4. c \in [1..size -> allocated] /\ IsChain(c) /\ CursorsAt(c)
  BY <1>2, <1>3 DEF IsChain, CursorsAt
<1> QED
  BY <1>1, <1>4 DEF IInv

LEMMA NextIInv == IInv /\ [Next]_vars => IInv'
<1> SUFFICES ASSUME IInv, [Next]_vars PROVE IInv'
  OBVIOUS
<1>1. ASSUME NEW d \in Data, Enqueue(d) PROVE IInv'
  BY <1>1, EnqueueStep
<1>2. ASSUME NEW d \in Data, remove_data(d) PROVE IInv'
  BY <1>2, RemoveDataStep
<1>3. CASE EnqueueNoMemory \/ UNCHANGED vars
  BY <1>3, StutterStep DEF EnqueueNoMemory
<1>4. CASE Dequeue
  BY <1>4, DequeueStep
<1>5. CASE RemoveUnlink
  BY <1>5, RemoveUnlinkStep
<1>6. CASE RemoveAdvance
  BY <1>6, RemoveAdvanceStep
<1>7. CASE RemoveNotFound
  BY <1>7, RemoveNotFoundStep
<1>8. CASE SweepStart \/ SweepEnd
  BY <1>8, SweepEndsStep
<1>9. ASSUME NEW due \in BOOLEAN, SweepStep(due) PROVE IInv'
  BY <1>9, SweepOverStep, SweepUnlinkStep
<1> QED
  BY <1>1, <1>2, <1>3, <1>4, <1>5, <1>6, <1>7, <1>8, <1>9 DEF Next

\* The list can be followed from its head, and the cursors of a loop are on
\* neighbouring nodes of it, after every step.
THEOREM Invariance == Spec => []IInv
BY InitIInv, NextIInv, PTL DEF Spec

\* Every operation, and every step of the two loops, keeps head, tail and size
\* those of the list of allocated nodes.
THEOREM ListIsWellFormed == Spec => []WellFormed
<1>1. ASSUME IInv PROVE WellFormed
  <2>1. PICK c \in [1..size -> allocated] : IsChain(c)
    BY <1>1 DEF IInv
  <2>2. Chain = c
    BY <1>1, <2>1, ChainIs DEF IInv
  <2> QED
    BY <2>1, <2>2 DEF WellFormed, IsChain
<1> QED
  BY <1>1, Invariance, PTL

\* While remove_data or the clock handler unlinks from the list it walks, prev
\* and current stay neighbours in it.
THEOREM CursorsStayInList == Spec => []CursorsInList
<1>1. ASSUME IInv PROVE CursorsInList
  <2>1. PICK c \in [1..size -> allocated] : IsChain(c) /\ CursorsAt(c)
    BY <1>1 DEF IInv
  <2>2. Chain = c
    BY <1>1, <2>1, ChainIs DEF IInv
  <2> QED
    BY <2>1, <2>2 DEF CursorsInList, CursorsAt
<1> QED
  BY <1>1, Invariance, PTL

\* The node-by-node code does to the queue what module Queue, which stands for
\* it in the model of the scheduler, does to a sequence.
THEOREM OperationsAreTheQueues == Spec => OperationsMeetQueue
<1> DEFINE
  Meets ==
     /\ \A d \in Data : Enqueue(d) => Contents' = Fifo!Enqueue(Contents, d)
     /\ Dequeue => Contents' = Fifo!Dequeue(Contents)
     /\ \A d \in Data : remove_data(d) /\ loop' = "none" =>
          Contents' = Fifo!remove_data(Contents, d)
     /\ loop = "remove" /\ loop' = "none" =>
          Contents' = Fifo!remove_data(Contents, find_data)
     /\ loop = "sweep" /\ SweepStep(TRUE) =>
          Contents' = Fifo!UnlinkAt(Contents, Position(current))
     /\ loop' # "none" /\ size' = size => Contents' = Contents
<1>1. ASSUME IInv, [Next]_vars PROVE [Meets]_vars
  <2>1. \A d \in Data : Enqueue(d) => Contents' = Fifo!Enqueue(Contents, d)
    BY <1>1, EnqueueStep
  <2>2. Dequeue => Contents' = Fifo!Dequeue(Contents)
    BY <1>1, DequeueStep
  <2>3. \A d \in Data : remove_data(d) /\ loop' = "none" =>
          Contents' = Fifo!remove_data(Contents, d)
    BY <1>1, RemoveDataStep
  <2>4. SweepStep(TRUE) => Contents' = Fifo!UnlinkAt(Contents, Position(current))
    BY <1>1, SweepUnlinkStep
  <2>5. ASSUME loop = "remove", loop' = "none"
        PROVE  Contents' = Fifo!remove_data(Contents, find_data)
    <3>1. RemoveUnlink \/ RemoveNotFound
      BY <1>1, <2>5 DEF Next, vars, cursors, Enqueue, EnqueueNoMemory, Dequeue, remove_data,
                        RemoveAdvance, SweepStart, SweepEnd, SweepStep
    <3> QED
      BY <1>1, <3>1, RemoveUnlinkStep, RemoveNotFoundStep
  <2>6. ASSUME loop' # "none", size' = size PROVE Contents' = Contents
    <3>1. ASSUME NEW d \in Data, remove_data(d) PROVE Contents' = Contents
      BY <1>1, <2>6, <3>1, RemoveDataStep
    <3>2. CASE EnqueueNoMemory \/ UNCHANGED vars
      BY <1>1, <3>2, StutterStep DEF EnqueueNoMemory
    <3>3. CASE RemoveAdvance
      BY <1>1, <3>3, RemoveAdvanceStep
    <3>4. CASE SweepStart \/ SweepEnd
      BY <1>1, <3>4, SweepEndsStep
    <3>5. ASSUME NEW due \in BOOLEAN, SweepStep(due) PROVE Contents' = Contents
      BY <1>1, <2>6, <3>5, SweepOverStep, SweepUnlinkStep
    <3>6. \/ \E d \in Data : remove_data(d)
          \/ EnqueueNoMemory \/ UNCHANGED vars
          \/ RemoveAdvance
          \/ SweepStart \/ SweepEnd
          \/ \E due \in BOOLEAN : SweepStep(due)
      BY <1>1, <2>6 DEF Next, cursors, Enqueue, Dequeue, RemoveUnlink, RemoveNotFound,
                        LeaveLoop
    <3> QED
      BY <3>1, <3>2, <3>3, <3>4, <3>5, <3>6
  <2> QED
    BY <2>1, <2>2, <2>3, <2>4, <2>5, <2>6
<1> QED
  BY <1>1, Invariance, PTL DEF Spec, OperationsMeetQueue

\* A node that is allocated and no longer in the queue was unlinked by the
\* wake-up loop of the clock handler: the other operations free what they unlink.
THEOREM OnlySweepLosesNodes == Spec => NodesLostOnlyBySweep
<1>1. ASSUME IInv, [Next]_vars PROVE [LostNodes' \subseteq LostNodes \/ SweepStep(TRUE)]_vars
  <2>1. ASSUME NEW d \in Data, Enqueue(d) PROVE LostNodes' \subseteq LostNodes
    BY <1>1, <2>1, EnqueueStep
  <2>2. ASSUME NEW d \in Data, remove_data(d) PROVE LostNodes' \subseteq LostNodes
    BY <1>1, <2>2, RemoveDataStep
  <2>3. ASSUME EnqueueNoMemory \/ UNCHANGED vars PROVE LostNodes' \subseteq LostNodes
    BY <1>1, <2>3, StutterStep DEF EnqueueNoMemory
  <2>4. ASSUME Dequeue PROVE LostNodes' \subseteq LostNodes
    BY <1>1, <2>4, DequeueStep
  <2>5. ASSUME RemoveUnlink PROVE LostNodes' \subseteq LostNodes
    BY <1>1, <2>5, RemoveUnlinkStep
  <2>6. ASSUME RemoveAdvance PROVE LostNodes' \subseteq LostNodes
    BY <1>1, <2>6, RemoveAdvanceStep
  <2>7. ASSUME RemoveNotFound PROVE LostNodes' \subseteq LostNodes
    BY <1>1, <2>7, RemoveNotFoundStep
  <2>8. ASSUME SweepStart \/ SweepEnd PROVE LostNodes' \subseteq LostNodes
    BY <1>1, <2>8, SweepEndsStep
  <2>9. ASSUME NEW due \in BOOLEAN, SweepStep(due)
        PROVE  LostNodes' \subseteq LostNodes \/ SweepStep(TRUE)
    BY <1>1, <2>9, SweepOverStep
  <2> QED
    BY <1>1, <2>1, <2>2, <2>3, <2>4, <2>5, <2>6, <2>7, <2>8, <2>9 DEF Next
<1> QED
  BY <1>1, Invariance, PTL DEF Spec, NodesLostOnlyBySweep
=============================================================================
