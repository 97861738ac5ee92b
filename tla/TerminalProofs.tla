--------------------------- MODULE TerminalProofs ---------------------------
(***************************************************************************)
(* Proofs about module Terminal, for any number of terminals, processes    *)
(* and lines, and buffers of any length.                                   *)
(***************************************************************************)
EXTENDS TerminalProperties, SequenceTheorems, TLAPS

QF == INSTANCE QueueFacts
-----------------------------------------------------------------------------
(* Sequences.                                                              *)

\* Joining two sequences joins their members, and the last one stays last.
LEMMA Joined ==
  ASSUME NEW S, NEW s \in Seq(S), NEW u \in Seq(S)
  PROVE  /\ s \o u \in Seq(S)
         /\ \A P : (\A i \in DOMAIN s : s[i] \in P) /\ (\A i \in DOMAIN u : u[i] \in P)
                   => \A i \in DOMAIN (s \o u) : (s \o u)[i] \in P
         /\ u # <<>> => s \o u # <<>> /\ Last(s \o u) = Last(u)
<1> DEFINE r == s \o u
           m == Len(s)
           n == Len(u)
<1>1. /\ r \in Seq(S) /\ Len(r) = m + n
      /\ \A i \in 1..(m + n) : r[i] = IF i <= m THEN s[i] ELSE u[i - m]
  BY ConcatProperties
<1>2. /\ m \in Nat /\ n \in Nat
      /\ DOMAIN s = 1..m /\ DOMAIN u = 1..n /\ DOMAIN r = 1..(m + n)
  BY <1>1, LenProperties
<1>3. ASSUME u # <<>> PROVE r # <<>> /\ Last(r) = Last(u)
  <2>1. n > 0
    BY <1>2, <1>3, EmptySeq
  <2>2. Len(r) # 0
    BY <1>1, <1>2, <2>1
  <2>3. r # <<>>
    BY <2>2, EmptySeq
  <2>4. m + n \in 1..(m + n) /\ ~(m + n <= m) /\ m + n - m = n
    BY <1>2, <2>1
  <2>5. r[m + n] = u[n]
    BY <1>1, <2>4
  <2> QED
    BY <1>1, <2>3, <2>5 DEF Last
<1> HIDE DEF r, m, n
<1>4. ASSUME NEW P, \A i \in 1..m : s[i] \in P, \A i \in 1..n : u[i] \in P,
             NEW i \in 1..(m + n)
      PROVE  r[i] \in P
  BY <1>1, <1>2, <1>4
<1>5. /\ r \in Seq(S)
      /\ \A P : (\A i \in DOMAIN s : s[i] \in P) /\ (\A i \in DOMAIN u : u[i] \in P)
                => \A i \in DOMAIN r : r[i] \in P
  BY <1>1, <1>2, <1>4
<1> QED
  BY <1>3, <1>5 DEF r

\* Taking the first of a sequence leaves the others.
LEMMA Rest ==
  ASSUME NEW S, NEW s \in Seq(S), s # <<>>
  PROVE  /\ Head(s) \in S /\ Tail(s) \in Seq(S)
         /\ \A P : (\A i \in DOMAIN s : s[i] \in P) => \A i \in DOMAIN Tail(s) : Tail(s)[i] \in P
<1> DEFINE r == Tail(s)
           n == Len(s)
<1>1. /\ Head(s) \in S /\ r \in Seq(S) /\ Len(r) = n - 1
      /\ \A i \in 1..Len(r) : r[i] = s[i + 1]
  BY HeadTailProperties
<1>2. n \in Nat /\ n > 0 /\ DOMAIN s = 1..n /\ DOMAIN r = 1..(n - 1) /\ Head(s) = s[1]
  <2>1. DOMAIN s = 1..n /\ n \in Nat /\ n # 0
    BY LenProperties, EmptySeq
  <2>2. DOMAIN r = 1..(n - 1)
    BY <1>1, LenProperties
  <2> QED
    BY <2>1, <2>2
<1> HIDE DEF r, n
<1>3. ASSUME NEW P, \A i \in DOMAIN s : s[i] \in P, NEW i \in DOMAIN r PROVE r[i] \in P
  <2>1. i \in 1..(n - 1) /\ i + 1 \in 1..n
    BY <1>2, <1>3
  <2> QED
    BY <1>1, <1>2, <1>3, <2>1
<1> QED
  BY <1>1, <1>3 DEF r

-----------------------------------------------------------------------------
(* What TtyWrite transmits.                                                *)

LEMMA Quotient ==
  ASSUME NEW a \in Nat, NEW b \in Nat, b > 0
  PROVE  /\ a \div b \in Nat
         /\ (a \div b) * b <= a
         /\ a < (a \div b) * b + b
OBVIOUS

\* TtyWrite transmits something, and at most a line at a time.
LEMMA PiecesFit ==
  ASSUME NEW len \in Lens
  PROVE  /\ Pieces(len) \in Seq(1..TERMINAL_MAX_LINE)
         /\ Pieces(len) # <<>>
<1> DEFINE b == TERMINAL_MAX_LINE
           n == (len + b - 1) \div b
<1>1. b \in Nat /\ b > 0 /\ len \in Nat /\ len > 0 /\ len + b - 1 \in Nat
  BY TerminalAssumption
<1>2. n \in Nat /\ n * b <= len + b - 1 /\ len + b - 1 < n * b + b
  BY <1>1, Quotient
<1> HIDE DEF n, b
<1>3. n > 0
  <2>1. n # 0
    BY <1>1, <1>2
  <2> QED
    BY <1>2, <2>1
<1>4. ASSUME NEW i \in 1..n PROVE CopyAmount(len - (i - 1) * b) \in 1..b
  <2> DEFINE d == (i - 1) * b
  <2>1. d \in Nat /\ d + b <= n * b
    <3>1. PICK k \in Nat : n = i + k
      <4>1. n - i \in Nat /\ n = i + (n - i)
        BY <1>2
      <4> QED
        BY <4>1
    <3>2. PICK j \in Nat : i = j + 1
      <4>1. i - 1 \in Nat /\ i = (i - 1) + 1
        BY <1>2
      <4> QED
        BY <4>1
    <3>3. d = j * b /\ n * b = j * b + b + k * b /\ j * b \in Nat /\ k * b \in Nat
      BY <1>1, <3>1, <3>2
    <3> QED
      BY <1>1, <3>3
  <2>2. n * b \in Nat
    BY <1>1, <1>2
  <2> HIDE DEF d
  <2>3. len - d \in Nat /\ len - d >= 1
    BY <1>1, <1>2, <2>1, <2>2
  <2>4. CopyAmount(len - d) = IF len - d > b THEN b ELSE len - d
    BY DEF CopyAmount, b
  <2>5. CopyAmount(len - d) \in 1..b
    BY <1>1, <2>3, <2>4
  <2> QED
    BY <2>5 DEF d
<1> DEFINE s == [i \in 1..n |-> CopyAmount(len - (i - 1) * b)]
<1>5. s \in [1..n -> 1..b]
  BY <1>4
<1>6. Pieces(len) = s
  BY DEF Pieces, n, b
<1> HIDE DEF s
<1>7. s \in Seq(1..b) /\ DOMAIN s = 1..n
  BY <1>2, <1>5, SeqDef
<1>8. s # <<>>
  <2>1. 1 \in DOMAIN s
    BY <1>2, <1>3, <1>7
  <2>2. DOMAIN <<>> = {}
    OBVIOUS
  <2> QED
    BY <2>1, <2>2
<1> QED
  BY <1>6, <1>7, <1>8 DEF b

\* What it hands to the hardware carries the pid of its caller, to the last.
LEMMA Transmissions ==
  ASSUME NEW len \in Lens, NEW id \in 1..MAX_PID
  PROVE  LET x == [i \in DOMAIN Pieces(len) |-> [pid |-> id, len |-> Pieces(len)[i]]]
         IN  /\ x \in Seq(Transmission) /\ x # <<>>
             /\ \A i \in DOMAIN x : x[i].pid = id
             /\ Last(x).pid = id
<1> DEFINE s == Pieces(len)
           n == Len(s)
           x == [i \in DOMAIN s |-> [pid |-> id, len |-> s[i]]]
<1>1. s \in Seq(1..TERMINAL_MAX_LINE) /\ s # <<>>
  BY PiecesFit
<1> HIDE DEF s
<1>2. n \in Nat /\ n # 0 /\ DOMAIN s = 1..n /\ \A i \in 1..n : s[i] \in 1..TERMINAL_MAX_LINE
  BY <1>1, LenProperties, EmptySeq, ElementOfSeq
<1> HIDE DEF n
<1>3. x \in [1..n -> Transmission] /\ \A i \in 1..n : x[i].pid = id
  BY <1>2 DEF Transmission
<1> HIDE DEF x
<1>4. x \in Seq(Transmission) /\ DOMAIN x = 1..n
  BY <1>2, <1>3, SeqDef
<1>5. Len(x) = n
  BY <1>2, <1>4
<1>6. x # <<>>
  BY <1>2, <1>4, <1>5, EmptySeq
<1>7. n \in 1..n
  BY <1>2
<1>8. Last(x).pid = id
  BY <1>3, <1>5, <1>7 DEF Last
<1>9. x \in Seq(Transmission) /\ x # <<>> /\ (\A i \in DOMAIN x : x[i].pid = id) /\ Last(x).pid = id
  BY <1>3, <1>4, <1>6, <1>8
<1> QED
  BY <1>9 DEF x, s
-----------------------------------------------------------------------------
(* Bytes, which adds up the transmissions of a sequence.                   *)

\* f counts the bytes of the first i transmissions of s.
IsSum(f, s) ==
  /\ f \in [0..Len(s) -> Nat]
  /\ f[0] = 0
  /\ \A i \in 1..Len(s) : f[i] = f[i - 1] + s[i].len

\* There is one way to add them up.
LEMMA SumIs ==
  ASSUME NEW s \in Seq(Transmission), NEW f, IsSum(f, s)
  PROVE  Bytes(s) = f[Len(s)]
<1> DEFINE n == Len(s)
           Step(g) == [i \in 0..n |-> IF i = 0 THEN 0 ELSE g[i - 1] + s[i].len]
           sum == CHOOSE g : g = Step(g)
<1>1. n \in Nat /\ n \in 0..n
  BY LenProperties
<1>2. /\ f \in [0..n -> Nat] /\ f[0] = 0
      /\ \A i \in 1..n : f[i] = f[i - 1] + s[i].len
  BY DEF IsSum
<1>3. f = Step(f)
  <2>1. ASSUME NEW i \in 0..n PROVE f[i] = Step(f)[i]
    <3>1. i = 0 \/ i \in 1..n
      BY <1>1
    <3> QED
      BY <1>2, <3>1
  <2> QED
    BY <1>2, <2>1
<1>4. sum = Step(sum)
  <2> HIDE DEF Step
  <2> QED
    BY <1>3
<1>5. ASSUME NEW i \in 0..n PROVE sum[i] = f[i]
  <2> DEFINE Wrong == {j \in 0..n : sum[j] # f[j]}
  <2> SUFFICES ASSUME Wrong # {} PROVE FALSE
    OBVIOUS
  <2>1. PICK j \in Wrong : \A k \in Wrong : j <= k
    <3>1. Wrong \subseteq Nat
      OBVIOUS
    <3> HIDE DEF Wrong
    <3> QED
      BY <3>1, QF!LeastPosition
  <2>2. j \in 0..n /\ sum[j] # f[j]
        /\ sum[j] = IF j = 0 THEN 0 ELSE sum[j - 1] + s[j].len
    <3> HIDE DEF sum
    <3> QED
      BY <1>4
  <2> HIDE DEF sum, Step
  <2>3. j # 0
    BY <1>2, <2>2
  <2>4. j \in 1..n /\ j - 1 \in 0..n /\ ~(j <= j - 1)
    BY <1>1, <2>2, <2>3
  <2>5. sum[j - 1] = f[j - 1]
    BY <2>1, <2>4
  <2> QED
    BY <1>2, <2>2, <2>3, <2>4, <2>5
<1>6. Bytes(s) = sum[n]
  BY DEF Bytes
<1> HIDE DEF sum
<1> QED
  BY <1>1, <1>5, <1>6

\* And there is always one: a prefix without a sum would have a shortest one.
LEMMA SumExists ==
  ASSUME NEW s \in Seq(Transmission)
  PROVE  \E f : IsSum(f, s)
<1> DEFINE n == Len(s)
           Adds(f, m) == /\ f[0] = 0
                         /\ \A i \in 1..m : f[i] = f[i - 1] + s[i].len
           Wrong == {m \in 0..n : ~ \E f \in [0..m -> Nat] : Adds(f, m)}
<1>1. n \in Nat /\ n \in 0..n
  BY LenProperties
<1>2. \A i \in 1..n : s[i].len \in Nat
  <2>1. \A i \in 1..n : s[i] \in Transmission
    BY ElementOfSeq
  <2> QED
    BY <2>1, TerminalAssumption DEF Transmission
<1>3. Wrong = {}
  <2> SUFFICES ASSUME Wrong # {} PROVE FALSE
    OBVIOUS
  <2>1. PICK m \in Wrong : \A k \in Wrong : m <= k
    <3>1. Wrong \subseteq Nat
      OBVIOUS
    <3> HIDE DEF Wrong
    <3> QED
      BY <3>1, QF!LeastPosition
  <2>2. m \in 0..n /\ ~ \E f \in [0..m -> Nat] : Adds(f, m)
    OBVIOUS
  <2>3. m # 0
    <3>1. PICK f : f = [i \in 0..0 |-> 0]
      OBVIOUS
    <3>2. f \in [0..0 -> Nat] /\ Adds(f, 0)
      BY <3>1
    <3> HIDE DEF Adds
    <3> QED
      BY <2>2, <3>2
  <2>4. m \in 1..n /\ m - 1 \in 0..n /\ ~(m <= m - 1) /\ m \in Nat
    BY <1>1, <2>2, <2>3
  <2>5. m - 1 \notin Wrong
    <3> HIDE DEF Wrong
    <3> QED
      BY <2>1, <2>4
  <2>6. PICK f \in [0..(m - 1) -> Nat] : Adds(f, m - 1)
    <3> HIDE DEF Adds
    <3> QED
      BY <2>4, <2>5
  <2>7. PICK g : g = [i \in 0..m |-> IF i = m THEN f[m - 1] + s[m].len ELSE f[i]]
    OBVIOUS
  <2>8. \A i \in 0..m : g[i] = IF i = m THEN f[m - 1] + s[m].len ELSE f[i]
    BY <2>7
  <2>9. f[m - 1] \in Nat /\ s[m].len \in Nat
    BY <1>2, <2>4, <2>6
  <2>10. g \in [0..m -> Nat]
    <3>1. \A i \in 0..m : g[i] \in Nat
      <4> TAKE i \in 0..m
      <4>1. i = m \/ i \in 0..(m - 1)
        BY <2>4
      <4> QED
        BY <2>6, <2>8, <2>9, <4>1
    <3> QED
      BY <2>7, <3>1
  <2>11. Adds(g, m)
    <3>1. g[0] = 0
      BY <2>4, <2>6, <2>8
    <3>2. ASSUME NEW i \in 1..m PROVE g[i] = g[i - 1] + s[i].len
      <4>1. i \in 0..m /\ i - 1 \in 0..m /\ i - 1 # m /\ (i = m \/ i \in 1..(m - 1))
        BY <2>4
      <4> QED
        BY <2>6, <2>8, <4>1
    <3> QED
      BY <3>1, <3>2
  <2> HIDE DEF Adds
  <2> QED
    BY <2>2, <2>10, <2>11
<1>4. PICK f \in [0..n -> Nat] : Adds(f, n)
  <2> HIDE DEF Adds
  <2> QED
    BY <1>1, <1>3
<1>5. IsSum(f, s)
  BY <1>4 DEF IsSum
<1> QED
  BY <1>5

\* Joining two sequences adds their sums.
LEMMA BytesJoined ==
  ASSUME NEW s \in Seq(Transmission), NEW u \in Seq(Transmission)
  PROVE  Bytes(s \o u) = Bytes(s) + Bytes(u)
<1> DEFINE r == s \o u
           m == Len(s)
           n == Len(u)
<1>1. /\ r \in Seq(Transmission) /\ Len(r) = m + n
      /\ \A i \in 1..(m + n) : r[i] = IF i <= m THEN s[i] ELSE u[i - m]
  BY ConcatProperties
<1>2. m \in Nat /\ n \in Nat
  BY LenProperties
<1>3. PICK f : IsSum(f, s)
  BY SumExists
<1>4. PICK g : IsSum(g, u)
  BY SumExists
<1>5. Bytes(s) = f[m] /\ Bytes(u) = g[n]
  BY <1>3, <1>4, SumIs
<1>6. /\ f \in [0..m -> Nat] /\ f[0] = 0 /\ (\A i \in 1..m : f[i] = f[i - 1] + s[i].len)
      /\ g \in [0..n -> Nat] /\ g[0] = 0 /\ (\A i \in 1..n : g[i] = g[i - 1] + u[i].len)
  BY <1>3, <1>4 DEF IsSum
<1> HIDE DEF r, m, n
<1>7. PICK h : h = [i \in 0..(m + n) |-> IF i <= m THEN f[i] ELSE f[m] + g[i - m]]
  OBVIOUS
<1>8. \A i \in 0..(m + n) : h[i] = IF i <= m THEN f[i] ELSE f[m] + g[i - m]
  BY <1>7
<1>9. f[m] \in Nat /\ g[n] \in Nat
  BY <1>2, <1>6
<1>10. h \in [0..(m + n) -> Nat]
  <2>1. \A i \in 0..(m + n) : h[i] \in Nat
    <3> TAKE i \in 0..(m + n)
    <3>1. i \in 0..m \/ (i - m \in 0..n /\ ~(i <= m))
      BY <1>2
    <3>2. i \in 0..m => i <= m
      BY <1>2
    <3> QED
      BY <1>6, <1>8, <1>9, <3>1, <3>2
  <2> QED
    BY <1>7, <2>1
<1>11. h[0] = 0 /\ h[m + n] = f[m] + g[n]
  <2>1. 0 <= m /\ 0 \in 0..(m + n) /\ m + n \in 0..(m + n) /\ (m + n) - m = n
    BY <1>2
  <2>2. m + n <= m => n = 0 /\ m + n = m
    BY <1>2
  <2> QED
    BY <1>6, <1>8, <1>9, <2>1, <2>2
<1>12. ASSUME NEW i \in 1..(m + n) PROVE h[i] = h[i - 1] + r[i].len
  <2>1. i \in 0..(m + n) /\ i - 1 \in 0..(m + n)
    BY <1>2
  <2>2. CASE i <= m
    <3>1. i \in 1..m /\ i - 1 <= m
      BY <1>2, <2>2
    <3> QED
      BY <1>1, <1>6, <1>8, <2>1, <2>2, <3>1
  <2>3. CASE ~(i <= m)
    <3> DEFINE k == i - m
    <3>1. k \in 1..n /\ (i - 1) - m = k - 1 /\ k - 1 \in 0..n
      BY <1>2, <2>3
    <3>2. r[i] = u[k] /\ h[i] = f[m] + g[k]
      BY <1>1, <1>8, <2>1, <2>3
    <3>3. h[i - 1] = f[m] + g[k - 1]
      <4>1. CASE k = 1
        <5>1. i - 1 = m /\ i - 1 <= m /\ k - 1 = 0
          BY <1>2, <4>1
        <5> QED
          BY <1>6, <1>8, <1>9, <2>1, <5>1
      <4>2. CASE k # 1
        <5>1. ~(i - 1 <= m)
          BY <1>2, <2>3, <4>2
        <5> QED
          BY <1>8, <2>1, <3>1, <5>1
      <4> QED
        BY <4>1, <4>2
    <3>4. g[k] = g[k - 1] + u[k].len
      BY <1>6, <3>1
    <3>5. g[k - 1] \in Nat /\ u[k].len \in Nat
      <4>1. u[k] \in Transmission
        BY <3>1, ElementOfSeq DEF n
      <4> QED
        BY <1>6, <3>1, <4>1, TerminalAssumption DEF Transmission
    <3> HIDE DEF k
    <3> QED
      BY <1>9, <3>2, <3>3, <3>4, <3>5
  <2> QED
    BY <2>2, <2>3
<1>13. IsSum(h, r)
  BY <1>1, <1>10, <1>11, <1>12 DEF IsSum
<1> QED
  BY <1>1, <1>5, <1>11, <1>13, SumIs DEF r

\* The pieces of a buffer: after i whole lines i * TERMINAL_MAX_LINE bytes are
\* on their way, and after the last piece all of them.
LEMMA PiecesWhole ==
  ASSUME NEW len \in Lens, NEW x \in Seq(Transmission),
         Len(x) = Len(Pieces(len)),
         \A i \in 1..Len(x) : x[i].len = Pieces(len)[i]
  PROVE  Bytes(x) = len
<1> DEFINE b == TERMINAL_MAX_LINE
           n == (len + b - 1) \div b
<1>1. b \in Nat /\ b > 0 /\ len \in Nat /\ len > 0 /\ len + b - 1 \in Nat
  BY TerminalAssumption
<1>2. n \in Nat /\ n * b <= len + b - 1 /\ len + b - 1 < n * b + b
  BY <1>1, Quotient
<1>3. n * b \in Nat /\ Pieces(len) = [i \in 1..n |-> CopyAmount(len - (i - 1) * b)]
  BY <1>1, <1>2 DEF Pieces
<1> HIDE DEF n, b
<1>4. n > 0 /\ n * b < len + b /\ len <= n * b
  <2>1. n # 0
    BY <1>1, <1>2
  <2> QED
    BY <1>1, <1>2, <1>3, <2>1
<1>5. Len(x) = n
  <2>1. Pieces(len) \in Seq(1..TERMINAL_MAX_LINE) /\ DOMAIN Pieces(len) = 1..n
    BY <1>3, PiecesFit
  <2> QED
    BY <1>2, <2>1, LenProperties
<1>6. PICK g : g = [i \in 0..n |-> IF i = n THEN len ELSE i * b]
  OBVIOUS
<1>7. \A i \in 0..n : g[i] = IF i = n THEN len ELSE i * b
  BY <1>6
<1>8. \A i \in 0..n : i * b \in Nat
  BY <1>1, <1>2
<1>9. g \in [0..n -> Nat] /\ g[0] = 0 /\ g[n] = len
  <2>1. 0 \in 0..n /\ n \in 0..n /\ 0 # n /\ 0 * b = 0
    BY <1>1, <1>2, <1>4
  <2> QED
    BY <1>1, <1>6, <1>7, <1>8, <2>1
<1>10. ASSUME NEW i \in 1..n PROVE g[i] = g[i - 1] + x[i].len
  <2> DEFINE d == (i - 1) * b
  <2>1. i \in 0..n /\ i - 1 \in 0..n /\ i - 1 # n
    BY <1>2
  <2>2. d \in Nat /\ i * b = d + b
    <3>1. PICK j \in Nat : i = j + 1 /\ i - 1 = j
      <4>1. i - 1 \in Nat /\ i = (i - 1) + 1
        BY <1>2
      <4> QED
        BY <4>1
    <3>2. (j + 1) * b = j * b + b /\ j * b \in Nat
      BY <1>1
    <3> QED
      BY <3>1, <3>2
  <2>3. i # n => i * b + b <= n * b
    <3> SUFFICES ASSUME i # n PROVE i * b + b <= n * b
      OBVIOUS
    <3>1. PICK k \in Nat : n = (i + 1) + k
      <4>1. n - (i + 1) \in Nat /\ n = (i + 1) + (n - (i + 1))
        BY <1>2
      <4> QED
        BY <4>1
    <3>2. i \in Nat /\ ((i + 1) + k) * b = i * b + b + k * b /\ k * b \in Nat /\ i * b \in Nat
      BY <1>1
    <3> QED
      BY <1>1, <3>1, <3>2
  <2>4. x[i].len = CopyAmount(len - d) /\ g[i - 1] = d
    BY <1>3, <1>5, <1>7, <2>1
  <2>5. g[i] = IF i = n THEN len ELSE d + b
    BY <1>7, <2>1, <2>2
  <2>6. CopyAmount(len - d) = IF len - d > b THEN b ELSE len - d
    BY DEF CopyAmount, b
  <2> HIDE DEF d
  <2>7. CASE i = n
    <3>1. len <= d + b
      BY <1>4, <2>2, <2>7
    <3> QED
      BY <1>1, <2>2, <2>4, <2>5, <2>6, <2>7, <3>1
  <2>8. CASE i # n
    <3>1. d + b < len
      BY <1>1, <1>3, <1>4, <2>2, <2>3, <2>8
    <3> QED
      BY <1>1, <2>2, <2>4, <2>5, <2>6, <2>8, <3>1
  <2> QED
    BY <2>7, <2>8
<1>11. IsSum(g, x)
  BY <1>5, <1>9, <1>10 DEF IsSum
<1> QED
  BY <1>5, <1>9, <1>11, SumIs
-----------------------------------------------------------------------------
(* Step by step.                                                           *)

\* The last transmission under way is one of those under way.
LEMMA LastUnderWay ==
  ASSUME IInv, NEW t \in Tty, transmitting[t] # <<>>
  PROVE  Last(transmitting[t]).pid \in 1..MAX_PID /\ Last(transmitting[t]).pid <= last_pid
<1> DEFINE s == transmitting[t]
<1>1. s \in Seq(Transmission)
  BY DEF IInv, TypeOK
<1>2. Len(s) \in 1..Len(s) /\ DOMAIN s = 1..Len(s)
  BY <1>1, EmptySeq, LenProperties
<1>3. s[Len(s)] \in Transmission
  BY <1>1, <1>2, ElementOfSeq
<1> QED
  BY <1>2, <1>3 DEF Last, IInv, Pids, Transmission

\* While processes come and go the waiting ones stay, and so do the pids of the
\* transmissions under way, if no pid is given twice.
LEMMA LifeStep ==
  ASSUME IInv, UNCHANGED <<waiting_process, blocks, transmitting, input>>,
         last_pid \in Nat, last_pid' \in Nat, last_pid <= last_pid',
         \A q \in Pcb : pid'[q] = pid[q] \/ pid'[q] = 0 \/ pid'[q] > last_pid
  PROVE  /\ WaitingForTransmission'
         /\ \A t \in Tty : \A i \in DOMAIN transmitting'[t] : transmitting'[t][i].pid <= last_pid'
<1>1. \A t \in Tty : \A i \in DOMAIN transmitting[t] : transmitting[t][i].pid \in Nat
  <2> SUFFICES ASSUME NEW t \in Tty, NEW i \in DOMAIN transmitting[t]
               PROVE  transmitting[t][i].pid \in Nat
    OBVIOUS
  <2>1. transmitting[t] \in Seq(Transmission)
    BY DEF IInv, TypeOK
  <2>2. transmitting[t][i] \in Transmission
    BY <2>1, LenProperties, ElementOfSeq
  <2> QED
    BY <2>2, TerminalAssumption DEF Transmission
<1>2. \A t \in Tty : \A i \in DOMAIN transmitting'[t] : transmitting'[t][i].pid <= last_pid'
  BY <1>1 DEF IInv, Pids
<1>3. ASSUME blocks' < HEAP_BLOCKS, NEW t \in Tty, waiting_process'[t] # NULL
      PROVE  /\ transmitting'[t] # <<>>
             /\ \/ pid'[waiting_process'[t]] = Last(transmitting'[t]).pid
                \/ \A q \in Pcb : pid'[q] # Last(transmitting'[t]).pid
  <2> DEFINE p == waiting_process[t]
             sender == Last(transmitting[t]).pid
  <2>1. /\ transmitting[t] # <<>> /\ p \in Pcb
        /\ pid[p] = sender \/ \A q \in Pcb : pid[q] # sender
    BY <1>3 DEF IInv, TypeOK, WaitingForTransmission
  <2>2. sender \in Nat /\ sender > 0 /\ sender <= last_pid
    BY <2>1, LastUnderWay, TerminalAssumption
  <2>3. \A q \in Pcb : pid'[q] = sender => pid[q] = sender
    BY <2>2
  <2> HIDE DEF sender
  <2>4. pid'[p] = sender \/ \A q \in Pcb : pid'[q] # sender
    <3>1. CASE pid[p] = sender
      <4>1. \A q \in Pcb : pid[q] = sender => q = p
        BY <2>1, <2>2, <3>1 DEF IInv, TypeOK
      <4> QED
        BY <2>3, <4>1
    <3>2. CASE \A q \in Pcb : pid[q] # sender
      BY <2>3, <3>2
    <3> QED
      BY <2>1, <3>1, <3>2
  <2> QED
    BY <2>1, <2>4 DEF sender
<1>4. WaitingForTransmission'
  BY <1>3 DEF WaitingForTransmission
<1> QED
  BY <1>2, <1>4

LEMMA SpawnStep == IInv /\ spawn_proc => IInv'
<1> SUFFICES ASSUME IInv, spawn_proc PROVE IInv'
  OBVIOUS
<1>1. PICK new \in Pcb : /\ pstate[new] = "none"
                         /\ pstate' = [pstate EXCEPT ![new] = "live"]
                         /\ pid' = [pid EXCEPT ![new] = last_pid + 1]
  BY DEF spawn_proc
<1>2. /\ last_pid < MAX_PID /\ last_pid' = last_pid + 1
      /\ UNCHANGED <<waiting_process, blocks, transmitting, input>>
      /\ last_pid \in Nat /\ last_pid > 0 /\ last_pid + 1 \in 1..MAX_PID /\ MAX_PID \in Nat
  BY TerminalAssumption DEF spawn_proc, IInv, TypeOK
<1>3. /\ pid'[new] = last_pid + 1
      /\ \A q \in Pcb \ {new} : pid'[q] = pid[q] /\ pstate'[q] = pstate[q]
      /\ pstate'[new] = "live"
      /\ \A q \in Pcb : pid[q] \in Nat /\ pid[q] <= last_pid
  BY <1>1, <1>2 DEF IInv, TypeOK, Pids
<1>4. /\ WaitingForTransmission'
      /\ \A t \in Tty : \A i \in DOMAIN transmitting'[t] : transmitting'[t][i].pid <= last_pid'
  BY <1>2, <1>3, LifeStep
<1>5. TypeOK'
  <2>1. pstate' \in [Pcb -> {"none", "live", "zombie"}] /\ pid' \in [Pcb -> 0..MAX_PID]
    BY <1>1, <1>2 DEF IInv, TypeOK
  <2>2. \A p, q \in Pcb : pid'[p] = pid'[q] /\ pid'[p] # 0 => p = q
    BY <1>2, <1>3 DEF IInv, TypeOK
  <2> QED
    BY <1>2, <2>1, <2>2 DEF IInv, TypeOK, input
<1>6. Pids'
  <2>1. \A q \in Pcb : pid'[q] <= last_pid' /\ (pid'[q] = 0 <=> pstate'[q] = "none")
    BY <1>2, <1>3 DEF IInv, Pids
  <2> QED
    BY <1>4, <2>1 DEF Pids
<1> QED
  BY <1>4, <1>5, <1>6 DEF IInv

LEMMA ExitStep ==
  ASSUME IInv, NEW p \in Pcb, KernelExit(p) \/ free_proc(p) PROVE IInv'
<1>1. /\ last_pid' = last_pid /\ last_pid \in Nat
      /\ UNCHANGED <<waiting_process, blocks, transmitting, input>>
  BY DEF KernelExit, free_proc, IInv, TypeOK
<1>2. /\ pstate' \in [Pcb -> {"none", "live", "zombie"}] /\ pid' \in [Pcb -> 0..MAX_PID]
      /\ \A q \in Pcb : pid'[q] = pid[q] \/ pid'[q] = 0
      /\ \A q \in Pcb : pid'[q] = 0 <=> pstate'[q] = "none"
  <2>1. CASE KernelExit(p)
    BY <2>1 DEF KernelExit, Runs, IInv, TypeOK, Pids
  <2>2. CASE free_proc(p)
    <3>1. 0 \in 0..MAX_PID
      BY TerminalAssumption
    <3> QED
      BY <2>2, <3>1 DEF free_proc, IInv, TypeOK, Pids
  <2> QED
    BY <2>1, <2>2
<1>3. /\ WaitingForTransmission'
      /\ \A t \in Tty : \A i \in DOMAIN transmitting'[t] : transmitting'[t][i].pid <= last_pid'
  BY <1>1, <1>2, LifeStep
<1>4. TypeOK'
  <2>1. \A q, r \in Pcb : pid'[q] = pid'[r] /\ pid'[q] # 0 => q = r
    BY <1>2 DEF IInv, TypeOK
  <2> QED
    BY <1>1, <1>2, <2>1 DEF IInv, TypeOK, input
<1>5. Pids'
  <2>1. \A q \in Pcb : pid'[q] <= last_pid'
    BY <1>1, <1>2 DEF IInv, Pids
  <2> QED
    BY <1>2, <1>3, <2>1 DEF Pids
<1> QED
  BY <1>3, <1>4, <1>5 DEF IInv

\* The caller of TtyWrite is the one whose transmission began last, and has a pid.
LEMMA WriteStep ==
  ASSUME IInv, NEW p \in Pcb, NEW t \in Tty, NEW len \in Lens, KernelTtyWrite(p, t, len)
  PROVE  IInv'
<1> DEFINE x == [i \in DOMAIN Pieces(len) |-> [pid |-> pid[p], len |-> Pieces(len)[i]]]
           s == transmitting[t]
<1>1. /\ pstate[p] = "live"
      /\ waiting_process' = [waiting_process EXCEPT ![t] = p]
      /\ transmitting' = [transmitting EXCEPT ![t] = s \o x]
      /\ UNCHANGED <<processes, blocks, input>>
  BY DEF KernelTtyWrite, Runs, NewWaiting
<1>2. pid[p] \in 1..MAX_PID /\ pid[p] <= last_pid
  BY <1>1, TerminalAssumption DEF IInv, TypeOK, Pids
<1>3. /\ x \in Seq(Transmission) /\ x # <<>>
      /\ \A i \in DOMAIN x : x[i].pid = pid[p]
      /\ Last(x).pid = pid[p]
  BY <1>2, Transmissions
<1> HIDE DEF x
<1>4. s \in Seq(Transmission)
  BY DEF IInv, TypeOK
<1>5. /\ s \o x \in Seq(Transmission) /\ s \o x # <<>> /\ Last(s \o x).pid = pid[p]
      /\ \A i \in DOMAIN (s \o x) : (s \o x)[i].pid <= last_pid
  <2> DEFINE Given == {y \in Transmission : y.pid <= last_pid}
  <2>1. \A i \in DOMAIN s : s[i] \in Given
    BY <1>4, LenProperties, ElementOfSeq DEF IInv, Pids
  <2>2. \A i \in DOMAIN x : x[i] \in Given
    BY <1>2, <1>3, LenProperties, ElementOfSeq
  <2>3. \A y \in Given : y.pid <= last_pid
    OBVIOUS
  <2> HIDE DEF Given
  <2>4. \A i \in DOMAIN (s \o x) : (s \o x)[i] \in Given
    BY <1>3, <1>4, <2>1, <2>2, Joined
  <2>5. s \o x \in Seq(Transmission) /\ s \o x # <<>> /\ Last(s \o x) = Last(x)
    BY <1>3, <1>4, Joined
  <2> QED
    BY <1>3, <2>3, <2>4, <2>5
<1>6. /\ transmitting' \in [Tty -> Seq(Transmission)]
      /\ transmitting'[t] = s \o x
      /\ \A u \in Tty \ {t} : transmitting'[u] = transmitting[u]
  BY <1>1, <1>5 DEF IInv, TypeOK
<1>7. /\ waiting_process' \in [Tty -> Pcb \cup {NULL}]
      /\ waiting_process'[t] = p
      /\ \A u \in Tty \ {t} : waiting_process'[u] = waiting_process[u]
  BY <1>1 DEF IInv, TypeOK
<1>8. TypeOK'
  BY <1>1, <1>6, <1>7 DEF IInv, TypeOK, processes, input
<1>9. Pids'
  BY <1>1, <1>5, <1>6 DEF IInv, Pids, processes
<1>10. WaitingForTransmission'
  BY <1>1, <1>5, <1>6, <1>7 DEF IInv, WaitingForTransmission, processes
<1> QED
  BY <1>1, <1>8, <1>9, <1>10 DEF IInv

LEMMA WriteNoBufferStep ==
  ASSUME IInv, NEW p \in Pcb, NEW t \in Tty, KernelTtyWriteNoBuffer(p, t)
  PROVE  IInv'
<1>1. /\ waiting_process' = [waiting_process EXCEPT ![t] = p]
      /\ blocks = HEAP_BLOCKS
      /\ UNCHANGED <<processes, blocks, transmitting, input>>
  BY DEF KernelTtyWriteNoBuffer, NewWaiting
<1>2. TypeOK'
  BY <1>1 DEF IInv, TypeOK, processes, input
<1>3. Pids'
  BY <1>1 DEF IInv, Pids, processes
<1>4. WaitingForTransmission'
  <2>1. ~(blocks' < HEAP_BLOCKS)
    BY <1>1, TerminalAssumption
  <2> QED
    BY <2>1 DEF WaitingForTransmission
<1> QED
  BY <1>1, <1>2, <1>3, <1>4 DEF IInv

\* A transmission that ends leaves nobody waiting.
LEMMA TransmitTrapStep ==
  ASSUME IInv, NEW t \in Tty, HandleTransmitTrap(t)
  PROVE  IInv'
<1> DEFINE s == transmitting[t]
<1>1. /\ s # <<>> /\ s \in Seq(Transmission)
      /\ transmitting' = [transmitting EXCEPT ![t] = Tail(s)]
      /\ waiting_process' = [waiting_process EXCEPT ![t] = NULL]
      /\ UNCHANGED <<processes, blocks, input>>
  BY DEF HandleTransmitTrap, AfterTransmit, IInv, TypeOK
<1>2. /\ Tail(s) \in Seq(Transmission)
      /\ \A i \in DOMAIN Tail(s) : Tail(s)[i].pid <= last_pid
  <2> DEFINE Given == {y \in Transmission : y.pid <= last_pid}
  <2>1. \A i \in DOMAIN s : s[i] \in Given
    BY <1>1, LenProperties, ElementOfSeq DEF IInv, Pids
  <2>2. \A y \in Given : y.pid <= last_pid
    OBVIOUS
  <2> HIDE DEF Given
  <2>3. Tail(s) \in Seq(Transmission) /\ \A i \in DOMAIN Tail(s) : Tail(s)[i] \in Given
    BY <1>1, <2>1, Rest
  <2> QED
    BY <2>2, <2>3
<1>3. /\ transmitting' \in [Tty -> Seq(Transmission)]
      /\ transmitting'[t] = Tail(s)
      /\ \A u \in Tty \ {t} : transmitting'[u] = transmitting[u]
      /\ waiting_process' \in [Tty -> Pcb \cup {NULL}]
      /\ waiting_process'[t] = NULL
      /\ \A u \in Tty \ {t} : waiting_process'[u] = waiting_process[u]
  BY <1>1, <1>2 DEF IInv, TypeOK
<1>4. TypeOK'
  BY <1>1, <1>3 DEF IInv, TypeOK, processes, input
<1>5. Pids'
  BY <1>1, <1>2, <1>3 DEF IInv, Pids, processes
<1>6. WaitingForTransmission'
  BY <1>1, <1>3 DEF IInv, WaitingForTransmission, processes
<1> QED
  BY <1>1, <1>4, <1>5, <1>6 DEF IInv

\* What is typed, read or taken changes nothing for those who wait to write.
LEMMA InputStep ==
  ASSUME IInv, UNCHANGED <<processes, waiting_process, transmitting>>,
         messages' \in [Tty -> Seq({CLEARED, NULL} \cup 1..MAX_LINES)],
         blocks' \in 0..HEAP_BLOCKS, blocks <= blocks',
         lines' \in [Tty -> Seq(1..MAX_LINES)], typed' \in [Tty -> 0..MAX_LINES],
         delivered' \in [Tty -> SUBSET (1..MAX_LINES)]
  PROVE  IInv'
<1>1. TypeOK'
  BY DEF IInv, TypeOK, processes
<1>2. Pids'
  BY DEF IInv, Pids, processes
<1>3. WaitingForTransmission'
  <2>1. blocks' < HEAP_BLOCKS => blocks < HEAP_BLOCKS
    BY TerminalAssumption DEF IInv, TypeOK
  <2> QED
    BY <2>1 DEF IInv, WaitingForTransmission, processes
<1> QED
  BY <1>1, <1>2, <1>3 DEF IInv

LEMMA TypeLineStep ==
  ASSUME IInv, NEW t \in Tty, TypeLine(t) PROVE IInv'
<1> DEFINE n == typed[t]
           s == lines[t]
<1>1. /\ n < MAX_LINES /\ n \in Nat /\ n + 1 \in 1..MAX_LINES
      /\ s \in Seq(1..MAX_LINES)
      /\ typed' = [typed EXCEPT ![t] = n + 1]
      /\ lines' = [lines EXCEPT ![t] = Append(s, n + 1)]
      /\ UNCHANGED <<processes, waiting_process, messages, blocks, transmitting, delivered>>
  BY TerminalAssumption DEF TypeLine, IInv, TypeOK
<1>2. Append(s, n + 1) \in Seq(1..MAX_LINES)
  BY <1>1, AppendProperties
<1>3. lines' \in [Tty -> Seq(1..MAX_LINES)] /\ typed' \in [Tty -> 0..MAX_LINES]
  BY <1>1, <1>2 DEF IInv, TypeOK
<1>4. blocks' \in 0..HEAP_BLOCKS /\ blocks <= blocks'
  BY <1>1, TerminalAssumption DEF IInv, TypeOK
<1> QED
  BY <1>1, <1>3, <1>4, InputStep DEF IInv, TypeOK

LEMMA ReadStep ==
  ASSUME IInv, NEW p \in Pcb, NEW t \in Tty, KernelTtyRead(p, t) PROVE IInv'
<1> DEFINE s == lines[t]
<1>1. /\ s # <<>> /\ s \in Seq(1..MAX_LINES)
      /\ lines' = [lines EXCEPT ![t] = Tail(s)]
      /\ delivered' = [delivered EXCEPT ![t] = delivered[t] \cup {Head(s)}]
      /\ UNCHANGED <<processes, waiting_process, messages, blocks, transmitting, typed>>
  BY DEF KernelTtyRead, LinesAfterRead, IInv, TypeOK
<1>2. Head(s) \in 1..MAX_LINES /\ Tail(s) \in Seq(1..MAX_LINES)
  BY <1>1, Rest
<1>3. lines' \in [Tty -> Seq(1..MAX_LINES)] /\ delivered' \in [Tty -> SUBSET (1..MAX_LINES)]
  BY <1>1, <1>2 DEF IInv, TypeOK
<1>4. blocks' \in 0..HEAP_BLOCKS /\ blocks <= blocks'
  BY <1>1, TerminalAssumption DEF IInv, TypeOK
<1> QED
  BY <1>1, <1>3, <1>4, InputStep DEF IInv, TypeOK

\* What the receive trap puts in messages are buffers, whatever was there.
LEMMA Overwritten ==
  ASSUME NEW S, NEW old \in Seq(S), NEW new \in Seq(S)
  PROVE  Overwrite(old, new) \in Seq(S)
<1> DEFINE m == Len(new) + 1
           n == Len(old)
<1>1. m \in Nat /\ m > 0 /\ n \in Nat
  BY LenProperties
<1>2. \A i \in m..n : old[i] \in S
  <2>1. \A i \in m..n : i \in 1..n
    BY <1>1
  <2> QED
    BY <2>1, ElementOfSeq
<1> HIDE DEF m, n
<1>3. SubSeq(old, m, n) \in Seq(S)
  BY <1>1, <1>2, SubSeqProperties
<1>4. new \o SubSeq(old, m, n) \in Seq(S)
  BY <1>3, ConcatProperties
<1> QED
  BY <1>4 DEF Overwrite, m, n

\* The receive trap takes lines, of its own terminal only, and uses up the heap.
LEMMA ReceiveTrapStep ==
  ASSUME IInv, NEW t \in Tty, HandleReceiveTrap(t) PROVE IInv'
<1> DEFINE s == lines[t]
           n == Len(s)
           room == HEAP_BLOCKS - blocks
           rest == SubSeq(s, room + 2, n)
           S == {CLEARED, NULL} \cup 1..MAX_LINES
           all == StoredLines(t, n)
           some == Append(StoredLines(t, room), NULL)
<1>0. s \in Seq(1..MAX_LINES) /\ messages \in [Tty -> Seq(S)]
  BY DEF IInv, TypeOK
<1>1. /\ s # <<>>
      /\ \/ /\ n <= room /\ blocks' = blocks + n
            /\ lines' = [lines EXCEPT ![t] = <<>>]
            /\ messages' = [messages EXCEPT ![t] = Overwrite(messages[t], all)]
         \/ /\ blocks' = HEAP_BLOCKS
            /\ lines' = [lines EXCEPT ![t] = rest]
            /\ messages' = [messages EXCEPT ![t] = Overwrite(messages[t], some)]
      /\ UNCHANGED <<processes, waiting_process, transmitting, typed, delivered>>
  <2>1. IF n <= room
        THEN /\ blocks' = blocks + n
             /\ messages' = [messages EXCEPT ![t] = Overwrite(messages[t], all)]
             /\ lines' = [lines EXCEPT ![t] = <<>>]
        ELSE /\ blocks' = HEAP_BLOCKS
             /\ messages' = [messages EXCEPT ![t] = Overwrite(messages[t], some)]
             /\ lines' = [lines EXCEPT ![t] = rest]
    BY <1>0 DEF HandleReceiveTrap
  <2>2. /\ s # <<>>
        /\ UNCHANGED <<processes, waiting_process, transmitting, typed, delivered>>
    BY DEF HandleReceiveTrap
  <2> HIDE DEF n, room, rest, s, all, some
  <2> QED
    BY <2>1, <2>2
<1>2. /\ n \in Nat /\ blocks \in Nat /\ HEAP_BLOCKS \in Nat /\ blocks <= HEAP_BLOCKS
      /\ room \in Nat
  BY <1>0, LenProperties, TerminalAssumption DEF IInv, TypeOK
<1>3. rest \in Seq(1..MAX_LINES) /\ <<>> \in Seq(1..MAX_LINES)
  <2>1. room + 2 \in Int /\ n \in Int /\ \A i \in (room + 2)..n : i \in 1..n
    BY <1>2
  <2>2. \A i \in (room + 2)..n : s[i] \in 1..MAX_LINES
    BY <1>0, <2>1, ElementOfSeq
  <2> HIDE DEF room, n
  <2>3. SubSeq(s, room + 2, n) \in Seq(1..MAX_LINES)
    BY <2>1, <2>2, SubSeqProperties
  <2> QED
    BY <2>3, EmptySeq
<1>4. all \in Seq(S) /\ some \in Seq(S)
  <2>1. ASSUME NEW k \in Nat PROVE StoredLines(t, k) \in Seq(S)
    <3>1. \A i \in 1..k : Stored(lines[t][i]) \in S
      BY DEF Stored
    <3> QED
      BY <3>1 DEF StoredLines
  <2> HIDE DEF room, n, S
  <2>2. StoredLines(t, n) \in Seq(S) /\ StoredLines(t, room) \in Seq(S)
    BY <1>2, <2>1
  <2>3. NULL \in S
    BY DEF S
  <2> QED
    BY <2>2, <2>3, AppendProperties
<1> HIDE DEF rest, all, some, S
<1>5. Overwrite(messages[t], all) \in Seq(S) /\ Overwrite(messages[t], some) \in Seq(S)
  BY <1>0, <1>4, Overwritten
<1>6. messages' \in [Tty -> Seq(S)]
  BY <1>0, <1>1, <1>5
<1>7. lines' \in [Tty -> Seq(1..MAX_LINES)]
  BY <1>1, <1>3 DEF IInv, TypeOK
<1>8. blocks' \in 0..HEAP_BLOCKS /\ blocks <= blocks'
  <2> HIDE DEF n
  <2> QED
    BY <1>1, <1>2
<1> QED
  BY <1>1, <1>6, <1>7, <1>8, InputStep DEF IInv, TypeOK, S
-----------------------------------------------------------------------------
(* The invariant, and what follows from it.                                *)

LEMMA InitIInv == Init => IInv
<1> SUFFICES ASSUME Init PROVE IInv
  OBVIOUS
<1>1. PICK p \in Pcb : /\ pstate = [q \in Pcb |-> IF q = p THEN "live" ELSE "none"]
                       /\ pid = [q \in Pcb |-> IF q = p THEN 1 ELSE 0]
  BY DEF Init
<1>2. TypeOK
  <2>1. /\ 0 \in 0..MAX_PID /\ 1 \in 0..MAX_PID /\ 1 \in 1..MAX_PID
        /\ 0 \in 0..HEAP_BLOCKS /\ 0 \in 0..MAX_LINES
        /\ <<>> \in Seq(Transmission) /\ <<>> \in Seq(1..MAX_LINES)
        /\ <<>> \in Seq({CLEARED, NULL} \cup 1..MAX_LINES)
    BY TerminalAssumption, EmptySeq
  <2>2. \A q, r \in Pcb : pid[q] = pid[r] /\ pid[q] # 0 => q = r
    BY <1>1
  <2> QED
    BY <1>1, <2>1, <2>2 DEF Init, TypeOK
<1>3. Pids
  BY <1>1 DEF Init, Pids
<1>4. WaitingForTransmission
  BY DEF Init, WaitingForTransmission
<1> QED
  BY <1>2, <1>3, <1>4 DEF IInv

LEMMA NextIInv == IInv /\ [Next]_vars => IInv'
<1> SUFFICES ASSUME IInv, [Next]_vars PROVE IInv'
  OBVIOUS
<1>1. CASE spawn_proc
  BY <1>1, SpawnStep
<1>2. ASSUME NEW p \in Pcb, KernelExit(p) \/ free_proc(p) PROVE IInv'
  BY <1>2, ExitStep
<1>3. ASSUME NEW p \in Pcb, NEW t \in Tty, TtyWrite(p, t) \/ KernelTtyRead(p, t)
      PROVE  IInv'
  BY <1>3, WriteStep, WriteNoBufferStep, ReadStep DEF TtyWrite
<1>4. ASSUME NEW t \in Tty, HandleTransmitTrap(t) \/ TypeLine(t) \/ HandleReceiveTrap(t)
      PROVE  IInv'
  BY <1>4, TransmitTrapStep, TypeLineStep, ReceiveTrapStep
<1>5. CASE UNCHANGED vars
  <2>1. UNCHANGED <<processes, waiting_process, blocks, transmitting, input>>
    BY <1>5 DEF vars
  <2>2. TypeOK' /\ Pids' /\ WaitingForTransmission'
    BY <2>1 DEF IInv, TypeOK, Pids, WaitingForTransmission, processes, input
  <2> QED
    BY <2>2 DEF IInv
<1> QED
  BY <1>1, <1>2, <1>3, <1>4, <1>5 DEF Next

THEOREM Invariance == Spec => []IInv
<1>1. IInv /\ [Next]_vars => IInv'
  BY NextIInv
<1> QED
  BY <1>1, InitIInv, PTL DEF Spec

\* The kernel never takes more buffers than the heap has, and no two processes
\* have one pid.
THEOREM TypeCorrect == Spec => []TypeOK
<1>1. IInv => TypeOK
  BY DEF IInv
<1> QED
  BY <1>1, Invariance, PTL

\* Until the heap is full, a terminal remembers somebody only while it transmits,
\* and it is the last writer or a PCB in its place.
THEOREM WaitingIsForATransmission == Spec => []WaitingForTransmission
<1>1. IInv => WaitingForTransmission
  BY DEF IInv
<1> QED
  BY <1>1, Invariance, PTL

\* TtyWrite hands the hardware what it says it has written, however its loop has
\* to cut the buffer.
THEOREM WritesAreWhole == Spec => WrittenWhole
<1>1. ASSUME IInv, NEW p \in Pcb, NEW t \in Tty, NEW len \in Lens, KernelTtyWrite(p, t, len)
      PROVE  Bytes(transmitting'[t]) = Bytes(transmitting[t]) + len
  <2> DEFINE s == Pieces(len)
             x == [i \in DOMAIN s |-> [pid |-> pid[p], len |-> s[i]]]
  <2>1. pid[p] \in 1..MAX_PID
    <3>1. pid[p] \in 0..MAX_PID /\ pid[p] # 0
      BY <1>1 DEF KernelTtyWrite, Runs, IInv, TypeOK, Pids
    <3> QED
      BY <3>1, TerminalAssumption
  <2>2. transmitting[t] \in Seq(Transmission) /\ transmitting'[t] = transmitting[t] \o x
    BY <1>1 DEF KernelTtyWrite, IInv, TypeOK
  <2>3. x \in Seq(Transmission)
    BY <2>1, Transmissions
  <2>4. Len(x) = Len(s) /\ \A i \in 1..Len(x) : x[i].len = s[i]
    <3>1. s \in Seq(1..TERMINAL_MAX_LINE)
      BY PiecesFit
    <3>2. DOMAIN s = 1..Len(s) /\ Len(s) \in Nat
      BY <3>1, LenProperties
    <3>3. DOMAIN x = DOMAIN s /\ \A i \in DOMAIN s : x[i].len = s[i]
      OBVIOUS
    <3> HIDE DEF x
    <3>4. Len(x) = Len(s)
      BY <2>3, <3>2, <3>3, LenProperties
    <3> QED
      BY <3>2, <3>3, <3>4
  <2>5. Bytes(x) = len
    <3> HIDE DEF x
    <3> QED
      BY <2>3, <2>4, PiecesWhole
  <2> HIDE DEF x
  <2> QED
    BY <2>2, <2>3, <2>5, BytesJoined
<1>2. IInv /\ [Next]_vars =>
        [\A p \in Pcb, t \in Tty, len \in Lens :
           KernelTtyWrite(p, t, len) =>
             Bytes(transmitting'[t]) = Bytes(transmitting[t]) + len]_vars
  BY <1>1
<1> QED
  BY <1>2, Invariance, PTL DEF Spec, WrittenWhole
=============================================================================
