--------------------------- MODULE LogTailProofs ----------------------------
(* Proofs about LogTail, for every number of tails, lines and sizes: what the   *)
(* cache's saved cursor has passed, and what a pane shows after a jump.         *)
EXTENDS LogTail, SequenceTheorems, FiniteSetTheorems, WellFoundedInduction, TLAPS

(* Sequences, as the sets of what they hold.                                    *)

\* A longer sequence holds what its parts do.
LEMMA HeldByConcat ==
    ASSUME NEW S, NEW f \in Seq(S), NEW g \in Seq(S)
    PROVE  f \o g \in Seq(S) /\ ToSet(f \o g) = ToSet(f) \cup ToSet(g)
  <1>1. f \o g \in Seq(S) /\ Len(f \o g) = Len(f) + Len(g)
    OBVIOUS
  <1>2. \A i \in 1 .. Len(f) : (f \o g)[i] = f[i]
    OBVIOUS
  <1>3. \A i \in 1 .. Len(g) : (f \o g)[Len(f) + i] = g[i]
    OBVIOUS
  <1>4. Len(f) \in Nat /\ Len(g) \in Nat /\ DOMAIN f = 1 .. Len(f) /\ DOMAIN g = 1 .. Len(g)
    OBVIOUS
  <1>5. DOMAIN (f \o g) = 1 .. Len(f) + Len(g)
    BY <1>1
  <1>6. ASSUME NEW x \in ToSet(f \o g) PROVE x \in ToSet(f) \cup ToSet(g)
    <2>1. PICK i \in 1 .. Len(f) + Len(g) : x = (f \o g)[i]
      BY <1>5, <1>6 DEF ToSet
    <2>2. CASE i <= Len(f)
      BY <1>2, <1>4, <2>1, <2>2 DEF ToSet
    <2>3. CASE i > Len(f)
      <3>1. i - Len(f) \in 1 .. Len(g) /\ Len(f) + (i - Len(f)) = i
        BY <1>4, <2>1, <2>3
      <3> QED
        BY <1>3, <1>4, <2>1, <3>1 DEF ToSet
    <2> QED
      BY <1>4, <2>1, <2>2, <2>3
  <1>7. ASSUME NEW x \in ToSet(f) PROVE x \in ToSet(f \o g)
    <2>1. PICK i \in 1 .. Len(f) : x = f[i]
      BY <1>4, <1>7 DEF ToSet
    <2> QED
      BY <1>2, <1>4, <1>5, <2>1 DEF ToSet
  <1>8. ASSUME NEW x \in ToSet(g) PROVE x \in ToSet(f \o g)
    <2>1. PICK i \in 1 .. Len(g) : x = g[i]
      BY <1>4, <1>8 DEF ToSet
    <2>2. Len(f) + i \in 1 .. Len(f) + Len(g)
      BY <1>4, <2>1
    <2> QED
      BY <1>3, <1>5, <2>1, <2>2 DEF ToSet
  <1> QED
    BY <1>1, <1>6, <1>7, <1>8

\* Everything of a sequence is in what is kept of it or in what is cut off before.
LEMMA HeldByParts ==
    ASSUME NEW S, NEW f \in Seq(S), NEW k \in 0 .. Len(f)
    PROVE  /\ SubSeq(f, k + 1, Len(f)) \in Seq(S) /\ SubSeq(f, 1, k) \in Seq(S)
           /\ ToSet(f) = ToSet(SubSeq(f, 1, k)) \cup ToSet(SubSeq(f, k + 1, Len(f)))
  <1> DEFINE a == SubSeq(f, 1, k)
             b == SubSeq(f, k + 1, Len(f))
  <1>1. Len(f) \in Nat /\ DOMAIN f = 1 .. Len(f) /\ k \in Nat /\ k <= Len(f)
    OBVIOUS
  <1>2. a \in Seq(S) /\ Len(a) = k /\ \A i \in 1 .. k : a[i] = f[i]
    BY <1>1
  <1>3. b \in Seq(S) /\ Len(b) = Len(f) - k /\ \A i \in 1 .. Len(f) - k : b[i] = f[k + i]
    <2>1. \A i \in k + 1 .. Len(f) : f[i] \in S
      BY <1>1
    <2>2. /\ b \in Seq(S) /\ Len(b) = IF k + 1 <= Len(f) THEN Len(f) - (k + 1) + 1 ELSE 0
          /\ \A i \in 1 .. Len(f) - (k + 1) + 1 : b[i] = f[(k + 1) + i - 1]
      BY <1>1, <2>1, SubSeqProperties
    <2> HIDE DEF b
    <2>3. ASSUME NEW i \in 1 .. Len(f) - k PROVE b[i] = f[k + i]
      <3>1. i \in 1 .. Len(f) - (k + 1) + 1 /\ (k + 1) + i - 1 = k + i
        BY <1>1
      <3> QED
        BY <2>2, <3>1, SMTT(30)
    <2>4. Len(b) = Len(f) - k
      <3> DEFINE m == Len(f)
      <3>1. m \in Nat /\ k \in Nat /\ k <= m /\ Len(b) = IF k + 1 <= m THEN m - (k + 1) + 1 ELSE 0
        BY <1>1, <2>2
      <3> HIDE DEF m
      <3>2. Len(b) = m - k
        BY <3>1
      <3> QED
        BY <3>2 DEF m
    <2>5. b \in Seq(S)
      BY <2>2
    <2> QED
      BY <2>3, <2>4, <2>5
  <1>4. DOMAIN a = 1 .. k /\ DOMAIN b = 1 .. Len(f) - k
    BY <1>2, <1>3
  <1> HIDE DEF a, b
  <1>5. ToSet(a) = {f[i] : i \in 1 .. k}
    BY <1>2, <1>4 DEF ToSet
  <1>6. ToSet(b) = {f[i] : i \in k + 1 .. Len(f)}
    <2>1. ASSUME NEW x \in ToSet(b) PROVE x \in {f[i] : i \in k + 1 .. Len(f)}
      <3>1. PICK i \in 1 .. Len(f) - k : x = b[i]
        BY <1>4, <2>1 DEF ToSet
      <3>2. k + i \in k + 1 .. Len(f) /\ x = f[k + i]
        BY <1>1, <1>3, <3>1
      <3> QED
        BY <3>2
    <2>2. ASSUME NEW i \in k + 1 .. Len(f) PROVE f[i] \in ToSet(b)
      <3>1. i - k \in 1 .. Len(f) - k /\ k + (i - k) = i
        BY <1>1, <2>2
      <3> QED
        BY <1>3, <1>4, <3>1 DEF ToSet
    <2> QED
      BY <2>1, <2>2
  <1>7. 1 .. Len(f) = (1 .. k) \cup (k + 1 .. Len(f))
    BY <1>1
  <1> QED
    BY <1>1, <1>2, <1>3, <1>5, <1>6, <1>7 DEF a, b, ToSet

\* What an entry more adds, at the end or at the beginning.
LEMMA HeldByAppend ==
    ASSUME NEW S, NEW f \in Seq(S), NEW x \in S
    PROVE  /\ Append(f, x) \in Seq(S)
           /\ <<x>> \o f \in Seq(S) /\ ToSet(<<x>> \o f) = ToSet(f) \cup {x}
  <1> DEFINE o == <<x>>
  <1>1. o \in Seq(S) /\ ToSet(o) = {x} /\ Append(f, x) \in Seq(S)
    BY DEF ToSet
  <1> HIDE DEF o
  <1>2. o \o f \in Seq(S) /\ ToSet(o \o f) = ToSet(o) \cup ToSet(f)
    BY <1>1, HeldByConcat
  <1>3. ToSet(o) \cup ToSet(f) = ToSet(f) \cup {x}
    BY <1>1
  <1> QED
    BY <1>1, <1>2, <1>3, Zenon DEF o

LEMMA HeldByAppended ==
    ASSUME NEW S, NEW f \in Seq(S), NEW x \in S
    PROVE  ToSet(Append(f, x)) = ToSet(f) \cup {x}
  <1> DEFINE o == <<x>>
  <1>1. o \in Seq(S) /\ ToSet(o) = {x}
    BY DEF ToSet
  <1>2. Append(f, x) = f \o o
    BY AppendIsConcat
  <1> HIDE DEF o
  <1>3. ToSet(f \o o) = ToSet(f) \cup ToSet(o)
    BY <1>1, HeldByConcat
  <1>4. ToSet(f) \cup ToSet(o) = ToSet(f) \cup {x}
    BY <1>1
  <1> QED
    BY <1>2, <1>3, <1>4, Zenon

LEMMA HeldIsTyped ==
    ASSUME NEW S, NEW f \in Seq(S)
    PROVE  ToSet(f) \subseteq S
  BY DEF ToSet

(* The lines of a set in their order.                                           *)

Enumerates(s, A) ==
    /\ s \in [1 .. Cardinality(A) -> A]
    /\ ToSet(s) = A /\ \A i, j \in DOMAIN s : i < j => s[i] < s[j]

\* A set of numbers up to n has such a sequence: that of the numbers below n, and n.
LEMMA Enumerable ==
    ASSUME NEW n \in Nat
    PROVE  \A A \in SUBSET (1 .. n) : \E s : Enumerates(s, A)
  <1> DEFINE Good(m) == \A A \in SUBSET (1 .. m) : \E s : Enumerates(s, A)
             Bad == {m \in Nat : ~Good(m)}
  <1>1. ASSUME Bad # {} PROVE FALSE
    <2>1. PICK m \in Bad : \A k \in Bad : ~(<<k, m>> \in OpToRel(<, Nat))
      <3>1. Bad \subseteq Nat
        OBVIOUS
      <3> HIDE DEF Bad
      <3> QED
        BY <1>1, <3>1, NatLessThanWellFounded, WFMin
    <2>2. m \in Nat /\ ~Good(m)
      BY <2>1
    <2>3. PICK A \in SUBSET (1 .. m) : ~ \E s : Enumerates(s, A)
      BY <2>2
    <2>4. m # 0
      <3>1. SUFFICES ASSUME m = 0 PROVE FALSE
        OBVIOUS
      <3>2. A = {} /\ Cardinality(A) = 0
        <4>1. A = {}
          BY <2>3, <3>1
        <4> QED
          BY <4>1, FS_EmptySet, Zenon
      <3>3. Enumerates(<< >>, A)
        BY <3>2 DEF Enumerates, ToSet
      <3> QED
        BY <2>3, <3>3
    <2>5. m - 1 \in Nat /\ Good(m - 1)
      <3>1. m - 1 \in Nat /\ m - 1 < m
        BY <2>2, <2>4
      <3>2. <<m - 1, m>> \in OpToRel(<, Nat)
        BY <2>2, <3>1 DEF OpToRel
      <3>3. m - 1 \notin Bad
        BY <2>1, <3>2
      <3> QED
        BY <3>1, <3>3
    <2> DEFINE B == A \ {m}
    <2>6. B \in SUBSET (1 .. m - 1)
      BY <2>2, <2>3, <2>5
    <2>7. PICK s : Enumerates(s, B)
      BY <2>5, <2>6
    <2>8. m \in A
      <3>1. SUFFICES ASSUME m \notin A PROVE FALSE
        OBVIOUS
      <3>2. B = A
        BY <3>1
      <3> QED
        BY <2>3, <2>7, <3>2
    <2>9. IsFiniteSet(B) /\ Cardinality(B) \in Nat /\ Cardinality(A) = Cardinality(B) + 1
      <3>1. IsFiniteSet(B)
        <4>1. 1 \in Int /\ m - 1 \in Int
          BY <2>5
        <4>2. IsFiniteSet(1 .. m - 1)
          BY <4>1, FS_Interval, Zenon
        <4> HIDE DEF B
        <4> QED
          BY <2>6, <4>2, FS_Subset, Zenon
      <3>2. A = B \cup {m} /\ m \notin B
        BY <2>8
      <3> HIDE DEF B
      <3> QED
        BY <3>1, <3>2, FS_AddElement, FS_CardinalityType
    <2> DEFINE c == Cardinality(B)
               t == [i \in 1 .. c + 1 |-> IF i = c + 1 THEN m ELSE s[i]]
    <2>10. s \in [1 .. c -> B] /\ ToSet(s) = B /\ \A i, j \in 1 .. c : i < j => s[i] < s[j]
      BY <2>7 DEF Enumerates
    <2>11. B \subseteq A /\ A = B \cup {m} /\ (\A l \in B : l \in Int /\ l < m) /\ m \in Int
      BY <2>2, <2>3, <2>5, <2>6, <2>8
    <2>12. c \in Nat /\ Cardinality(A) = c + 1
      BY <2>9
    <2> HIDE DEF B, c
    <2>13. t \in [1 .. c + 1 -> A]
      <3>1. \A i \in 1 .. c + 1 : i # c + 1 => i \in 1 .. c
        BY <2>12
      <3> QED
        BY <2>10, <2>11, <3>1
    <2>14. ToSet(t) = A
      <3>1. DOMAIN t = (1 .. c) \cup {c + 1} /\ c + 1 \notin 1 .. c
        BY <2>12
      <3>2. t[c + 1] = m /\ \A i \in 1 .. c : t[i] = s[i]
        BY <2>12, <3>1
      <3>3. DOMAIN s = 1 .. c
        BY <2>10
      <3> HIDE DEF t
      <3> QED
        BY <2>10, <2>11, <3>1, <3>2, <3>3 DEF ToSet
    <2>15. \A i, j \in 1 .. c + 1 : i < j => t[i] < t[j]
      <3>1. SUFFICES ASSUME NEW i \in 1 .. c + 1, NEW j \in 1 .. c + 1, i < j PROVE t[i] < t[j]
        OBVIOUS
      <3>2. i \in 1 .. c /\ t[i] = s[i] /\ s[i] \in B
        BY <2>10, <2>12, <3>1
      <3>3. CASE j = c + 1
        BY <2>11, <2>12, <3>1, <3>2, <3>3
      <3>4. CASE j # c + 1
        BY <2>10, <2>12, <3>1, <3>2, <3>4
      <3> QED
        BY <3>3, <3>4
    <2>16. DOMAIN t = 1 .. c + 1
      OBVIOUS
    <2> HIDE DEF t
    <2>17. Enumerates(t, A)
      BY <2>12, <2>13, <2>14, <2>15, <2>16 DEF Enumerates
    <2> QED
      BY <2>3, <2>17
  <1> QED
    BY <1>1

LEMMA InOrderHolds ==
    ASSUME NEW A \in SUBSET Lines, MaxLines \in Nat
    PROVE  InOrder(A) \in Seq(A) /\ ToSet(InOrder(A)) = A
  <1> DEFINE s == InOrder(A)
  <1>1. \E r : Enumerates(r, A)
    BY Enumerable DEF Lines
  <1>2. Enumerates(s, A)
    BY <1>1, ZenonT(30) DEF Enumerates, InOrder
  <1>3. IsFiniteSet(A) /\ Cardinality(A) \in Nat
    <2>1. 1 \in Int /\ MaxLines \in Int
      OBVIOUS
    <2>2. IsFiniteSet(1 .. MaxLines)
      BY <2>1, FS_Interval, Zenon
    <2>3. IsFiniteSet(A)
      BY <2>2, FS_Subset, Zenon DEF Lines
    <2> QED
      BY <2>3, FS_CardinalityType, Zenon
  <1> HIDE DEF s
  <1>4. s \in Seq(A)
    BY <1>2, <1>3 DEF Enumerates
  <1> QED
    BY <1>2, <1>4 DEF Enumerates, s

(* The cache's file: whole lines, and a torn one at its end.                    *)

LEMMA FileIs ==
    ASSUME NEW f
    PROVE  f \in FileSet <=> /\ f \in Seq({Torn} \cup Lines)
                             /\ \A i \in 1 .. Len(f) : i # Len(f) => f[i] \in Lines
  <1>1. SUFFICES ASSUME f \in Seq({Torn} \cup Lines)
                 PROVE  WholeLines(f) \in Seq(Lines) <=> \A i \in 1 .. Len(f) : i # Len(f) => f[i] \in Lines
    BY DEF FileSet
  <1> DEFINE n == Len(f)
  <1>2. /\ n \in Nat /\ n = Len(f) /\ DOMAIN f = 1 .. n
        /\ \A i \in 1 .. n : f[i] \in {Torn} \cup Lines
    BY <1>1
  <1> HIDE DEF n
  <1>3. CASE EndsTorn(f)
    <2>1. WholeLines(f) = SubSeq(f, 1, n - 1) /\ n - 1 \in Nat
      <3>1. n # 0
        BY <1>1, <1>2, <1>3 DEF EndsTorn
      <3> QED
        BY <1>2, <1>3, <3>1 DEF WholeLines, Front
    <2>2. ASSUME WholeLines(f) \in Seq(Lines) PROVE \A i \in 1 .. n : i # n => f[i] \in Lines
      <3> SUFFICES ASSUME NEW i \in 1 .. n, i # n PROVE f[i] \in Lines
        OBVIOUS
      <3> DEFINE w == WholeLines(f)
      <3>1. Len(w) = n - 1 /\ \A j \in 1 .. n - 1 : w[j] = f[j]
        BY <1>1, <1>2, <2>1
      <3> HIDE DEF w
      <3>2. w[i] \in Lines
        <4>1. i \in 1 .. n - 1
          BY <1>2, <2>2
        <4>2. w \in Seq(Lines)
          BY <2>2 DEF w
        <4> QED
          BY <3>1, <4>1, <4>2
      <3> QED
        BY <1>2, <2>2, <3>1, <3>2
    <2>3. ASSUME \A i \in 1 .. n : i # n => f[i] \in Lines PROVE WholeLines(f) \in Seq(Lines)
      <3>1. \A i \in 1 .. n - 1 : f[i] \in Lines
        BY <1>2, <2>3
      <3>2. 1 \in Int /\ n - 1 \in Int
        BY <1>2
      <3> QED
        BY <2>1, <3>1, <3>2, SubSeqProperties
    <2> QED
      BY <2>2, <2>3 DEF n
  <1>4. CASE ~EndsTorn(f)
    <2>1. WholeLines(f) = f
      BY <1>4 DEF WholeLines
    <2>2. n = 0 \/ f[n] \in Lines
      <3>1. SUFFICES ASSUME n # 0 PROVE f[n] \in Lines
        OBVIOUS
      <3>2. f # << >>
        BY <1>2, <3>1
      <3>3. f[n] # Torn
        BY <1>2, <1>4, <3>2 DEF EndsTorn, Last
      <3>4. n \in 1 .. n
        BY <1>2, <3>1
      <3> QED
        BY <1>2, <3>3, <3>4
    <2>3. ASSUME \A i \in 1 .. n : i # n => f[i] \in Lines PROVE WholeLines(f) \in Seq(Lines)
      <3>1. \A i \in 1 .. n : f[i] \in Lines
        BY <1>2, <2>2, <2>3
      <3>2. f \in [1 .. n -> Lines]
        BY <1>1, <1>2, <3>1
      <3> QED
        BY <1>2, <2>1, <3>2
    <2>4. ASSUME WholeLines(f) \in Seq(Lines) PROVE \A i \in 1 .. n : f[i] \in Lines
      BY <1>2, <2>1, <2>4
    <2> QED
      BY <2>3, <2>4 DEF n
  <1> QED
    BY <1>3, <1>4

LEMMA WholeFile ==
    ASSUME NEW f \in Seq(Lines)
    PROVE  f \in FileSet
  <1>1. f \in Seq({Torn} \cup Lines) /\ \A i \in 1 .. Len(f) : f[i] \in Lines
    OBVIOUS
  <1> QED
    BY <1>1, FileIs

\* A file that does not end torn has whole lines only.
LEMMA NotTorn ==
    ASSUME NEW f \in FileSet, ~EndsTorn(f)
    PROVE  f \in Seq(Lines)
  BY DEF FileSet, WholeLines

LEMMA EmptyFile == << >> \in FileSet
  <1>1. << >> \in Seq(Lines)
    OBVIOUS
  <1> QED
    BY <1>1, WholeFile

LEMMA AppendedFile ==
    ASSUME NEW f \in FileSet, NEW g \in Seq(Lines)
    PROVE  AppendTo(f, g) \in FileSet
  <1>1. CASE EndsTorn(f) /\ g # << >>
    <2>1. Front(f) \in Seq(Lines)
      BY <1>1 DEF FileSet, WholeLines
    <2>2. Tail(g) \in Seq(Lines)
      BY <1>1
    <2> DEFINE a == Front(f)
               b == Tail(g)
    <2>3. AppendTo(f, g) = a \o b
      BY <1>1 DEF AppendTo
    <2> HIDE DEF a, b
    <2>4. a \o b \in Seq(Lines)
      BY <2>1, <2>2 DEF a, b
    <2> QED
      BY <2>3, <2>4, WholeFile
  <1>2. CASE EndsTorn(f) /\ g = << >>
    <2>1. f \in Seq({Torn} \cup Lines)
      BY DEF FileSet
    <2>2. AppendTo(f, g) = f
      BY <1>2, <2>1 DEF AppendTo
    <2> QED
      BY <2>2
  <1>3. CASE ~EndsTorn(f)
    <2>1. f \o g \in Seq(Lines)
      BY <1>3, NotTorn
    <2> QED
      BY <1>3, <2>1, WholeFile DEF AppendTo
  <1> QED
    BY <1>1, <1>2, <1>3

LEMMA TornFile ==
    ASSUME NEW f \in FileSet, ~EndsTorn(f)
    PROVE  Append(f, Torn) \in FileSet
  <1>1. f \in Seq(Lines)
    BY NotTorn
  <1> DEFINE a == Append(f, Torn)
  <1>2. /\ a \in Seq({Torn} \cup Lines) /\ Len(a) = Len(f) + 1
        /\ \A i \in 1 .. Len(f) : a[i] = f[i]
    BY <1>1
  <1>3. Len(f) \in Nat /\ \A i \in 1 .. Len(f) : f[i] \in Lines
    BY <1>1
  <1> HIDE DEF a
  <1>4. \A i \in 1 .. Len(a) : i # Len(a) => a[i] \in Lines
    BY <1>2, <1>3
  <1>5. a \in FileSet
    BY <1>2, <1>4, FileIs
  <1> QED
    BY <1>5 DEF a

\* What is left of a file that is cut from its beginning is a file.
LEMMA CutFile ==
    ASSUME NEW f \in FileSet, NEW k \in 0 .. Len(f)
    PROVE  SubSeq(f, k + 1, Len(f)) \in FileSet
  <1> DEFINE n == Len(f)
             b == SubSeq(f, k + 1, n)
  <1>1. f \in Seq({Torn} \cup Lines) /\ \A i \in 1 .. n : i # n => f[i] \in Lines
    BY FileIs
  <1>2. n \in Nat /\ k \in Nat /\ k <= n /\ \A i \in 1 .. n : f[i] \in {Torn} \cup Lines
    BY <1>1
  <1> HIDE DEF n
  <1>3. /\ b \in Seq({Torn} \cup Lines) /\ Len(b) = IF k + 1 <= n THEN n - (k + 1) + 1 ELSE 0
        /\ \A i \in 1 .. n - (k + 1) + 1 : b[i] = f[(k + 1) + i - 1]
    <2>1. \A i \in k + 1 .. n : f[i] \in {Torn} \cup Lines
      BY <1>2
    <2>2. k + 1 \in Int /\ n \in Int
      BY <1>2
    <2> QED
      BY <2>1, <2>2, SubSeqProperties
  <1> HIDE DEF b
  <1>4. ASSUME NEW i \in 1 .. Len(b), i # Len(b) PROVE b[i] \in Lines
    <2>1. Len(b) = n - k
      BY <1>2, <1>3
    <2>2. i \in 1 .. n - (k + 1) + 1 /\ (k + 1) + i - 1 \in 1 .. n /\ (k + 1) + i - 1 # n
      BY <1>2, <1>4, <2>1
    <2> QED
      BY <1>1, <1>3, <2>2
  <1>5. b \in FileSet
    BY <1>3, <1>4, FileIs
  <1> QED
    BY <1>5 DEF b, n

-----------------------------------------------------------------------------
(* Types.                                                                       *)

LEMMA LinesOfPage ==
    ASSUME MaxLines \in Nat, NEW p \in PageSet
    PROVE  LinesOf(p) \in Seq(Lines) /\ ToSet(LinesOf(p)) = p.from + 1 .. p.to /\ Len(LinesOf(p)) = p.to - p.from
  <1> DEFINE n == p.to - p.from
  <1>1. p.from \in 0 .. MaxLines /\ p.to \in 0 .. MaxLines /\ n \in Nat
    BY DEF PageSet
  <1>2. LinesOf(p) = [i \in 1 .. n |-> p.from + i] /\ p.to = p.from + n
    BY <1>1 DEF LinesOf
  <1> HIDE DEF n
  <1>3. LinesOf(p) \in [1 .. n -> Lines] /\ DOMAIN LinesOf(p) = 1 .. n
    BY <1>1, <1>2 DEF Lines
  <1>4. ToSet(LinesOf(p)) = p.from + 1 .. p.to
    <2>1. ASSUME NEW l \in p.from + 1 .. p.to PROVE l \in ToSet(LinesOf(p))
      <3>1. l - p.from \in 1 .. n /\ p.from + (l - p.from) = l
        BY <1>1, <1>2, <2>1
      <3> QED
        BY <1>2, <1>3, <3>1 DEF ToSet
    <2>2. ASSUME NEW i \in 1 .. n PROVE LinesOf(p)[i] \in p.from + 1 .. p.to
      BY <1>1, <1>2, <2>2
    <2> QED
      BY <1>3, <2>1, <2>2 DEF ToSet
  <1> QED
    BY <1>1, <1>3, <1>4 DEF n

\* A read of the log's end; it is empty only in an empty log.
LEMMA EndPages ==
    ASSUME TailAssumption, log \in 0 .. MaxLines, NEW n \in Nat \ {0}
    PROVE  /\ EndPage(n) \in PageSet /\ EndPage(n).to <= log
           /\ EndPage(n).from = EndPage(n).to => EndPage(n).to = 0
  BY DEF TailAssumption, EndPage, PageSet, Least

\* A read from a cursor starts there.
LEMMA CursorPages ==
    ASSUME TailAssumption, log \in 0 .. MaxLines, NEW c \in Cursors, NEW p \in Pages(c)
    PROVE  /\ p \in PageSet
           /\ c # NoCursor => p.from = c
           /\ c = NoCursor /\ p.from = p.to => p.to = 0
  <1>1. CASE c = NoCursor
    BY <1>1, EndPages DEF Pages, TailAssumption
  <1>2. CASE c # NoCursor /\ (c = stuck \/ c = log)
    BY <1>2 DEF Pages, PageSet, Cursors, NoCursor
  <1>3. CASE c # NoCursor /\ c # stuck /\ c # log
    <2>1. PICK k \in c + 1 .. Least(log, c + PageLines) : p = [from |-> c, to |-> k]
      BY <1>3 DEF Pages
    <2>2. c \in 0 .. MaxLines /\ k \in 0 .. MaxLines /\ c <= k
      BY <1>3, <2>1 DEF Cursors, NoCursor, Least, TailAssumption
    <2> QED
      BY <1>3, <2>1, <2>2 DEF PageSet
  <1> QED
    BY <1>1, <1>2, <1>3

LEMMA UnseenLines ==
    ASSUME MaxLines \in Nat, NEW t, NEW p \in PageSet
    PROVE  /\ Unseen(t, p) \in Seq(Lines)
           /\ ToSet(Unseen(t, p)) = (p.from + 1 .. p.to) \ ToSet(tail[t].shown)
  <1> DEFINE A == (p.from + 1 .. p.to) \ ToSet(tail[t].shown)
  <1>1. A \in SUBSET Lines
    BY DEF PageSet, Lines
  <1> HIDE DEF A
  <1>2. InOrder(A) \in Seq(A) /\ ToSet(InOrder(A)) = A
    BY <1>1, InOrderHolds
  <1>3. InOrder(A) \in Seq(Lines)
    BY <1>1, <1>2
  <1> QED
    BY <1>2, <1>3 DEF A, Unseen

LEMMA ClosedTail ==
    ASSUME TailAssumption
    PROVE  Closed \in TailSet
  <1>1. << >> \in Seq({Gap} \cup Lines) /\ << >> \in Seq(Lines) /\ << >> \in FileSet
    BY EmptyFile
  <1>2. NoPage \in PageSet /\ 1 \in DOMAIN RestartLines /\ 0 \in 0 .. StallPolls
    BY DEF NoPage, PageSet, TailAssumption
  <1> QED
    BY <1>1, <1>2 DEF Closed, TailSet, Cursors

\* One tail moves.
LEMMA OneTail ==
    ASSUME TypeOK, NEW t \in Tails, NEW r \in TailSet, OldFits(r), Becomes(t, r)
    PROVE  /\ tail' \in [Tails -> TailSet] /\ tail'[t] = r
           /\ \A s \in Tails : s # t => tail'[s] = tail[s]
           /\ \A s \in Tails : OldFits(tail'[s])
  <1>1. tail \in [Tails -> TailSet] /\ \A s \in Tails : OldFits(tail[s])
    BY DEF TypeOK
  <1>2. tail' = [tail EXCEPT ![t] = r]
    BY DEF Becomes
  <1>3. tail' \in [Tails -> TailSet] /\ tail'[t] = r /\ \A s \in Tails : s # t => tail'[s] = tail[s]
    BY <1>1, <1>2
  <1> QED
    BY <1>1, <1>3

LEMMA TypeInit ==
    ASSUME TailAssumption, Init
    PROVE  TypeOK
  <1>1. file \in FileSet
    BY EmptyFile DEF Init
  <1>2. tail \in [Tails -> TailSet] /\ \A t \in Tails : OldFits(tail[t])
    <2>1. Closed \in TailSet /\ OldFits(Closed)
      BY ClosedTail DEF Closed, OldFits
    <2> QED
      BY <2>1 DEF Init
  <1>3. /\ log \in 0 .. MaxLines /\ stuck \in Cursors /\ refused \subseteq 0 .. MaxLines
        /\ saved \in Cursors /\ opens \in 0 .. MaxOpens /\ torn \in 0 .. MaxTorn /\ errors \in 0 .. MaxErrors
    BY DEF Init, Cursors, TailAssumption
  <1>4. breaks \subseteq Breaks /\ headMissing \in BOOLEAN /\ skipped \subseteq Lines \X Reasons
    BY DEF Init
  <1> QED
    BY <1>1, <1>2, <1>3, <1>4 DEF TypeOK

\* What is left to show of a step of a tail.
LEMMA KeepsTypes ==
    ASSUME TypeOK, NEW t \in Tails, NEW r \in TailSet, OldFits(r), Becomes(t, r),
           log' = log, stuck' = stuck, breaks' = breaks, refused' \subseteq refused,
           file' \in FileSet, saved' \in Cursors, headMissing' \in BOOLEAN, skipped' \subseteq Lines \X Reasons,
           opens' \in 0 .. MaxOpens, torn' \in 0 .. MaxTorn, errors' \in 0 .. MaxErrors
    PROVE  TypeOK'
  BY OneTail DEF TypeOK

LEMMA Kept ==
    ASSUME TypeOK
    PROVE  /\ UNCHANGED service => log' = log /\ stuck' = stuck /\ breaks' = breaks /\ refused' \subseteq refused
           /\ UNCHANGED disk => file' = file /\ saved' = saved /\ headMissing' = headMissing
           /\ file \in FileSet /\ saved \in Cursors /\ headMissing \in BOOLEAN /\ skipped \subseteq Lines \X Reasons
           /\ opens \in 0 .. MaxOpens /\ torn \in 0 .. MaxTorn /\ errors \in 0 .. MaxErrors
  BY DEF TypeOK, service, disk

\* A hold or an opening more.
LEMMA OneMore ==
    ASSUME TailAssumption, TypeOK, opens < MaxOpens, opens' = opens + 1
    PROVE  opens' \in 0 .. MaxOpens
  BY DEF TypeOK, TailAssumption

\* A write of the cache, done or failed.
LEMMA OneError ==
    ASSUME TailAssumption, TypeOK, Erring
    PROVE  errors' \in 0 .. MaxErrors
  BY DEF TypeOK, TailAssumption, Erring

LEMMA CursorWritten ==
    ASSUME TailAssumption, TypeOK, NEW c \in Cursors, WritesCursor(c)
    PROVE  (saved' = c \/ saved' = saved) /\ saved' \in Cursors /\ errors' \in 0 .. MaxErrors
  BY OneError DEF WritesCursor, TypeOK

LEMMA HeadWritten ==
    ASSUME TailAssumption, TypeOK, WritesHead
    PROVE  headMissing' \in BOOLEAN /\ errors' \in 0 .. MaxErrors
  BY OneError DEF WritesHead, TypeOK

LEMMA ServiceTypes ==
    ASSUME TailAssumption, TypeOK, Grow \/ Refuse \/ \E c \in 0 .. MaxLines : Stick(c)
    PROVE  TypeOK'
  <1>1. CASE Grow
    BY <1>1 DEF Grow, TypeOK, disk, TailAssumption
  <1>2. CASE Refuse
    BY <1>2 DEF Refuse, TypeOK, disk, TailAssumption
  <1>3. ASSUME NEW c \in 0 .. MaxLines, Stick(c) PROVE TypeOK'
    BY <1>3 DEF Stick, TypeOK, disk, TailAssumption, Cursors
  <1> QED
    BY <1>1, <1>2, <1>3

LEMMA FieldTypes ==
    ASSUME TypeOK, NEW t \in Tails
    PROVE  /\ tail[t] \in TailSet /\ tail[t].cur \in Cursors /\ tail[t].shown \in Seq({Gap} \cup Lines)
           /\ tail[t].fresh \in Seq(Lines) /\ tail[t].page \in PageSet /\ tail[t].counted \in {NoCursor} \cup Nat
           /\ tail[t].partial \in BOOLEAN /\ tail[t].polls \in 0 .. StallPolls /\ tail[t].window \in DOMAIN RestartLines
           /\ tail[t].reset \in Cursors /\ tail[t].old \in FileSet
           /\ tail[t].page.from \in 0 .. MaxLines /\ tail[t].page.to \in 0 .. MaxLines /\ tail[t].page.from <= tail[t].page.to
  BY DEF TypeOK, TailSet, PageSet

LEMMA OpenTypes ==
    ASSUME TailAssumption, TypeOK, NEW t \in Tails, Open(t)
    PROVE  TypeOK'
  <1>1. WholeLines(file) \in Seq(Lines) /\ WholeLines(file) \in FileSet
    BY WholeFile DEF TypeOK, FileSet
  <1> DEFINE r == [tail[t] EXCEPT !.pc = "loaded", !.old = WholeLines(file)]
  <1>2. r \in TailSet /\ OldFits(r)
    BY <1>1, FieldTypes, ZenonT(40) DEF TailSet, OldFits
  <1>3. Becomes(t, r) /\ UNCHANGED <<service, disk, skipped, torn, errors>>
    BY DEF Open
  <1>4. opens' \in 0 .. MaxOpens
    BY OneMore DEF Open
  <1> HIDE DEF r
  <1> QED
    BY <1>2, <1>3, <1>4, Kept, KeepsTypes

LEMMA TakeCursorTypes ==
    ASSUME TailAssumption, TypeOK, NEW t \in Tails, TakeCursor(t)
    PROVE  TypeOK'
  <1> DEFINE partial == tail[t].old # << >> /\ headMissing
             first == IF partial THEN <<Gap>> ELSE << >>
             shown == first \o tail[t].old
             r == [tail[t] EXCEPT !.pc = "poll", !.cur = saved, !.partial = partial, !.old = << >>, !.shown = shown]
  <1>1. shown \in Seq({Gap} \cup Lines)
    <2>1. tail[t].old \in Seq(Lines)
      BY DEF TakeCursor, TypeOK, OldFits
    <2>2. tail[t].old \in Seq({Gap} \cup Lines)
      BY <2>1
    <2>3. first \in Seq({Gap} \cup Lines)
      <3>1. <<Gap>> \in Seq({Gap} \cup Lines) /\ << >> \in Seq({Gap} \cup Lines)
        OBVIOUS
      <3> HIDE DEF partial
      <3> QED
        BY <3>1
    <2> HIDE DEF first
    <2> QED
      BY <2>2, <2>3
  <1>2. << >> \in FileSet /\ saved \in Cursors /\ partial \in BOOLEAN
    BY EmptyFile DEF TypeOK
  <1>3. Becomes(t, r) /\ UNCHANGED <<service, disk, skipped, opens, torn, errors>>
    BY DEF TakeCursor
  <1> HIDE DEF shown, partial
  <1>4. r \in TailSet /\ OldFits(r)
    BY <1>1, <1>2, FieldTypes, ZenonT(40) DEF TailSet, OldFits
  <1> HIDE DEF r
  <1> QED
    BY <1>3, <1>4, Kept, KeepsTypes

LEMMA HeldTypes ==
    ASSUME TailAssumption, TypeOK, NEW t \in Tails, Held(t)
    PROVE  TypeOK'
  <1> DEFINE r == [tail[t] EXCEPT !.polls = 0]
  <1>1. tail[t] \in TailSet /\ tail[t].pc = "poll" /\ 0 \in 0 .. StallPolls
    BY FieldTypes DEF Held, Polling, TailAssumption
  <1>2. r \in TailSet /\ OldFits(r)
    BY <1>1 DEF TailSet, OldFits
  <1>3. Becomes(t, r) /\ UNCHANGED <<service, disk, skipped, torn, errors>>
    BY DEF Held
  <1>4. opens' \in 0 .. MaxOpens
    BY OneMore DEF Held
  <1> HIDE DEF r
  <1> QED
    BY <1>2, <1>3, <1>4, Kept, KeepsTypes

LEMMA ReadEndTypes ==
    ASSUME TailAssumption, TypeOK, NEW t \in Tails, ReadEnd(t)
    PROVE  TypeOK'
  <1> DEFINE end == EndPage(RestartLines[tail[t].window])
  <1>1. end \in PageSet
    <2>1. RestartLines[tail[t].window] \in 1 .. Window
      BY FieldTypes DEF TailAssumption
    <2>2. RestartLines[tail[t].window] \in Nat \ {0}
      BY <2>1 DEF TailAssumption
    <2> QED
      BY <2>2, EndPages DEF TypeOK
  <1>2. Unseen(t, end) \in Seq(Lines)
    <2> HIDE DEF end
    <2> QED
      BY <1>1, UnseenLines DEF TailAssumption
  <1>3. tail[t] \in TailSet /\ tail[t].pc = "poll" /\ 0 \in 0 .. StallPolls
    BY FieldTypes DEF ReadEnd, Polling, TailAssumption
  <1>4. Least(tail[t].window + 1, Len(RestartLines)) \in DOMAIN RestartLines
    <2>1. tail[t].window \in 1 .. Len(RestartLines) /\ Len(RestartLines) \in Nat
      BY FieldTypes DEF TailAssumption
    <2> QED
      BY <2>1 DEF Least, TailAssumption
  <1> DEFINE quiet == [tail[t] EXCEPT !.polls = 0, !.window = Least(tail[t].window + 1, Len(RestartLines))]
             fresh == [tail[t] EXCEPT !.polls = 0, !.pc = "confirm", !.page = end, !.fresh = Unseen(t, end)]
  <1>5. Becomes(t, quiet) \/ Becomes(t, fresh)
    BY DEF ReadEnd
  <1>6. UNCHANGED <<service, disk, skipped, opens, torn, errors>>
    BY DEF ReadEnd
  <1> HIDE DEF end
  <1>7. quiet \in TailSet /\ OldFits(quiet)
    BY <1>3, <1>4 DEF TailSet, OldFits
  <1>8. fresh \in TailSet /\ OldFits(fresh)
    BY <1>1, <1>2, <1>3 DEF TailSet, OldFits
  <1> HIDE DEF quiet, fresh
  <1> QED
    BY <1>5, <1>6, <1>7, <1>8, Kept, KeepsTypes

LEMMA ConfirmTypes ==
    ASSUME TailAssumption, TypeOK, NEW t \in Tails, Confirm(t)
    PROVE  TypeOK'
  <1>1. PICK p \in Pages(tail[t].cur) :
          IF p.to = p.from
          THEN Becomes(t, [tail[t] EXCEPT !.pc = "jump", !.cur = tail[t].page.to, !.window = 1])
          ELSE Becomes(t, [tail[t] EXCEPT !.pc = "got", !.page = p, !.fresh = << >>])
    BY DEF Confirm
  <1>2. p \in PageSet /\ << >> \in Seq(Lines)
    BY CursorPages, FieldTypes DEF TypeOK
  <1>3. tail[t] \in TailSet /\ tail[t].page.to \in Cursors /\ 1 \in DOMAIN RestartLines
    BY FieldTypes DEF TailAssumption, Cursors
  <1> DEFINE jump == [tail[t] EXCEPT !.pc = "jump", !.cur = tail[t].page.to, !.window = 1]
             got == [tail[t] EXCEPT !.pc = "got", !.page = p, !.fresh = << >>]
  <1>4. Becomes(t, jump) \/ Becomes(t, got)
    BY <1>1
  <1>5. jump \in TailSet /\ OldFits(jump) /\ got \in TailSet /\ OldFits(got)
    BY <1>2, <1>3 DEF TailSet, OldFits
  <1>6. UNCHANGED <<service, disk, skipped, opens, torn, errors>>
    BY DEF Confirm
  <1> HIDE DEF jump, got
  <1> QED
    BY <1>4, <1>5, <1>6, Kept, KeepsTypes

LEMMA FetchTypes ==
    ASSUME TailAssumption, TypeOK, NEW t \in Tails, Fetch(t)
    PROVE  TypeOK'
  <1>1. PICK p \in Pages(tail[t].cur) :
          /\ Becomes(t, [tail[t] EXCEPT !.pc = "got", !.page = p,
                                        !.counted = IF tail[t].cur = NoCursor /\ @ = NoCursor THEN 0 ELSE @])
          /\ refused' = refused \ {p.to}
    BY DEF Fetch
  <1> DEFINE counted == IF tail[t].cur = NoCursor /\ tail[t].counted = NoCursor THEN 0 ELSE tail[t].counted
             r == [tail[t] EXCEPT !.pc = "got", !.page = p, !.counted = counted]
  <1>2. p \in PageSet /\ tail[t] \in TailSet
    BY CursorPages, FieldTypes DEF TypeOK
  <1>3. counted \in {NoCursor} \cup Nat
    BY FieldTypes
  <1>4. Becomes(t, r)
    BY <1>1
  <1>5. log' = log /\ stuck' = stuck /\ breaks' = breaks /\ UNCHANGED <<disk, skipped, opens, torn, errors>>
    BY DEF Fetch
  <1> HIDE DEF counted
  <1>6. r \in TailSet /\ OldFits(r)
    BY <1>2, <1>3 DEF TailSet, OldFits
  <1> HIDE DEF r
  <1> QED
    BY <1>1, <1>4, <1>5, <1>6, Kept, KeepsTypes

\* A tail that ends.
LEMMA CloseTypes ==
    ASSUME TailAssumption, TypeOK, NEW t \in Tails, Close(t), UNCHANGED <<service, disk, skipped, opens, torn, errors>>
    PROVE  TypeOK'
  <1>1. Closed \in TailSet /\ OldFits(Closed)
    BY ClosedTail DEF Closed, OldFits
  <1>2. Becomes(t, Closed)
    BY DEF Close
  <1> QED
    BY <1>1, <1>2, Kept, KeepsTypes

LEMMA DropCursorTypes ==
    ASSUME TailAssumption, TypeOK, NEW t \in Tails, DropCursor(t)
    PROVE  TypeOK'
  <1> DEFINE r == [tail[t] EXCEPT !.pc = "reset"]
  <1>1. Becomes(t, r) /\ UNCHANGED <<service, file, headMissing, skipped, opens, torn>>
    BY DEF DropCursor
  <1>2. r \in TailSet /\ OldFits(r)
    BY FieldTypes, ZenonT(40) DEF TailSet, OldFits
  <1>3. saved' \in Cursors /\ errors' \in 0 .. MaxErrors
    BY CursorWritten DEF DropCursor, Cursors
  <1> HIDE DEF r
  <1> QED
    BY <1>1, <1>2, <1>3, Kept, KeepsTypes

LEMMA ResetToEndTypes ==
    ASSUME TailAssumption, TypeOK, NEW t \in Tails, ResetToEnd(t)
    PROVE  TypeOK'
  <1> DEFINE end == EndPage(Window)
             r == [tail[t] EXCEPT !.pc = "jump", !.page = end, !.fresh = Unseen(t, end),
                                  !.cur = end.to, !.reset = end.to, !.window = 1, !.polls = 0]
  <1>1. Becomes(t, r) /\ refused' = refused \ {end.to} /\ log' = log /\ stuck' = stuck /\ breaks' = breaks
        /\ UNCHANGED <<disk, skipped, opens, torn, errors>>
    BY DEF ResetToEnd
  <1>2. end \in PageSet
    BY EndPages DEF TypeOK, TailAssumption
  <1> HIDE DEF end
  <1>3. Unseen(t, end) \in Seq(Lines)
    BY <1>2, UnseenLines DEF TailAssumption
  <1>4. end.to \in Cursors /\ 1 \in DOMAIN RestartLines /\ 0 \in 0 .. StallPolls
    BY <1>2 DEF PageSet, Cursors, TailAssumption
  <1>5. r \in TailSet /\ OldFits(r)
    BY <1>2, <1>3, <1>4, FieldTypes, ZenonT(40) DEF TailSet, OldFits
  <1> HIDE DEF r
  <1> QED
    BY <1>1, <1>5, Kept, KeepsTypes

LEMMA NoteHeadTypes ==
    ASSUME TailAssumption, TypeOK, NEW t \in Tails, NoteHead(t)
    PROVE  TypeOK'
  <1> DEFINE shown == <<Gap>> \o tail[t].shown
             r == [tail[t] EXCEPT !.partial = TRUE, !.shown = shown]
  <1>1. Becomes(t, r) /\ UNCHANGED <<service, file, saved, skipped, opens, torn>>
    BY DEF NoteHead
  <1>2. shown \in Seq({Gap} \cup Lines)
    BY FieldTypes, HeldByAppend
  <1>3. tail[t].pc = "got"
    BY DEF NoteHead
  <1> HIDE DEF shown
  <1>4. r \in TailSet /\ OldFits(r)
    BY <1>2, <1>3, FieldTypes, ZenonT(40) DEF TailSet, OldFits
  <1>5. headMissing' \in BOOLEAN /\ errors' \in 0 .. MaxErrors
    BY HeadWritten DEF NoteHead
  <1> HIDE DEF r
  <1> QED
    BY <1>1, <1>4, <1>5, Kept, KeepsTypes

\* What a page leaves out, and what a failed append does.
LEMMA LeftOutTypes ==
    ASSUME TailAssumption, TypeOK, NEW t \in Tails, NEW why \in Reasons
    PROVE  LeftOut(t, why) \subseteq Lines \X Reasons
  <1>1. 1 .. tail[t].page.from \subseteq Lines
    BY FieldTypes DEF Lines, TailAssumption
  <1> QED
    BY <1>1 DEF LeftOut

LEMMA BeforePageTypes ==
    ASSUME TailAssumption, TypeOK, NEW t \in Tails
    PROVE  BeforePage(t) \subseteq Lines \X Reasons
  BY LeftOutTypes DEF BeforePage, Reasons

LEMMA UnwrittenTypes ==
    ASSUME NEW g \in Seq(Lines), NEW n \in 0 .. Len(g)
    PROVE  Unwritten(g, n) \subseteq Lines \X Reasons
  <1>1. ToSet(SubSeq(g, n + 1, Len(g))) \subseteq Lines
    BY HeldByParts, HeldIsTyped
  <1> QED
    BY <1>1 DEF Unwritten, Reasons

LEMMA FirstLines ==
    ASSUME NEW f \in Seq(Lines), NEW n \in 0 .. Len(f)
    PROVE  SubSeq(f, 1, n) \in Seq(Lines)
  OBVIOUS

LEMMA CutShortTypes ==
    ASSUME TailAssumption, TypeOK, NEW g \in Seq(Lines), NEW n \in 0 .. Len(g), CutShort(g, n)
    PROVE  file' \in FileSet /\ torn' \in 0 .. MaxTorn
  <1> DEFINE written == AppendTo(file, SubSeq(g, 1, n))
  <1>1. \/ file' = written /\ torn' = torn
        \/ /\ torn < MaxTorn /\ torn' = torn + 1
           /\ file' = IF EndsTorn(written) THEN written ELSE Append(written, Torn)
    BY DEF CutShort
  <1>2. written \in FileSet
    BY FirstLines, AppendedFile, Kept
  <1> HIDE DEF written
  <1>3. file' \in FileSet
    BY <1>1, <1>2, TornFile
  <1>4. torn' \in 0 .. MaxTorn
    BY <1>1, Kept DEF TailAssumption
  <1> QED
    BY <1>3, <1>4

LEMMA CountedTypes ==
    ASSUME TailAssumption, TypeOK, NEW t \in Tails
    PROVE  Counted(t) \in {NoCursor} \cup Nat
  <1> DEFINE from == tail[t].page.from
             to == tail[t].page.to
  <1>0. from \in 0 .. MaxLines /\ to \in 0 .. MaxLines /\ from <= to /\ tail[t].counted \in {NoCursor} \cup Nat
    BY FieldTypes
  <1> HIDE DEF from, to
  <1>1. to - from \in Nat /\ tail[t].counted \in {NoCursor} \cup Nat
    BY <1>0 DEF TailAssumption
  <1>2. tail[t].counted # NoCursor => Count(t) \in Nat
    BY <1>1 DEF Count, from, to
  <1> QED
    BY <1>2 DEF Counted

LEMMA AppendPageTypes ==
    ASSUME TailAssumption, TypeOK, NEW t \in Tails, AppendPage(t)
    PROVE  TypeOK'
  <1> DEFINE lines == LinesOf(tail[t].page)
             r == [tail[t] EXCEPT !.pc = "appended", !.counted = Counted(t), !.fresh = lines]
  <1>1. lines \in Seq(Lines)
    BY FieldTypes, LinesOfPage DEF TailAssumption
  <1>2. Becomes(t, r) /\ file' = AppendTo(file, lines) /\ UNCHANGED <<service, saved, headMissing, opens, torn, errors>>
    BY DEF AppendPage
  <1>3. skipped' \subseteq Lines \X Reasons
    BY BeforePageTypes DEF AppendPage, TypeOK
  <1> HIDE DEF lines
  <1>4. file' \in FileSet
    BY <1>1, <1>2, Kept, AppendedFile
  <1>5. r \in TailSet /\ OldFits(r)
    BY <1>1, FieldTypes, CountedTypes, ZenonT(40) DEF TailSet, OldFits
  <1> HIDE DEF r
  <1> QED
    BY <1>2, <1>3, <1>4, <1>5, Kept, KeepsTypes

LEMMA PageFailsTypes ==
    ASSUME TailAssumption, TypeOK, NEW t \in Tails, PageFails(t)
    PROVE  TypeOK'
  <1> DEFINE lines == LinesOf(tail[t].page)
             r == [tail[t] EXCEPT !.pc = "save", !.counted = Counted(t), !.fresh = lines]
  <1>1. lines \in Seq(Lines)
    BY FieldTypes, LinesOfPage DEF TailAssumption
  <1>2. Becomes(t, r) /\ Erring /\ UNCHANGED <<service, saved, headMissing, opens>>
    BY DEF PageFails
  <1>3. PICK n \in 0 .. Len(lines) - 1 :
          CutShort(lines, n) /\ skipped' = skipped \cup BeforePage(t) \cup Unwritten(lines, n)
    BY DEF PageFails
  <1> HIDE DEF lines
  <1>4. n \in 0 .. Len(lines)
    BY <1>1
  <1>5. file' \in FileSet /\ torn' \in 0 .. MaxTorn
    BY <1>1, <1>3, <1>4, CutShortTypes
  <1>6. skipped' \subseteq Lines \X Reasons
    BY <1>1, <1>3, <1>4, BeforePageTypes, UnwrittenTypes, Kept
  <1>7. r \in TailSet /\ OldFits(r)
    BY <1>1, FieldTypes, CountedTypes, ZenonT(40) DEF TailSet, OldFits
  <1>8. errors' \in 0 .. MaxErrors
    BY <1>2, OneError
  <1> HIDE DEF r
  <1> QED
    BY <1>2, <1>5, <1>6, <1>7, <1>8, Kept, KeepsTypes

LEMMA EmptyPageTypes ==
    ASSUME TailAssumption, TypeOK, NEW t \in Tails, EmptyPage(t)
    PROVE  TypeOK'
  <1> DEFINE same == [tail[t] EXCEPT !.pc = "poll", !.counted = Counted(t), !.page = NoPage,
                                     !.polls = Least(tail[t].polls + 1, StallPolls)]
             next == [tail[t] EXCEPT !.pc = "poll", !.counted = Counted(t), !.page = NoPage,
                                     !.polls = 0, !.window = 1, !.cur = tail[t].page.to]
  <1>1. /\ Becomes(t, same) \/ Becomes(t, next)
        /\ saved' \in Cursors /\ errors' \in 0 .. MaxErrors
    <2>1. CASE tail[t].cur = tail[t].page.to
      BY <2>1, Kept DEF EmptyPage
    <2>2. CASE tail[t].cur # tail[t].page.to
      <3>1. tail[t].page.to \in Cursors
        BY FieldTypes DEF Cursors
      <3>2. Becomes(t, next) /\ WritesCursor(tail[t].page.to)
        BY <2>2 DEF EmptyPage
      <3> QED
        BY <3>1, <3>2, CursorWritten
    <2> QED
      BY <2>1, <2>2
  <1>2. UNCHANGED <<service, file, headMissing, skipped, opens, torn>>
    BY DEF EmptyPage
  <1>3. NoPage \in PageSet /\ tail[t].page.to \in Cursors /\ 1 \in DOMAIN RestartLines /\ 0 \in 0 .. StallPolls
    BY FieldTypes DEF NoPage, PageSet, Cursors, TailAssumption
  <1>4. Least(tail[t].polls + 1, StallPolls) \in 0 .. StallPolls
    BY FieldTypes DEF Least, TailAssumption
  <1>5. same \in TailSet /\ OldFits(same)
    BY <1>3, <1>4, FieldTypes, CountedTypes, ZenonT(40) DEF TailSet, OldFits
  <1>6. next \in TailSet /\ OldFits(next)
    BY <1>3, FieldTypes, CountedTypes, ZenonT(40) DEF TailSet, OldFits
  <1> HIDE DEF same, next
  <1> QED
    BY <1>1, <1>2, <1>3, <1>5, <1>6, Kept, KeepsTypes

LEMMA AppendJumpTypes ==
    ASSUME TailAssumption, TypeOK, NEW t \in Tails, AppendJump(t)
    PROVE  TypeOK'
  <1> DEFINE shown == Append(tail[t].shown, Gap)
             r == [tail[t] EXCEPT !.pc = "appended", !.shown = shown]
  <1>1. Becomes(t, r) /\ file' = AppendTo(file, tail[t].fresh) /\ UNCHANGED <<service, saved, headMissing, opens, torn, errors>>
    BY DEF AppendJump
  <1>2. skipped' \subseteq Lines \X Reasons
    <2>1. LeftOut(t, "jump") \subseteq Lines \X Reasons
      BY LeftOutTypes DEF Reasons
    <2> QED
      BY <2>1 DEF AppendJump, TypeOK
  <1>3. file' \in FileSet
    BY <1>1, Kept, FieldTypes, AppendedFile
  <1>4. shown \in Seq({Gap} \cup Lines)
    BY FieldTypes, HeldByAppend
  <1> HIDE DEF shown
  <1>5. r \in TailSet /\ OldFits(r)
    BY <1>4, FieldTypes, ZenonT(40) DEF TailSet, OldFits
  <1> HIDE DEF r
  <1> QED
    BY <1>1, <1>2, <1>3, <1>5, Kept, KeepsTypes

LEMMA JumpFailsTypes ==
    ASSUME TailAssumption, TypeOK, NEW t \in Tails, JumpFails(t)
    PROVE  TypeOK'
  <1> DEFINE lines == tail[t].fresh
             shown == Append(tail[t].shown, Gap)
             r == [tail[t] EXCEPT !.pc = "save", !.shown = shown]
  <1>1. lines \in Seq(Lines) /\ shown \in Seq({Gap} \cup Lines)
    BY FieldTypes, HeldByAppend
  <1>2. Becomes(t, r) /\ Erring /\ UNCHANGED <<service, saved, headMissing, opens>>
    BY DEF JumpFails
  <1>3. PICK n \in 0 .. Len(lines) - 1 :
          CutShort(lines, n) /\ skipped' = skipped \cup LeftOut(t, "jump") \cup Unwritten(lines, n)
    BY DEF JumpFails
  <1> HIDE DEF lines, shown
  <1>4. n \in 0 .. Len(lines)
    BY <1>1
  <1>5. file' \in FileSet /\ torn' \in 0 .. MaxTorn
    BY <1>1, <1>3, <1>4, CutShortTypes
  <1>6. skipped' \subseteq Lines \X Reasons
    <2>1. LeftOut(t, "jump") \subseteq Lines \X Reasons
      BY LeftOutTypes DEF Reasons
    <2> QED
      BY <1>1, <1>3, <1>4, <2>1, UnwrittenTypes, Kept
  <1>7. r \in TailSet /\ OldFits(r)
    BY <1>1, FieldTypes, ZenonT(40) DEF TailSet, OldFits
  <1>8. errors' \in 0 .. MaxErrors
    BY <1>2, OneError
  <1> HIDE DEF r
  <1> QED
    BY <1>2, <1>5, <1>6, <1>7, <1>8, Kept, KeepsTypes

LEMMA ReadToTrimTypes ==
    ASSUME TailAssumption, TypeOK, NEW t \in Tails, ReadToTrim(t)
    PROVE  TypeOK'
  <1> DEFINE r == [tail[t] EXCEPT !.pc = "trim", !.old = file]
  <1>1. Becomes(t, r) /\ UNCHANGED <<service, disk, skipped, opens, torn, errors>> /\ Len(file) > FileLines
    BY DEF ReadToTrim, TooLong
  <1>2. r \in TailSet /\ OldFits(r)
    BY <1>1, FieldTypes, Kept, ZenonT(40) DEF TailSet, OldFits
  <1> HIDE DEF r
  <1> QED
    BY <1>1, <1>2, Kept, KeepsTypes

\* What is cut off a file that was too long.
LEMMA CutOff ==
    ASSUME TailAssumption, TypeOK, NEW t \in Tails, tail[t].pc = "trim"
    PROVE  LET old == tail[t].old
               cut == Len(old) - KeepLines
           IN  /\ cut \in 0 .. Len(old) /\ SubSeq(old, cut + 1, Len(old)) \in FileSet
               /\ ToSet(SubSeq(old, 1, cut)) \subseteq {Torn} \cup Lines
               /\ ToSet(old) = ToSet(SubSeq(old, 1, cut)) \cup ToSet(SubSeq(old, cut + 1, Len(old)))
  <1> DEFINE old == tail[t].old
             cut == Len(old) - KeepLines
  <1>1. old \in FileSet /\ old \in Seq({Torn} \cup Lines) /\ Len(old) \in Nat /\ Len(old) > FileLines
    <2>1. old \in FileSet
      BY FieldTypes
    <2>2. old \in Seq({Torn} \cup Lines)
      BY <2>1 DEF FileSet
    <2>3. Len(old) > FileLines
      BY DEF TypeOK, OldFits
    <2> QED
      BY <2>1, <2>2, <2>3
  <1>2. KeepLines \in Nat /\ FileLines \in Int /\ KeepLines <= FileLines
    BY DEF TailAssumption
  <1>3. cut \in 0 .. Len(old)
    BY <1>1, <1>2
  <1> HIDE DEF old, cut
  <1>4. SubSeq(old, cut + 1, Len(old)) \in FileSet
    BY <1>1, <1>3, CutFile
  <1>5. /\ SubSeq(old, 1, cut) \in Seq({Torn} \cup Lines)
        /\ ToSet(old) = ToSet(SubSeq(old, 1, cut)) \cup ToSet(SubSeq(old, cut + 1, Len(old)))
    BY <1>1, <1>3, HeldByParts
  <1>6. ToSet(SubSeq(old, 1, cut)) \subseteq {Torn} \cup Lines
    BY <1>5, HeldIsTyped
  <1> QED
    BY <1>3, <1>4, <1>5, <1>6 DEF old, cut

LEMMA TrimTypes ==
    ASSUME TailAssumption, TypeOK, NEW t \in Tails, Trim(t)
    PROVE  TypeOK'
  <1> DEFINE old == tail[t].old
             cut == Len(old) - KeepLines
             gone == ToSet(SubSeq(old, 1, cut))
             r == [tail[t] EXCEPT !.pc = "note", !.old = << >>]
  <1>1. Becomes(t, r) /\ file' = SubSeq(old, cut + 1, Len(old)) /\ skipped' = skipped \cup (gone \ {Torn}) \X {"trim"}
        /\ UNCHANGED <<service, saved, headMissing, opens, torn, errors>>
    BY DEF Trim
  <1>2. SubSeq(old, cut + 1, Len(old)) \in FileSet /\ gone \subseteq {Torn} \cup Lines
    BY CutOff DEF Trim
  <1>3. r \in TailSet /\ OldFits(r)
    BY FieldTypes, EmptyFile, ZenonT(40) DEF TailSet, OldFits
  <1> HIDE DEF r, gone, cut, old
  <1>4. skipped' \subseteq Lines \X Reasons
    <2>1. gone \ {Torn} \subseteq Lines
      BY <1>2
    <2>2. (gone \ {Torn}) \X {"trim"} \subseteq Lines \X Reasons
      BY <2>1 DEF Reasons
    <2> QED
      BY <1>1, <2>2, Kept
  <1> QED
    BY <1>1, <1>2, <1>3, <1>4, Kept, KeepsTypes

LEMMA NoteTrimTypes ==
    ASSUME TailAssumption, TypeOK, NEW t \in Tails, NoteTrim(t)
    PROVE  TypeOK'
  <1> DEFINE r == [tail[t] EXCEPT !.pc = "save"]
  <1>1. Becomes(t, r) /\ UNCHANGED <<service, file, saved, skipped, opens, torn>>
    BY DEF NoteTrim
  <1>2. r \in TailSet /\ OldFits(r)
    BY FieldTypes, ZenonT(40) DEF TailSet, OldFits
  <1>3. headMissing' \in BOOLEAN /\ errors' \in 0 .. MaxErrors
    BY HeadWritten DEF NoteTrim
  <1> HIDE DEF r
  <1> QED
    BY <1>1, <1>2, <1>3, Kept, KeepsTypes

LEMMA TrimFailsTypes ==
    ASSUME TailAssumption, TypeOK, NEW t \in Tails, TrimFails(t)
    PROVE  TypeOK'
  <1> DEFINE r == [tail[t] EXCEPT !.pc = "save", !.old = << >>]
  <1>1. Becomes(t, r) /\ Erring /\ UNCHANGED <<service, disk, skipped, opens, torn>>
    BY DEF TrimFails
  <1>2. r \in TailSet /\ OldFits(r)
    BY FieldTypes, EmptyFile, ZenonT(40) DEF TailSet, OldFits
  <1>3. errors' \in 0 .. MaxErrors
    BY <1>1, OneError
  <1> HIDE DEF r
  <1> QED
    BY <1>1, <1>2, <1>3, Kept, KeepsTypes

LEMMA SaveCursorTypes ==
    ASSUME TailAssumption, TypeOK, NEW t \in Tails, SaveCursor(t)
    PROVE  TypeOK'
  <1> DEFINE shown == tail[t].shown \o tail[t].fresh
             r == [tail[t] EXCEPT !.pc = "poll", !.cur = tail[t].page.to, !.shown = shown,
                                  !.fresh = << >>, !.page = NoPage, !.polls = 0, !.window = 1]
  <1>1. Becomes(t, r) /\ UNCHANGED <<service, file, headMissing, skipped, opens, torn>>
    BY DEF SaveCursor
  <1>2. shown \in Seq({Gap} \cup Lines)
    <2>1. tail[t].shown \in Seq({Gap} \cup Lines) /\ tail[t].fresh \in Seq(Lines)
      BY FieldTypes
    <2>2. tail[t].fresh \in Seq({Gap} \cup Lines)
      BY <2>1
    <2> QED
      BY <2>1, <2>2
  <1>3. NoPage \in PageSet /\ tail[t].page.to \in Cursors /\ 1 \in DOMAIN RestartLines /\ 0 \in 0 .. StallPolls
        /\ << >> \in Seq(Lines)
    BY FieldTypes DEF NoPage, PageSet, Cursors, TailAssumption
  <1> HIDE DEF shown
  <1>4. r \in TailSet /\ OldFits(r)
    BY <1>2, <1>3, FieldTypes, ZenonT(40) DEF TailSet, OldFits
  <1>5. saved' \in Cursors /\ errors' \in 0 .. MaxErrors
    BY <1>3, CursorWritten DEF SaveCursor
  <1> HIDE DEF r
  <1> QED
    BY <1>1, <1>4, <1>5, Kept, KeepsTypes

\* A kill cuts short the lines of a page or those of a jump.
LEMMA StopCutsLines ==
    ASSUME TailAssumption, TypeOK, NEW t \in Tails, StopInAppend(t)
    PROVE  \E g \in Seq(Lines) : \E n \in 0 .. Len(g) : CutShort(g, n)
  <1> DEFINE lines == LinesOf(tail[t].page)
             fresh == tail[t].fresh
  <1>1. lines \in Seq(Lines) /\ fresh \in Seq(Lines)
    BY FieldTypes, LinesOfPage DEF TailAssumption
  <1>2. \/ \E n \in 0 .. Len(lines) - 1 : CutShort(lines, n)
        \/ \E n \in 0 .. Len(fresh) - 1 : CutShort(fresh, n)
    BY DEF StopInAppend
  <1> HIDE DEF lines, fresh
  <1>3. \A g \in Seq(Lines) : 0 .. Len(g) - 1 \subseteq 0 .. Len(g)
    OBVIOUS
  <1> QED
    BY <1>1, <1>2, <1>3

LEMMA StopInAppendTypes ==
    ASSUME TailAssumption, TypeOK, NEW t \in Tails, StopInAppend(t)
    PROVE  TypeOK'
  <1>1. PICK g \in Seq(Lines) : \E n \in 0 .. Len(g) : CutShort(g, n)
    BY StopCutsLines
  <1>2. file' \in FileSet /\ torn' \in 0 .. MaxTorn
    BY <1>1, CutShortTypes
  <1>3. Closed \in TailSet /\ OldFits(Closed)
    BY ClosedTail DEF Closed, OldFits
  <1>4. Becomes(t, Closed) /\ UNCHANGED <<service, saved, headMissing, skipped, opens, errors>>
    BY DEF Close, StopInAppend
  <1> QED
    BY <1>2, <1>3, <1>4, Kept, KeepsTypes

LEMMA TypeStep ==
    ASSUME TailAssumption, TypeOK, [Next]_vars
    PROVE  TypeOK'
  <1>1. CASE Grow \/ Refuse \/ \E c \in 0 .. MaxLines : Stick(c)
    BY <1>1, ServiceTypes
  <1>2. ASSUME NEW t \in Tails, Open(t) \/ Held(t) PROVE TypeOK'
    BY <1>2, OpenTypes, HeldTypes
  <1>3. ASSUME NEW t \in Tails, Fails(t) \/ Stop(t) \/ GiveUp(t) PROVE TypeOK'
    BY <1>3, CloseTypes DEF Fails, Stop, GiveUp
  <1>4. ASSUME NEW t \in Tails, StopInAppend(t) PROVE TypeOK'
    BY <1>4, StopInAppendTypes
  <1>5. ASSUME NEW t \in Tails, TailStep(t) PROVE TypeOK'
    BY <1>3, <1>5, TakeCursorTypes, ReadEndTypes, ConfirmTypes, FetchTypes, DropCursorTypes, ResetToEndTypes,
       NoteHeadTypes, AppendPageTypes, PageFailsTypes, EmptyPageTypes, AppendJumpTypes, JumpFailsTypes,
       ReadToTrimTypes, TrimTypes, NoteTrimTypes, TrimFailsTypes, SaveCursorTypes
       DEF TailStep
  <1>6. CASE UNCHANGED vars
    <2>1. UNCHANGED <<service, disk, tail, skipped, opens, torn, errors>>
      BY <1>6 DEF vars
    <2> QED
      BY <2>1 DEF TypeOK, service, disk
  <1> QED
    BY <1>1, <1>2, <1>3, <1>4, <1>5, <1>6 DEF Next

\* The state of the tails and of the cache is of its types: a page runs forward, a torn line is
\* the file's last, a tail opens with whole lines and trims no file that was short enough.
THEOREM TypeCorrect ==
    ASSUME TailAssumption
    PROVE  Spec => []TypeOK
  <1>1. Init => TypeOK
    BY TypeInit
  <1>2. TypeOK /\ [Next]_vars => TypeOK'
    BY TypeStep
  <1> QED
    BY <1>1, <1>2, PTL DEF Spec

-----------------------------------------------------------------------------
(* The cursor and the cache.  A line is recorded when the file holds it or it   *)
(* is known what left it out.  Fits says what each tail has recorded when: its  *)
(* cursor's lines while it polls, its page's once they are appended; what it    *)
(* shows, always.  The cursor is saved last, so the saved one is covered too.   *)

Fits(r, R) ==
    /\ r.pc = "loaded" => ToSet(r.old) \subseteq R
    /\ ToSet(r.shown) \subseteq R \cup {Gap}
    /\ r.pc \in {"poll", "confirm", "got"} => 1 .. r.cur \subseteq R
    /\ r.pc \in {"appended", "trim", "note", "save"} => ToSet(r.fresh) \cup (1 .. r.page.to) \subseteq R
    /\ r.pc \in {"confirm", "jump"} =>
         r.page.from + 1 .. r.page.to \subseteq ToSet(r.shown) \cup ToSet(r.fresh)
    /\ r.pc = "got" => IF r.cur = NoCursor THEN r.page.from = r.page.to => r.page.to = 0
                       ELSE r.page.from = r.cur

CacheInv ==
    /\ TypeOK /\ file \in Seq(Lines)
    /\ CursorNotAhead /\ \A t \in Tails : Fits(tail[t], RecordedLines)

NoneTrimsBlindly == \A t \in Tails : Trim(t) => file = tail[t].old

\* What fits stays so when more is recorded.
LEMMA FitsMore ==
    ASSUME NEW r, NEW R, NEW Q, R \subseteq Q, Fits(r, R)
    PROVE  Fits(r, Q)
  BY DEF Fits

LEMMA AppendsAll ==
    ASSUME TailAssumption, NEW f \in Seq(Lines), NEW g \in Seq(Lines)
    PROVE  /\ AppendTo(f, g) \in Seq(Lines) /\ ToSet(AppendTo(f, g)) = ToSet(f) \cup ToSet(g)
           /\ ~EndsTorn(f) /\ WholeLines(f) = f
  <1>1. ~EndsTorn(f)
    <2>1. SUFFICES ASSUME f # << >> PROVE f[Len(f)] # Torn
      BY DEF EndsTorn, Last
    <2>2. Len(f) \in 1 .. Len(f)
      BY <2>1
    <2>3. f[Len(f)] \in Lines
      BY <2>2
    <2> QED
      BY <2>3 DEF Lines, Torn, TailAssumption
  <1>2. AppendTo(f, g) = f \o g /\ WholeLines(f) = f
    BY <1>1 DEF AppendTo, WholeLines
  <1> QED
    BY <1>1, <1>2, HeldByConcat

\* An append records its lines, and nothing is forgotten for it.
LEMMA AppendRecords ==
    ASSUME TailAssumption, file \in Seq(Lines), NEW g \in Seq(Lines), file' = AppendTo(file, g),
           skipped \subseteq skipped'
    PROVE  file' \in Seq(Lines) /\ RecordedLines \subseteq RecordedLines' /\ ToSet(g) \subseteq RecordedLines'
  <1>1. file' \in Seq(Lines) /\ ToSet(file') = ToSet(file) \cup ToSet(g)
    BY AppendsAll
  <1>2. ToSet(g) \subseteq Lines
    BY HeldIsTyped
  <1> QED
    BY <1>1, <1>2 DEF RecordedLines

\* A trim records what it cuts off, when the file is still the one it read.
LEMMA TrimRecords ==
    ASSUME TailAssumption, TypeOK, file \in Seq(Lines), NEW t \in Tails, Trim(t), file = tail[t].old
    PROVE  file' \in Seq(Lines) /\ RecordedLines \subseteq RecordedLines'
  <1> DEFINE cut == Len(file) - KeepLines
             kept == SubSeq(file, cut + 1, Len(file))
             gone == ToSet(SubSeq(file, 1, cut))
  <1>1. file' = kept /\ skipped' = skipped \cup (gone \ {Torn}) \X {"trim"}
    BY DEF Trim
  <1>2. cut \in 0 .. Len(file)
    BY CutOff DEF Trim
  <1> HIDE DEF cut
  <1>3. kept \in Seq(Lines) /\ ToSet(file) = gone \cup ToSet(kept)
    BY <1>2, HeldByParts
  <1> HIDE DEF kept, gone
  <1>4. ToSet(file') = ToSet(kept) /\ skipped \subseteq skipped'
    BY <1>1
  <1>5. ASSUME NEW l \in RecordedLines PROVE l \in RecordedLines'
    <2>1. l \in Lines /\ l # Torn
      BY <1>5 DEF RecordedLines, Lines, Torn, TailAssumption
    <2>2. CASE l \in gone
      <3>1. <<l, "trim">> \in skipped'
        BY <1>1, <2>1, <2>2
      <3> QED
        BY <2>1, <3>1 DEF RecordedLines, Reasons
    <2>3. CASE l \notin gone
      BY <1>3, <1>4, <1>5, <2>1, <2>3 DEF RecordedLines
    <2> QED
      BY <2>2, <2>3
  <1> QED
    BY <1>1, <1>3, <1>5

\* An append that is cut short, but not within a line, records its first lines; the rest are
\* recorded when they are known to be passed over.
LEMMA CutShortRecords ==
    ASSUME TailAssumption, MaxTorn = 0, TypeOK, file \in Seq(Lines), NEW g \in Seq(Lines), NEW n \in 0 .. Len(g),
           CutShort(g, n), skipped \subseteq skipped'
    PROVE  /\ file' \in Seq(Lines) /\ RecordedLines \subseteq RecordedLines'
           /\ Unwritten(g, n) \subseteq skipped' => ToSet(g) \subseteq RecordedLines'
  <1> DEFINE first == SubSeq(g, 1, n)
             rest == ToSet(SubSeq(g, n + 1, Len(g)))
  <1>1. first \in Seq(Lines) /\ ToSet(g) = ToSet(first) \cup rest /\ ToSet(g) \subseteq Lines
    BY HeldByParts, HeldIsTyped
  <1>2. file' = AppendTo(file, first)
    BY Kept DEF CutShort
  <1>3. Unwritten(g, n) = rest \X {"failed"}
    BY DEF Unwritten
  <1> HIDE DEF first, rest
  <1>4. file' \in Seq(Lines) /\ RecordedLines \subseteq RecordedLines' /\ ToSet(first) \subseteq RecordedLines'
    BY <1>1, <1>2, AppendRecords
  <1>5. ASSUME Unwritten(g, n) \subseteq skipped', NEW l \in rest PROVE l \in RecordedLines'
    <2>1. <<l, "failed">> \in skipped' /\ l \in Lines
      BY <1>1, <1>3, <1>5
    <2> QED
      BY <2>1 DEF RecordedLines, Reasons
  <1> QED
    BY <1>1, <1>4, <1>5

LEMMA FailRecords ==
    ASSUME TailAssumption, MaxTorn = 0, TypeOK, file \in Seq(Lines), NEW t \in Tails
    PROVE  /\ PageFails(t) => /\ file' \in Seq(Lines) /\ RecordedLines \subseteq RecordedLines'
                              /\ ToSet(LinesOf(tail[t].page)) \subseteq RecordedLines'
           /\ JumpFails(t) => /\ file' \in Seq(Lines) /\ RecordedLines \subseteq RecordedLines'
                              /\ ToSet(tail[t].fresh) \subseteq RecordedLines'
  <1> DEFINE lines == LinesOf(tail[t].page)
             fresh == tail[t].fresh
  <1>1. lines \in Seq(Lines) /\ fresh \in Seq(Lines)
    BY FieldTypes, LinesOfPage DEF TailAssumption
  <1>2. PageFails(t) => \E n \in 0 .. Len(lines) - 1 :
          CutShort(lines, n) /\ skipped \subseteq skipped' /\ Unwritten(lines, n) \subseteq skipped'
    BY DEF PageFails
  <1>3. JumpFails(t) => \E n \in 0 .. Len(fresh) - 1 :
          CutShort(fresh, n) /\ skipped \subseteq skipped' /\ Unwritten(fresh, n) \subseteq skipped'
    BY DEF JumpFails
  <1> HIDE DEF lines, fresh
  <1>4. \A g \in Seq(Lines) : 0 .. Len(g) - 1 \subseteq 0 .. Len(g)
    OBVIOUS
  <1> QED
    BY <1>1, <1>2, <1>3, <1>4, CutShortRecords DEF lines, fresh

\* What is recorded once stays so, whoever steps.
LEMMA StaysRecorded ==
    ASSUME TailAssumption, MaxTorn = 0, TypeOK, file \in Seq(Lines), [Next]_vars, [NoneTrimsBlindly]_vars
    PROVE  file' \in Seq(Lines) /\ RecordedLines \subseteq RecordedLines'
  <1>1. CASE UNCHANGED <<file, skipped>>
    BY <1>1 DEF RecordedLines
  <1>2. ASSUME NEW t \in Tails, AppendPage(t)
        PROVE  file' \in Seq(Lines) /\ RecordedLines \subseteq RecordedLines'
    <2>1. LinesOf(tail[t].page) \in Seq(Lines)
      BY FieldTypes, LinesOfPage DEF TailAssumption
    <2>2. file' = AppendTo(file, LinesOf(tail[t].page)) /\ skipped \subseteq skipped'
      BY <1>2 DEF AppendPage
    <2> QED
      BY <2>1, <2>2, AppendRecords
  <1>3. ASSUME NEW t \in Tails, AppendJump(t)
        PROVE  file' \in Seq(Lines) /\ RecordedLines \subseteq RecordedLines'
    <2>1. tail[t].fresh \in Seq(Lines)
      BY FieldTypes
    <2>2. file' = AppendTo(file, tail[t].fresh) /\ skipped \subseteq skipped'
      BY <1>3 DEF AppendJump
    <2> QED
      BY <2>1, <2>2, AppendRecords
  <1>4. ASSUME NEW t \in Tails, StopInAppend(t)
        PROVE  file' \in Seq(Lines) /\ RecordedLines \subseteq RecordedLines'
    <2>1. PICK g \in Seq(Lines) : \E n \in 0 .. Len(g) : CutShort(g, n)
      BY <1>4, StopCutsLines
    <2>2. skipped \subseteq skipped'
      BY <1>4 DEF StopInAppend
    <2> QED
      BY <2>1, <2>2, CutShortRecords
  <1>5. ASSUME NEW t \in Tails, Trim(t)
        PROVE  file' \in Seq(Lines) /\ RecordedLines \subseteq RecordedLines'
    <2>1. CASE NoneTrimsBlindly
      BY <1>5, <2>1, TrimRecords DEF NoneTrimsBlindly
    <2>2. CASE UNCHANGED vars
      BY <1>1, <2>2 DEF vars, disk
    <2> QED
      BY <2>1, <2>2
  <1>6. CASE Grow \/ Refuse \/ \E c \in 0 .. MaxLines : Stick(c)
    BY <1>1, <1>6 DEF Grow, Refuse, Stick, disk
  <1>7. ASSUME NEW t \in Tails, Open(t) \/ Held(t) \/ Fails(t) \/ Stop(t)
        PROVE  UNCHANGED <<file, skipped>>
    BY <1>7 DEF Open, Held, Fails, Stop, disk
  <1>8. ASSUME NEW t \in Tails, TailStep(t), ~AppendPage(t), ~AppendJump(t), ~Trim(t), ~PageFails(t), ~JumpFails(t)
        PROVE  UNCHANGED <<file, skipped>>
    <2>1. CASE TakeCursor(t) \/ ReadEnd(t) \/ Confirm(t) \/ Fetch(t) \/ ResetToEnd(t) \/ GiveUp(t) \/ ReadToTrim(t)
               \/ TrimFails(t)
      BY <2>1 DEF TakeCursor, ReadEnd, Confirm, Fetch, ResetToEnd, GiveUp, ReadToTrim, TrimFails, disk
    <2>2. CASE DropCursor(t) \/ NoteHead(t) \/ EmptyPage(t) \/ NoteTrim(t) \/ SaveCursor(t)
      BY <2>2 DEF DropCursor, NoteHead, EmptyPage, NoteTrim, SaveCursor
    <2> QED
      BY <1>8, <2>1, <2>2 DEF TailStep
  <1>9. CASE UNCHANGED vars
    BY <1>1, <1>9 DEF vars, disk
  <1>10. ASSUME NEW t \in Tails, PageFails(t) \/ JumpFails(t)
         PROVE  file' \in Seq(Lines) /\ RecordedLines \subseteq RecordedLines'
    BY <1>10, FailRecords
  <1> QED
    BY <1>1, <1>2, <1>3, <1>4, <1>5, <1>6, <1>7, <1>8, <1>9, <1>10 DEF Next

\* The tail that steps, and the others.
LEMMA Moves ==
    ASSUME TypeOK, NEW t \in Tails, NEW r, Becomes(t, r)
    PROVE  tail'[t] = r /\ \A s \in Tails : s # t => tail'[s] = tail[s]
  BY DEF TypeOK, Becomes

\* What the invariant says of a tail, and of the saved cursor, for any larger set of lines.
LEMMA FitsNow ==
    ASSUME CacheInv, NEW Q, RecordedLines \subseteq Q, NEW t \in Tails
    PROVE  /\ TypeOK /\ 1 .. saved \subseteq Q /\ Fits(tail[t], Q)
           /\ tail[t].pc = "loaded" => ToSet(tail[t].old) \subseteq Q
           /\ ToSet(tail[t].shown) \subseteq Q \cup {Gap}
           /\ tail[t].pc \in {"poll", "confirm", "got"} => 1 .. tail[t].cur \subseteq Q
           /\ tail[t].pc \in {"appended", "trim", "note", "save"} => ToSet(tail[t].fresh) \cup (1 .. tail[t].page.to) \subseteq Q
           /\ tail[t].pc \in {"confirm", "jump"} => tail[t].page.from + 1 .. tail[t].page.to
                                                     \subseteq ToSet(tail[t].shown) \cup ToSet(tail[t].fresh)
           /\ tail[t].pc = "got" => IF tail[t].cur = NoCursor
                                    THEN tail[t].page.from = tail[t].page.to => tail[t].page.to = 0
                                    ELSE tail[t].page.from = tail[t].cur
  <1>1. TypeOK /\ 1 .. saved \subseteq Q /\ Fits(tail[t], RecordedLines)
    BY DEF CacheInv, CursorNotAhead
  <1>2. Fits(tail[t], Q)
    BY <1>1, FitsMore
  <1> QED
    BY <1>1, <1>2 DEF Fits

LEMMA CloseFits ==
    ASSUME TailAssumption, CacheInv, NEW Q, RecordedLines \subseteq Q, NEW t \in Tails, Close(t), saved' = saved
    PROVE  Fits(tail'[t], Q) /\ 1 .. saved' \subseteq Q
  <1>1. tail'[t] = Closed
    BY Moves DEF CacheInv, Close
  <1>2. Fits(Closed, Q)
    <2>1. ToSet(<< >>) = {}
      BY DEF ToSet
    <2> QED
      BY <2>1 DEF Fits, Closed
  <1> QED
    BY <1>1, <1>2, FitsNow

LEMMA OpenFits ==
    ASSUME TailAssumption, CacheInv, NEW Q, RecordedLines \subseteq Q, NEW t \in Tails, Open(t)
    PROVE  Fits(tail'[t], Q) /\ 1 .. saved' \subseteq Q
  <1> DEFINE r == [tail[t] EXCEPT !.pc = "loaded", !.old = WholeLines(file)]
  <1>1. tail'[t] = r /\ saved' = saved
    BY Moves DEF Open, CacheInv, disk
  <1>2. WholeLines(file) = file
    <2>1. file \in Seq(Lines) /\ << >> \in Seq(Lines)
      BY DEF CacheInv
    <2> QED
      BY <2>1, AppendsAll
  <1>3. ToSet(file) \subseteq Q
    <2>1. ToSet(file) \subseteq Lines
      BY HeldIsTyped DEF CacheInv
    <2> QED
      BY <2>1 DEF RecordedLines
  <1>4. r.pc = "loaded" /\ r.old = file /\ r.shown = tail[t].shown
    BY <1>2, FieldTypes DEF TailSet, CacheInv
  <1> HIDE DEF r
  <1>5. Fits(r, Q)
    BY <1>3, <1>4, FitsNow DEF Fits
  <1> QED
    BY <1>1, <1>5, FitsNow

LEMMA TakeCursorFits ==
    ASSUME TailAssumption, CacheInv, NEW Q, RecordedLines \subseteq Q, NEW t \in Tails, TakeCursor(t)
    PROVE  Fits(tail'[t], Q) /\ 1 .. saved' \subseteq Q
  <1> DEFINE partial == tail[t].old # << >> /\ headMissing
             first == IF partial THEN <<Gap>> ELSE << >>
             shown == first \o tail[t].old
             r == [tail[t] EXCEPT !.pc = "poll", !.cur = saved, !.partial = partial, !.old = << >>, !.shown = shown]
  <1>1. tail'[t] = r /\ saved' = saved /\ tail[t].pc = "loaded"
    BY Moves DEF TakeCursor, CacheInv, disk
  <1>2. ToSet(shown) \subseteq Q \cup {Gap}
    <2>1. tail[t].old \in Seq(Lines)
      BY <1>1 DEF TypeOK, OldFits, CacheInv
    <2>2. tail[t].old \in Seq({Gap} \cup Lines) /\ ToSet(tail[t].old) \subseteq Q
      <3>1. tail[t].old \in Seq({Gap} \cup Lines)
        BY <2>1
      <3> QED
        BY <1>1, <3>1, FitsNow
    <2>3. first \in Seq({Gap} \cup Lines) /\ ToSet(first) \subseteq {Gap}
      <3>1. <<Gap>> \in Seq({Gap} \cup Lines) /\ << >> \in Seq({Gap} \cup Lines)
            /\ ToSet(<<Gap>>) \subseteq {Gap} /\ ToSet(<< >>) \subseteq {Gap}
        BY DEF ToSet
      <3> HIDE DEF partial
      <3> QED
        BY <3>1
    <2> HIDE DEF first
    <2> QED
      BY <2>2, <2>3, HeldByConcat
  <1> HIDE DEF shown, partial
  <1>3. r.pc = "poll" /\ r.cur = saved /\ r.shown = shown
    BY FieldTypes DEF TailSet, CacheInv
  <1> HIDE DEF r
  <1>4. Fits(r, Q)
    BY <1>2, <1>3, FitsNow DEF Fits
  <1> QED
    BY <1>1, <1>4, FitsNow

LEMMA HeldFits ==
    ASSUME TailAssumption, CacheInv, NEW Q, RecordedLines \subseteq Q, NEW t \in Tails, Held(t)
    PROVE  Fits(tail'[t], Q) /\ 1 .. saved' \subseteq Q
  <1> DEFINE r == [tail[t] EXCEPT !.polls = 0]
  <1>1. tail'[t] = r /\ saved' = saved /\ tail[t].pc = "poll"
    BY Moves DEF Held, Polling, CacheInv, disk
  <1>2. r.pc = "poll" /\ r.cur = tail[t].cur /\ r.shown = tail[t].shown
    BY <1>1, FieldTypes DEF TailSet, CacheInv
  <1> HIDE DEF r
  <1>3. Fits(r, Q)
    BY <1>1, <1>2, FitsNow DEF Fits
  <1> QED
    BY <1>1, <1>3, FitsNow

\* The end of the log, read in a restart or a reset.
LEMMA RestartWindow ==
    ASSUME TailAssumption, TypeOK, NEW t \in Tails
    PROVE  EndPage(RestartLines[tail[t].window]) \in PageSet /\ EndPage(Window) \in PageSet
  <1>1. RestartLines[tail[t].window] \in 1 .. Window
    BY FieldTypes DEF TailAssumption
  <1>2. RestartLines[tail[t].window] \in Nat \ {0} /\ Window \in Nat \ {0}
    BY <1>1 DEF TailAssumption
  <1> QED
    BY <1>2, EndPages DEF TypeOK

LEMMA ReadEndFits ==
    ASSUME TailAssumption, CacheInv, NEW Q, RecordedLines \subseteq Q, NEW t \in Tails, ReadEnd(t)
    PROVE  Fits(tail'[t], Q) /\ 1 .. saved' \subseteq Q
  <1> DEFINE end == EndPage(RestartLines[tail[t].window])
             quiet == [tail[t] EXCEPT !.polls = 0, !.window = Least(tail[t].window + 1, Len(RestartLines))]
             fresh == [tail[t] EXCEPT !.polls = 0, !.pc = "confirm", !.page = end, !.fresh = Unseen(t, end)]
  <1>1. /\ Becomes(t, quiet) \/ Becomes(t, fresh)
        /\ saved' = saved /\ tail[t].pc = "poll"
    BY DEF ReadEnd, Polling, disk
  <1>2. tail'[t] = quiet \/ tail'[t] = fresh
    BY <1>1, Moves DEF CacheInv
  <1>3. end \in PageSet
    BY RestartWindow DEF CacheInv
  <1> HIDE DEF end
  <1>4. ToSet(Unseen(t, end)) = (end.from + 1 .. end.to) \ ToSet(tail[t].shown)
    BY <1>3, UnseenLines DEF TailAssumption
  <1>5. quiet.pc = "poll" /\ quiet.cur = tail[t].cur /\ quiet.shown = tail[t].shown
    BY <1>1, FieldTypes DEF TailSet, CacheInv
  <1>6. fresh.pc = "confirm" /\ fresh.cur = tail[t].cur /\ fresh.shown = tail[t].shown
        /\ fresh.page = end /\ fresh.fresh = Unseen(t, end)
    BY FieldTypes DEF TailSet, CacheInv
  <1> HIDE DEF quiet, fresh
  <1>7. Fits(quiet, Q)
    BY <1>1, <1>5, FitsNow DEF Fits
  <1>8. Fits(fresh, Q)
    BY <1>1, <1>4, <1>6, FitsNow DEF Fits
  <1> QED
    BY <1>1, <1>2, <1>7, <1>8, FitsNow

LEMMA ConfirmFits ==
    ASSUME TailAssumption, CacheInv, NEW Q, RecordedLines \subseteq Q, NEW t \in Tails, Confirm(t)
    PROVE  Fits(tail'[t], Q) /\ 1 .. saved' \subseteq Q
  <1>1. PICK p \in Pages(tail[t].cur) :
          IF p.to = p.from
          THEN Becomes(t, [tail[t] EXCEPT !.pc = "jump", !.cur = tail[t].page.to, !.window = 1])
          ELSE Becomes(t, [tail[t] EXCEPT !.pc = "got", !.page = p, !.fresh = << >>])
    BY DEF Confirm
  <1> DEFINE jump == [tail[t] EXCEPT !.pc = "jump", !.cur = tail[t].page.to, !.window = 1]
             got == [tail[t] EXCEPT !.pc = "got", !.page = p, !.fresh = << >>]
  <1>2. Becomes(t, jump) \/ Becomes(t, got)
    BY <1>1
  <1>3. saved' = saved /\ tail[t].pc = "confirm"
    BY DEF Confirm, disk
  <1>4. tail'[t] = jump \/ tail'[t] = got
    BY <1>2, Moves DEF CacheInv
  <1>5. /\ tail[t].cur # NoCursor => p.from = tail[t].cur
        /\ tail[t].cur = NoCursor /\ p.from = p.to => p.to = 0
    BY CursorPages, FieldTypes DEF CacheInv, TypeOK
  <1>6. jump.pc = "jump" /\ jump.shown = tail[t].shown /\ jump.page = tail[t].page /\ jump.fresh = tail[t].fresh
    BY FieldTypes DEF TailSet, CacheInv
  <1>7. got.pc = "got" /\ got.shown = tail[t].shown /\ got.page = p /\ got.cur = tail[t].cur
    BY FieldTypes DEF TailSet, CacheInv
  <1> HIDE DEF jump, got
  <1>8. Fits(jump, Q)
    BY <1>3, <1>6, FitsNow DEF Fits
  <1>9. Fits(got, Q)
    BY <1>3, <1>5, <1>7, FitsNow DEF Fits
  <1> QED
    BY <1>3, <1>4, <1>8, <1>9, FitsNow

LEMMA FetchFits ==
    ASSUME TailAssumption, CacheInv, NEW Q, RecordedLines \subseteq Q, NEW t \in Tails, Fetch(t)
    PROVE  Fits(tail'[t], Q) /\ 1 .. saved' \subseteq Q
  <1>1. PICK p \in Pages(tail[t].cur) :
          Becomes(t, [tail[t] EXCEPT !.pc = "got", !.page = p,
                                     !.counted = IF tail[t].cur = NoCursor /\ @ = NoCursor THEN 0 ELSE @])
    BY DEF Fetch
  <1> DEFINE counted == IF tail[t].cur = NoCursor /\ tail[t].counted = NoCursor THEN 0 ELSE tail[t].counted
             r == [tail[t] EXCEPT !.pc = "got", !.page = p, !.counted = counted]
  <1>2. tail'[t] = r
    BY <1>1, Moves DEF CacheInv
  <1>3. saved' = saved /\ tail[t].pc = "poll"
    BY DEF Fetch, Polling, disk
  <1>4. /\ tail[t].cur # NoCursor => p.from = tail[t].cur
        /\ tail[t].cur = NoCursor /\ p.from = p.to => p.to = 0
    BY CursorPages, FieldTypes DEF CacheInv, TypeOK
  <1> HIDE DEF counted
  <1>5. r.pc = "got" /\ r.shown = tail[t].shown /\ r.page = p /\ r.cur = tail[t].cur
    BY FieldTypes DEF TailSet, CacheInv
  <1> HIDE DEF r
  <1>6. Fits(r, Q)
    BY <1>3, <1>4, <1>5, FitsNow DEF Fits
  <1> QED
    BY <1>2, <1>3, <1>6, FitsNow

LEMMA DropCursorFits ==
    ASSUME TailAssumption, CacheInv, NEW Q, RecordedLines \subseteq Q, NEW t \in Tails, DropCursor(t)
    PROVE  Fits(tail'[t], Q) /\ 1 .. saved' \subseteq Q
  <1> DEFINE r == [tail[t] EXCEPT !.pc = "reset"]
  <1>1. tail'[t] = r /\ (saved' = NoCursor \/ saved' = saved)
    <2>1. Becomes(t, r) /\ WritesCursor(NoCursor)
      BY DEF DropCursor
    <2> QED
      BY <2>1, Moves DEF CacheInv, WritesCursor
  <1>2. r.pc = "reset" /\ r.shown = tail[t].shown
    BY FieldTypes DEF TailSet, CacheInv
  <1> HIDE DEF r
  <1>3. Fits(r, Q)
    BY <1>2, FitsNow DEF Fits
  <1>4. 1 .. NoCursor = {}
    BY DEF NoCursor
  <1> QED
    BY <1>1, <1>3, <1>4, FitsNow

LEMMA ResetToEndFits ==
    ASSUME TailAssumption, CacheInv, NEW Q, RecordedLines \subseteq Q, NEW t \in Tails, ResetToEnd(t)
    PROVE  Fits(tail'[t], Q) /\ 1 .. saved' \subseteq Q
  <1> DEFINE end == EndPage(Window)
             r == [tail[t] EXCEPT !.pc = "jump", !.page = end, !.fresh = Unseen(t, end),
                                  !.cur = end.to, !.reset = end.to, !.window = 1, !.polls = 0]
  <1>1. tail'[t] = r /\ saved' = saved
    BY Moves DEF ResetToEnd, CacheInv, disk
  <1>2. end \in PageSet
    BY RestartWindow DEF CacheInv
  <1> HIDE DEF end
  <1>3. ToSet(Unseen(t, end)) = (end.from + 1 .. end.to) \ ToSet(tail[t].shown)
    BY <1>2, UnseenLines DEF TailAssumption
  <1>4. r.pc = "jump" /\ r.shown = tail[t].shown /\ r.page = end /\ r.fresh = Unseen(t, end)
    BY FieldTypes DEF TailSet, CacheInv
  <1> HIDE DEF r
  <1>5. Fits(r, Q)
    BY <1>3, <1>4, FitsNow DEF Fits
  <1> QED
    BY <1>1, <1>5, FitsNow

LEMMA NoteHeadFits ==
    ASSUME TailAssumption, CacheInv, NEW Q, RecordedLines \subseteq Q, NEW t \in Tails, NoteHead(t)
    PROVE  Fits(tail'[t], Q) /\ 1 .. saved' \subseteq Q
  <1> DEFINE shown == <<Gap>> \o tail[t].shown
             r == [tail[t] EXCEPT !.partial = TRUE, !.shown = shown]
  <1>1. tail'[t] = r /\ saved' = saved /\ tail[t].pc = "got"
    BY Moves DEF NoteHead, CacheInv
  <1>2. ToSet(shown) = ToSet(tail[t].shown) \cup {Gap}
    <2>1. tail[t].shown \in Seq({Gap} \cup Lines)
      BY FieldTypes DEF CacheInv
    <2> QED
      BY <2>1, HeldByAppend
  <1> HIDE DEF shown
  <1>3. r.pc = "got" /\ r.shown = shown /\ r.page = tail[t].page /\ r.cur = tail[t].cur
    BY <1>1, FieldTypes DEF TailSet, CacheInv
  <1> HIDE DEF r
  <1>4. Fits(r, Q)
    <2>1. Fits(tail[t], Q)
      BY FitsNow
    <2>2. /\ ToSet(tail[t].shown) \subseteq Q \cup {Gap} /\ 1 .. tail[t].cur \subseteq Q
          /\ IF tail[t].cur = NoCursor THEN tail[t].page.from = tail[t].page.to => tail[t].page.to = 0
             ELSE tail[t].page.from = tail[t].cur
      BY <1>1, <2>1 DEF Fits
    <2>3. ToSet(r.shown) \subseteq Q \cup {Gap}
      BY <1>2, <1>3, <2>2
    <2>4. IF r.cur = NoCursor THEN r.page.from = r.page.to => r.page.to = 0 ELSE r.page.from = r.cur
      BY <1>3, <2>2
    <2> QED
      BY <1>3, <2>2, <2>3, <2>4 DEF Fits
  <1> QED
    BY <1>1, <1>4, FitsNow

LEMMA EmptyPageFits ==
    ASSUME TailAssumption, CacheInv, NEW Q, RecordedLines \subseteq Q, NEW t \in Tails, EmptyPage(t)
    PROVE  Fits(tail'[t], Q) /\ 1 .. saved' \subseteq Q
  <1> DEFINE same == [tail[t] EXCEPT !.pc = "poll", !.counted = Counted(t), !.page = NoPage,
                                     !.polls = Least(tail[t].polls + 1, StallPolls)]
             next == [tail[t] EXCEPT !.pc = "poll", !.counted = Counted(t), !.page = NoPage,
                                     !.polls = 0, !.window = 1, !.cur = tail[t].page.to]
  <1>1. tail[t].pc = "got" /\ tail[t].page.to = tail[t].page.from
    BY DEF EmptyPage
  <1>2. CASE tail[t].cur = tail[t].page.to
    <2>1. tail'[t] = same /\ saved' = saved
      BY <1>2, Moves DEF EmptyPage, CacheInv
    <2>2. same.pc = "poll" /\ same.shown = tail[t].shown /\ same.cur = tail[t].cur
      BY FieldTypes DEF TailSet, CacheInv
    <2> HIDE DEF same
    <2>3. Fits(same, Q)
      BY <1>1, <2>2, FitsNow DEF Fits
    <2> QED
      BY <2>1, <2>3, FitsNow
  <1>3. CASE tail[t].cur # tail[t].page.to
    <2>1. tail'[t] = next /\ (saved' = tail[t].page.to \/ saved' = saved)
      <3>1. Becomes(t, next) /\ WritesCursor(tail[t].page.to)
        BY <1>3 DEF EmptyPage
      <3> QED
        BY <3>1, Moves DEF CacheInv, WritesCursor
    <2>2. next.pc = "poll" /\ next.shown = tail[t].shown /\ next.cur = tail[t].page.to
      BY FieldTypes DEF TailSet, CacheInv
    <2> HIDE DEF next
    <2>3. tail[t].page.to = 0
      BY <1>1, <1>3, FitsNow
    <2>4. 1 .. 0 = {}
      OBVIOUS
    <2>5. Fits(next, Q)
      BY <2>2, <2>3, <2>4, FitsNow DEF Fits
    <2> QED
      BY <2>1, <2>3, <2>4, <2>5, FitsNow
  <1> QED
    BY <1>2, <1>3

LEMMA ReadToTrimFits ==
    ASSUME TailAssumption, CacheInv, NEW Q, RecordedLines \subseteq Q, NEW t \in Tails, ReadToTrim(t)
    PROVE  Fits(tail'[t], Q) /\ 1 .. saved' \subseteq Q
  <1> DEFINE r == [tail[t] EXCEPT !.pc = "trim", !.old = file]
  <1>1. tail'[t] = r /\ saved' = saved /\ tail[t].pc = "appended"
    BY Moves DEF ReadToTrim, TooLong, CacheInv, disk
  <1>2. r.pc = "trim" /\ r.shown = tail[t].shown /\ r.page = tail[t].page /\ r.fresh = tail[t].fresh
    BY FieldTypes DEF TailSet, CacheInv
  <1> HIDE DEF r
  <1>3. Fits(r, Q)
    BY <1>1, <1>2, FitsNow DEF Fits
  <1> QED
    BY <1>1, <1>3, FitsNow

LEMMA TrimFits ==
    ASSUME TailAssumption, CacheInv, NEW Q, RecordedLines \subseteq Q, NEW t \in Tails,
           Trim(t) \/ NoteTrim(t) \/ TrimFails(t)
    PROVE  Fits(tail'[t], Q) /\ 1 .. saved' \subseteq Q
  <1> DEFINE cut == [tail[t] EXCEPT !.pc = "note", !.old = << >>]
             noted == [tail[t] EXCEPT !.pc = "save"]
             kept == [tail[t] EXCEPT !.pc = "save", !.old = << >>]
  <1>1. Becomes(t, cut) \/ Becomes(t, noted) \/ Becomes(t, kept)
    BY DEF Trim, NoteTrim, TrimFails
  <1>2. saved' = saved /\ tail[t].pc \in {"trim", "note"}
    BY DEF Trim, NoteTrim, TrimFails, disk
  <1>3. tail'[t] = cut \/ tail'[t] = noted \/ tail'[t] = kept
    BY <1>1, Moves DEF CacheInv
  <1>4. \A r \in {cut, noted, kept} : r.pc \in {"note", "save"} /\ r.shown = tail[t].shown
                                      /\ r.page = tail[t].page /\ r.fresh = tail[t].fresh
    BY FieldTypes DEF TailSet, CacheInv
  <1> HIDE DEF cut, noted, kept
  <1>5. ASSUME NEW r \in {cut, noted, kept} PROVE Fits(r, Q)
    BY <1>2, <1>4, FitsNow DEF Fits
  <1> QED
    BY <1>2, <1>3, <1>5, FitsNow

LEMMA SaveCursorFits ==
    ASSUME TailAssumption, CacheInv, NEW Q, RecordedLines \subseteq Q, NEW t \in Tails, SaveCursor(t)
    PROVE  Fits(tail'[t], Q) /\ 1 .. saved' \subseteq Q
  <1> DEFINE shown == tail[t].shown \o tail[t].fresh
             r == [tail[t] EXCEPT !.pc = "poll", !.cur = tail[t].page.to, !.shown = shown,
                                  !.fresh = << >>, !.page = NoPage, !.polls = 0, !.window = 1]
  <1>1. tail'[t] = r /\ (saved' = tail[t].page.to \/ saved' = saved) /\ tail[t].pc \in {"appended", "save"}
    <2>1. Becomes(t, r) /\ WritesCursor(tail[t].page.to) /\ tail[t].pc \in {"appended", "save"}
      BY DEF SaveCursor
    <2> QED
      BY <2>1, Moves DEF CacheInv, WritesCursor
  <1>2. ToSet(shown) = ToSet(tail[t].shown) \cup ToSet(tail[t].fresh)
    <2>1. tail[t].shown \in Seq({Gap} \cup Lines) /\ tail[t].fresh \in Seq(Lines)
      BY FieldTypes DEF CacheInv
    <2>2. tail[t].fresh \in Seq({Gap} \cup Lines)
      BY <2>1
    <2> QED
      BY <2>1, <2>2, HeldByConcat
  <1> HIDE DEF shown
  <1>3. r.pc = "poll" /\ r.cur = tail[t].page.to /\ r.shown = shown
    BY FieldTypes DEF TailSet, CacheInv
  <1> HIDE DEF r
  <1>4. 1 .. tail[t].page.to \subseteq Q /\ ToSet(tail[t].fresh) \subseteq Q
    BY <1>1, FitsNow
  <1>5. Fits(r, Q)
    BY <1>2, <1>3, <1>4, FitsNow DEF Fits
  <1> QED
    BY <1>1, <1>4, <1>5, FitsNow

\* A page's lines and those before it are recorded by its append: what the pane had, what the
\* file takes now, what a first read left out, and what fails to be written.
LEMMA AppendPageFits ==
    ASSUME TailAssumption, MaxTorn = 0, CacheInv, RecordedLines \subseteq RecordedLines', NEW t \in Tails,
           AppendPage(t) \/ PageFails(t)
    PROVE  Fits(tail'[t], RecordedLines') /\ 1 .. saved' \subseteq RecordedLines'
  <1> DEFINE Q == RecordedLines'
             page == tail[t].page
             lines == LinesOf(page)
             whole == [tail[t] EXCEPT !.pc = "appended", !.counted = Counted(t), !.fresh = lines]
             short == [tail[t] EXCEPT !.pc = "save", !.counted = Counted(t), !.fresh = lines]
             r == tail'[t]
  <1>1. saved' = saved /\ tail[t].pc = "got"
    BY DEF AppendPage, PageFails, HasPage
  <1>2. lines \in Seq(Lines) /\ ToSet(lines) = page.from + 1 .. page.to
    BY FieldTypes, LinesOfPage DEF CacheInv, TailAssumption
  <1>3. page.from \in Nat /\ page.to \in 0 .. MaxLines /\ MaxLines \in Nat /\ page.from \in 0 .. MaxLines
    BY FieldTypes DEF CacheInv, TailAssumption
  <1>4. r.pc \in {"appended", "save"} /\ r.shown = tail[t].shown /\ r.page = page /\ r.fresh = lines
    <2>1. Becomes(t, whole) \/ Becomes(t, short)
      BY DEF AppendPage, PageFails
    <2>2. r = whole \/ r = short
      BY <2>1, Moves DEF CacheInv
    <2>3. \A x \in {whole, short} : x.pc \in {"appended", "save"} /\ x.shown = tail[t].shown /\ x.page = page
                                     /\ x.fresh = lines
      BY FieldTypes, ZenonT(40) DEF TailSet, CacheInv
    <2> HIDE DEF whole, short, r
    <2> QED
      BY <2>2, <2>3
  <1>5. tail[t].cur = NoCursor => LeftOut(t, "window") \subseteq skipped'
    BY DEF AppendPage, PageFails, BeforePage
  <1>6. ToSet(lines) \subseteq Q
    <2>1. file \in Seq(Lines) /\ TypeOK
      BY DEF CacheInv
    <2>2. CASE AppendPage(t)
      <3>1. file' = AppendTo(file, lines) /\ skipped \subseteq skipped'
        BY <2>2 DEF AppendPage
      <3> HIDE DEF lines
      <3> QED
        BY <1>2, <2>1, <3>1, AppendRecords
    <2>3. CASE PageFails(t)
      BY <2>1, <2>3, FailRecords
    <2> QED
      BY <2>2, <2>3
  <1> HIDE DEF r, lines
  <1>7. 1 .. page.from \subseteq Q
    <2>1. CASE tail[t].cur = NoCursor
      <3>1. ASSUME NEW l \in 1 .. page.from, l \notin ToSet(tail[t].shown) PROVE l \in Q
        <4>1. <<l, "window">> \in skipped'
          BY <1>5, <2>1, <3>1 DEF LeftOut
        <4>2. l \in Lines
          BY <1>3, <3>1 DEF Lines
        <4> QED
          BY <4>1, <4>2 DEF RecordedLines, Reasons
      <3>2. ASSUME NEW l \in 1 .. page.from, l \in ToSet(tail[t].shown) PROVE l \in Q
        <4>1. l # Gap
          BY <1>3, <3>2 DEF Gap
        <4>2. RecordedLines \subseteq Q
          OBVIOUS
        <4> HIDE DEF Q
        <4>3. ToSet(tail[t].shown) \subseteq Q \cup {Gap}
          BY <4>2, FitsNow
        <4> QED
          BY <3>2, <4>1, <4>3
      <3> QED
        BY <3>1, <3>2
    <2>2. CASE tail[t].cur # NoCursor
      <3> HIDE DEF Q
      <3>1. RecordedLines \subseteq Q
        BY DEF Q
      <3> QED
        BY <1>1, <2>2, <3>1, FitsNow
    <2> QED
      BY <2>1, <2>2
  <1> HIDE DEF Q, page
  <1>8. RecordedLines \subseteq Q
    BY DEF Q
  <1>9. 1 .. page.to \subseteq (1 .. page.from) \cup (page.from + 1 .. page.to)
    BY <1>3
  <1>10. Fits(r, Q)
    BY <1>2, <1>4, <1>6, <1>7, <1>8, <1>9, FitsNow DEF Fits
  <1> QED
    BY <1>1, <1>8, <1>10, FitsNow DEF Q, r

\* So it is after a jump: the lines of the end page that the pane had are recorded, its others
\* are appended, and what lies before the page is known to be left out.
LEMMA AppendJumpFits ==
    ASSUME TailAssumption, MaxTorn = 0, CacheInv, RecordedLines \subseteq RecordedLines', NEW t \in Tails,
           AppendJump(t) \/ JumpFails(t)
    PROVE  Fits(tail'[t], RecordedLines') /\ 1 .. saved' \subseteq RecordedLines'
  <1> DEFINE Q == RecordedLines'
             page == tail[t].page
             fresh == tail[t].fresh
             shown == Append(tail[t].shown, Gap)
             whole == [tail[t] EXCEPT !.pc = "appended", !.shown = shown]
             short == [tail[t] EXCEPT !.pc = "save", !.shown = shown]
             r == tail'[t]
  <1>1. saved' = saved /\ tail[t].pc = "jump" /\ LeftOut(t, "jump") \subseteq skipped'
    BY DEF AppendJump, JumpFails
  <1>2. fresh \in Seq(Lines) /\ ToSet(shown) = ToSet(tail[t].shown) \cup {Gap}
    <2>1. tail[t].shown \in Seq({Gap} \cup Lines) /\ fresh \in Seq(Lines)
      BY FieldTypes DEF CacheInv
    <2>2. ToSet(shown) = ToSet(tail[t].shown) \cup {Gap}
      BY <2>1, HeldByAppended
    <2> QED
      BY <2>1, <2>2
  <1>3. page.from \in Nat /\ page.to \in 0 .. MaxLines /\ MaxLines \in Nat /\ page.from \in 0 .. MaxLines
    BY FieldTypes DEF CacheInv, TailAssumption
  <1>4. r.pc \in {"appended", "save"} /\ r.shown = shown /\ r.page = page /\ r.fresh = fresh
    <2>1. Becomes(t, whole) \/ Becomes(t, short)
      BY DEF AppendJump, JumpFails
    <2>2. r = whole \/ r = short
      BY <2>1, Moves DEF CacheInv
    <2> HIDE DEF shown
    <2>3. \A x \in {whole, short} : x.pc \in {"appended", "save"} /\ x.shown = shown /\ x.page = page
                                     /\ x.fresh = fresh
      BY FieldTypes DEF TailSet, CacheInv
    <2> HIDE DEF whole, short, r
    <2> QED
      BY <2>2, <2>3
  <1> HIDE DEF r, shown
  <1>5. ToSet(fresh) \subseteq Q
    <2>1. file \in Seq(Lines) /\ TypeOK
      BY DEF CacheInv
    <2>2. CASE AppendJump(t)
      <3>1. file' = AppendTo(file, fresh) /\ skipped \subseteq skipped'
        BY <2>2 DEF AppendJump
      <3> QED
        BY <1>2, <2>1, <3>1, AppendRecords
    <2>3. CASE JumpFails(t)
      BY <2>1, <2>3, FailRecords
    <2> QED
      BY <2>2, <2>3
  <1>6. ASSUME NEW l \in 1 .. page.to, l \notin ToSet(fresh), l \notin ToSet(tail[t].shown) PROVE l \in Q
    <2>1. l \in 1 .. page.from
      <3>1. l \notin page.from + 1 .. page.to
        BY <1>1, <1>6, FitsNow
      <3> QED
        BY <1>3, <1>6, <3>1
    <2>2. <<l, "jump">> \in skipped' /\ l \in Lines
      BY <1>1, <1>3, <1>6, <2>1 DEF LeftOut, Lines
    <2> QED
      BY <2>2 DEF RecordedLines, Reasons
  <1> HIDE DEF Q, page, fresh
  <1>7. RecordedLines \subseteq Q
    BY DEF Q
  <1>8. ASSUME NEW l \in 1 .. page.to, l \in ToSet(tail[t].shown) PROVE l \in Q
    <2>1. l # Gap
      BY <1>3, <1>8 DEF Gap
    <2>2. ToSet(tail[t].shown) \subseteq Q \cup {Gap}
      BY <1>7, FitsNow
    <2> QED
      BY <1>8, <2>1, <2>2
  <1>9. 1 .. page.to \subseteq Q
    BY <1>5, <1>6, <1>8
  <1>10. Fits(r, Q)
    BY <1>2, <1>4, <1>5, <1>7, <1>9, FitsNow DEF Fits
  <1> QED
    BY <1>1, <1>7, <1>10, FitsNow DEF Q, r

LEMMA CacheInit ==
    ASSUME TailAssumption, Init
    PROVE  CacheInv
  <1>1. TypeOK
    BY TypeInit
  <1>2. file \in Seq(Lines) /\ 1 .. saved = {}
    BY DEF Init, NoCursor
  <1>3. ASSUME NEW t \in Tails PROVE Fits(tail[t], RecordedLines)
    <2>1. tail[t] = Closed /\ ToSet(<< >>) = {}
      BY <1>3 DEF Init, ToSet
    <2>2. tail[t].pc = "closed" /\ tail[t].shown = << >>
      BY <2>1 DEF Closed
    <2> QED
      BY <2>1, <2>2 DEF Fits
  <1> QED
    BY <1>1, <1>2, <1>3 DEF CacheInv, CursorNotAhead

\* One tail steps: what it and the cursor say is recorded still, and so for the others.
LEMMA TailSteps ==
    ASSUME TailAssumption, MaxTorn = 0, CacheInv, NEW t \in Tails, RecordedLines \subseteq RecordedLines',
           Open(t) \/ TailStep(t) \/ Held(t) \/ Fails(t) \/ Stop(t) \/ StopInAppend(t)
    PROVE  /\ Fits(tail'[t], RecordedLines') /\ 1 .. saved' \subseteq RecordedLines'
           /\ \A s \in Tails : s # t => tail'[s] = tail[s]
  <1>1. Fits(tail'[t], RecordedLines') /\ 1 .. saved' \subseteq RecordedLines'
    <2>1. CASE Open(t) \/ Held(t)
      BY <2>1, OpenFits, HeldFits
    <2>2. CASE Fails(t) \/ Stop(t) \/ StopInAppend(t) \/ GiveUp(t)
      BY <2>2, CloseFits DEF Fails, Stop, StopInAppend, GiveUp, disk
    <2>3. CASE TakeCursor(t) \/ ReadEnd(t) \/ Confirm(t) \/ Fetch(t) \/ DropCursor(t) \/ ResetToEnd(t)
      BY <2>3, TakeCursorFits, ReadEndFits, ConfirmFits, FetchFits, DropCursorFits, ResetToEndFits
    <2>4. CASE NoteHead(t) \/ EmptyPage(t) \/ ReadToTrim(t) \/ Trim(t) \/ NoteTrim(t) \/ TrimFails(t) \/ SaveCursor(t)
      BY <2>4, NoteHeadFits, EmptyPageFits, ReadToTrimFits, TrimFits, SaveCursorFits
    <2>5. CASE AppendPage(t) \/ AppendJump(t) \/ PageFails(t) \/ JumpFails(t)
      BY <2>5, AppendPageFits, AppendJumpFits
    <2> QED
      BY <2>1, <2>2, <2>3, <2>4, <2>5 DEF TailStep
  <1>2. \E r : Becomes(t, r)
    <2>1. CASE Open(t) \/ Held(t) \/ Fails(t) \/ Stop(t) \/ StopInAppend(t) \/ GiveUp(t)
      BY <2>1 DEF Open, Held, Fails, Stop, StopInAppend, GiveUp, Close
    <2>2. CASE TakeCursor(t) \/ DropCursor(t) \/ ResetToEnd(t)
      BY <2>2 DEF TakeCursor, DropCursor, ResetToEnd
    <2>3. CASE ReadEnd(t) \/ Confirm(t) \/ Fetch(t)
      BY <2>3 DEF ReadEnd, Confirm, Fetch
    <2>4. CASE NoteHead(t) \/ EmptyPage(t) \/ ReadToTrim(t) \/ Trim(t) \/ NoteTrim(t) \/ TrimFails(t) \/ SaveCursor(t)
      BY <2>4 DEF NoteHead, EmptyPage, ReadToTrim, Trim, NoteTrim, TrimFails, SaveCursor
    <2>5. CASE AppendPage(t) \/ AppendJump(t) \/ PageFails(t) \/ JumpFails(t)
      BY <2>5 DEF AppendPage, AppendJump, PageFails, JumpFails
    <2> QED
      BY <2>1, <2>2, <2>3, <2>4, <2>5 DEF TailStep
  <1>3. \A s \in Tails : s # t => tail'[s] = tail[s]
    BY <1>2, Moves DEF CacheInv
  <1> QED
    BY <1>1, <1>3

LEMMA CacheStep ==
    ASSUME TailAssumption, MaxTorn = 0, CacheInv, [Next]_vars, [NoneTrimsBlindly]_vars
    PROVE  CacheInv'
  <1>1. TypeOK' /\ file' \in Seq(Lines) /\ RecordedLines \subseteq RecordedLines'
    BY TypeStep, StaysRecorded DEF CacheInv
  <1>2. CASE UNCHANGED <<tail, saved>>
    <2>1. \A t \in Tails : Fits(tail[t], RecordedLines') /\ 1 .. saved \subseteq RecordedLines'
      BY <1>1, FitsMore DEF CacheInv, CursorNotAhead
    <2>2. tail' = tail /\ saved' = saved
      BY <1>2
    <2>3. 1 .. saved' \subseteq RecordedLines'
      BY <1>1, <2>2 DEF CacheInv, CursorNotAhead
    <2> QED
      BY <1>1, <2>1, <2>2, <2>3 DEF CacheInv, CursorNotAhead
  <1>3. ASSUME NEW t \in Tails, Open(t) \/ TailStep(t) \/ Held(t) \/ Fails(t) \/ Stop(t) \/ StopInAppend(t)
        PROVE  CacheInv'
    <2>1. /\ Fits(tail'[t], RecordedLines') /\ 1 .. saved' \subseteq RecordedLines'
          /\ \A s \in Tails : s # t => tail'[s] = tail[s]
      BY <1>1, <1>3, TailSteps
    <2>2. ASSUME NEW s \in Tails PROVE Fits(tail'[s], RecordedLines')
      <3>1. CASE s = t
        BY <2>1, <3>1
      <3>2. CASE s # t
        <4>1. Fits(tail[s], RecordedLines')
          BY <1>1, FitsMore DEF CacheInv
        <4> QED
          BY <2>1, <3>2, <4>1
      <3> QED
        BY <3>1, <3>2
    <2> QED
      BY <1>1, <2>1, <2>2 DEF CacheInv, CursorNotAhead
  <1>4. CASE Grow \/ Refuse \/ \E c \in 0 .. MaxLines : Stick(c)
    BY <1>2, <1>4 DEF Grow, Refuse, Stick, disk
  <1>5. CASE UNCHANGED vars
    BY <1>2, <1>5 DEF vars, disk
  <1> QED
    BY <1>3, <1>4, <1>5 DEF Next

\* The saved cursor passes no line that the cache has not recorded, whatever tails share it and
\* wherever they are left or killed, as long as none trims a file that grew since it read it
\* and no append is cut in the middle of a line: it is in the file, or a read of the log's end
\* left it out, or a trim dropped it, or a write that failed and was passed over lost it.
THEOREM CursorIsNotAhead ==
    ASSUME TailAssumption, MaxTorn = 0
    PROVE  Spec /\ TrimsAlone => []CursorNotAhead
  <1>1. Init => CacheInv
    BY CacheInit
  <1>2. CacheInv /\ [Next]_vars /\ [NoneTrimsBlindly]_vars => CacheInv'
    BY CacheStep
  <1>3. CacheInv => CursorNotAhead
    BY DEF CacheInv
  <1>4. TrimsAlone => [][NoneTrimsBlindly]_vars
    BY PTL DEF TrimsAlone, NoneTrimsBlindly
  <1> QED
    BY <1>1, <1>2, <1>3, <1>4, PTL DEF Spec

-----------------------------------------------------------------------------
(* What the steps that append and trim leave a tail at; the others are not      *)
(* followed by a cursor's save.                                                  *)

LEMMA NextPhase ==
    ASSUME TailAssumption, TypeOK, NEW t \in Tails,
           Open(t) \/ TailStep(t) \/ Held(t) \/ Fails(t) \/ Stop(t) \/ StopInAppend(t)
    PROVE  \/ (AppendPage(t) \/ AppendJump(t)) /\ tail'[t].pc = "appended"
           \/ ReadToTrim(t) /\ tail'[t].pc = "trim"
           \/ Trim(t) /\ tail'[t].pc = "note"
           \/ (PageFails(t) \/ JumpFails(t) \/ NoteTrim(t) \/ TrimFails(t)) /\ tail'[t].pc = "save"
           \/ (Fetch(t) \/ Confirm(t) \/ NoteHead(t)) /\ tail'[t].pc = "got"
           \/ tail'[t].pc \in {"closed", "loaded", "poll", "confirm", "reset", "jump"}
  <1>1. tail[t] \in TailSet /\ tail \in [Tails -> TailSet]
    BY FieldTypes DEF TypeOK
  <1>2. CASE Open(t)
    BY <1>1, <1>2 DEF Becomes, Open, TailSet
  <1>3. CASE Held(t)
    BY <1>1, <1>3 DEF Becomes, Held, Polling, TailSet
  <1>4. CASE Fails(t) \/ Stop(t) \/ StopInAppend(t) \/ GiveUp(t)
    <2>1. tail'[t] = Closed
      BY <1>4, Moves DEF Fails, Stop, StopInAppend, GiveUp, Close
    <2> QED
      BY <2>1 DEF Closed
  <1>5. CASE TakeCursor(t)
    BY <1>1, <1>5 DEF Becomes, TakeCursor, TailSet
  <1>6. CASE ReadEnd(t)
    <2> DEFINE end == EndPage(RestartLines[tail[t].window])
               quiet == [tail[t] EXCEPT !.polls = 0, !.window = Least(tail[t].window + 1, Len(RestartLines))]
               fresh == [tail[t] EXCEPT !.polls = 0, !.pc = "confirm", !.page = end, !.fresh = Unseen(t, end)]
    <2>1. (Becomes(t, quiet) \/ Becomes(t, fresh)) /\ tail[t].pc = "poll"
      BY <1>6 DEF ReadEnd, Polling
    <2>2. quiet.pc = tail[t].pc /\ fresh.pc = "confirm"
      BY <1>1 DEF TailSet
    <2> HIDE DEF quiet, fresh
    <2> QED
      BY <2>1, <2>2, Moves
  <1>7. CASE Confirm(t)
    <2>1. PICK p : IF p.to = p.from
                   THEN Becomes(t, [tail[t] EXCEPT !.pc = "jump", !.cur = tail[t].page.to, !.window = 1])
                   ELSE Becomes(t, [tail[t] EXCEPT !.pc = "got", !.page = p, !.fresh = << >>])
      BY <1>7 DEF Confirm
    <2> DEFINE jump == [tail[t] EXCEPT !.pc = "jump", !.cur = tail[t].page.to, !.window = 1]
               got == [tail[t] EXCEPT !.pc = "got", !.page = p, !.fresh = << >>]
    <2>2. Becomes(t, jump) \/ Becomes(t, got)
      BY <2>1
    <2>3. jump.pc = "jump" /\ got.pc = "got"
      BY <1>1 DEF TailSet
    <2> HIDE DEF jump, got
    <2> QED
      BY <1>7, <2>2, <2>3, Moves
  <1>8. CASE Fetch(t)
    <2>1. PICK p : Becomes(t, [tail[t] EXCEPT !.pc = "got", !.page = p,
                                              !.counted = IF tail[t].cur = NoCursor /\ @ = NoCursor THEN 0 ELSE @])
      BY <1>8 DEF Fetch
    <2> QED
      BY <1>1, <1>8, <2>1 DEF Becomes, TailSet
  <1>9. CASE DropCursor(t) \/ ResetToEnd(t)
    <2>1. CASE DropCursor(t)
      BY <1>1, <2>1 DEF Becomes, DropCursor, TailSet
    <2>2. CASE ResetToEnd(t)
      <3>1. tail'[t].pc = "jump"
        BY <1>1, <2>2 DEF Becomes, ResetToEnd, TailSet
      <3> QED
        BY <3>1
    <2> QED
      BY <1>9, <2>1, <2>2
  <1>10. CASE NoteHead(t)
    BY <1>1, <1>10 DEF Becomes, NoteHead, TailSet
  <1>11. CASE AppendPage(t) \/ AppendJump(t)
    <2>1. CASE AppendPage(t)
      BY <1>1, <2>1 DEF Becomes, AppendPage, TailSet
    <2>2. CASE AppendJump(t)
      BY <1>1, <2>2 DEF Becomes, AppendJump, TailSet
    <2> QED
      BY <1>11, <2>1, <2>2
  <1>12. CASE EmptyPage(t)
    <2> DEFINE same == [tail[t] EXCEPT !.pc = "poll", !.counted = Counted(t), !.page = NoPage,
                                       !.polls = Least(tail[t].polls + 1, StallPolls)]
               next == [tail[t] EXCEPT !.pc = "poll", !.counted = Counted(t), !.page = NoPage,
                                       !.polls = 0, !.window = 1, !.cur = tail[t].page.to]
    <2>1. Becomes(t, same) \/ Becomes(t, next)
      BY <1>12 DEF EmptyPage
    <2>2. same.pc = "poll" /\ next.pc = "poll"
      BY <1>1 DEF TailSet
    <2> HIDE DEF same, next
    <2> QED
      BY <2>1, <2>2, Moves
  <1>13. CASE ReadToTrim(t)
    BY <1>1, <1>13 DEF Becomes, ReadToTrim, TailSet
  <1>14. CASE Trim(t)
    BY <1>1, <1>14 DEF Becomes, Trim, TailSet
  <1>15. CASE SaveCursor(t)
    BY <1>1, <1>15 DEF Becomes, SaveCursor, TailSet
  <1>16. CASE PageFails(t) \/ JumpFails(t) \/ NoteTrim(t) \/ TrimFails(t)
    <2>1. CASE PageFails(t)
      BY <1>1, <2>1 DEF Becomes, PageFails, TailSet
    <2>2. CASE JumpFails(t)
      BY <1>1, <2>2 DEF Becomes, JumpFails, TailSet
    <2>3. CASE NoteTrim(t)
      BY <1>1, <2>3 DEF Becomes, NoteTrim, TailSet
    <2>4. CASE TrimFails(t)
      BY <1>1, <2>4 DEF Becomes, TrimFails, TailSet
    <2> QED
      BY <1>16, <2>1, <2>2, <2>3, <2>4
  <1> QED
    BY <1>2, <1>3, <1>4, <1>5, <1>6, <1>7, <1>8, <1>9, <1>10, <1>11, <1>12, <1>13, <1>14, <1>15, <1>16 DEF TailStep

\* Only the tails write the file, and a step of theirs is one tail's.
LEMMA Steps ==
    ASSUME TypeOK, [Next]_vars
    PROVE  \/ UNCHANGED <<tail, file>>
           \/ \E t \in Tails :
                /\ Open(t) \/ TailStep(t) \/ Held(t) \/ Fails(t) \/ Stop(t) \/ StopInAppend(t)
                /\ \A s \in Tails : s # t => tail'[s] = tail[s]
  <1>1. ASSUME NEW t \in Tails, Open(t) \/ TailStep(t) \/ Held(t) \/ Fails(t) \/ Stop(t) \/ StopInAppend(t)
        PROVE  \A s \in Tails : s # t => tail'[s] = tail[s]
    <2>1. \E r : Becomes(t, r)
      <3>1. CASE Open(t) \/ Held(t) \/ Fails(t) \/ Stop(t) \/ StopInAppend(t) \/ GiveUp(t)
        BY <3>1 DEF Open, Held, Fails, Stop, StopInAppend, GiveUp, Close
      <3>2. CASE TakeCursor(t) \/ DropCursor(t) \/ ResetToEnd(t)
        BY <3>2 DEF TakeCursor, DropCursor, ResetToEnd
      <3>3. CASE ReadEnd(t) \/ Confirm(t) \/ Fetch(t)
        BY <3>3 DEF ReadEnd, Confirm, Fetch
      <3>4. CASE NoteHead(t) \/ EmptyPage(t) \/ ReadToTrim(t) \/ Trim(t) \/ NoteTrim(t) \/ TrimFails(t) \/ SaveCursor(t)
        BY <3>4 DEF NoteHead, EmptyPage, ReadToTrim, Trim, NoteTrim, TrimFails, SaveCursor
      <3>5. CASE AppendPage(t) \/ AppendJump(t) \/ PageFails(t) \/ JumpFails(t)
        BY <3>5 DEF AppendPage, AppendJump, PageFails, JumpFails
      <3> QED
        BY <1>1, <3>1, <3>2, <3>3, <3>4, <3>5 DEF TailStep
    <2> QED
      BY <2>1, Moves
  <1>2. CASE Grow \/ Refuse \/ \E c \in 0 .. MaxLines : Stick(c)
    BY <1>2 DEF Grow, Refuse, Stick, disk
  <1>3. CASE UNCHANGED vars
    BY <1>3 DEF vars, disk
  <1> QED
    BY <1>1, <1>2, <1>3 DEF Next

AloneInv == TypeOK /\ \A t \in Tails : tail[t].pc = "trim" => file = tail[t].old

\* A tail that has the cache to itself trims the file it read.
THEOREM OneTailTrimsAlone ==
    ASSUME TailAssumption, \A s, t \in Tails : s = t
    PROVE  Spec => TrimsAlone
  <1>1. Init => AloneInv
    <2> SUFFICES ASSUME Init PROVE AloneInv
      OBVIOUS
    <2>1. \A t \in Tails : tail[t].pc = "closed"
      BY DEF Init, Closed
    <2> QED
      BY <2>1, TypeInit DEF AloneInv
  <1>2. AloneInv /\ [Next]_vars => AloneInv'
    <2> SUFFICES ASSUME AloneInv, [Next]_vars PROVE AloneInv'
      OBVIOUS
    <2>1. TypeOK /\ TypeOK'
      BY TypeStep DEF AloneInv
    <2>2. CASE UNCHANGED <<tail, file>>
      BY <2>1, <2>2 DEF AloneInv
    <2>3. ASSUME NEW t \in Tails, Open(t) \/ TailStep(t) \/ Held(t) \/ Fails(t) \/ Stop(t) \/ StopInAppend(t)
          PROVE  AloneInv'
      <3>1. CASE ReadToTrim(t)
        <4>1. tail'[t].old = file /\ file' = file
          BY <2>1, <3>1, FieldTypes DEF TypeOK, Becomes, ReadToTrim, TailSet, disk
        <4> QED
          BY <2>1, <4>1 DEF AloneInv
      <3>2. CASE ~ReadToTrim(t)
        <4>1. tail'[t].pc # "trim"
          BY <2>1, <2>3, <3>2, NextPhase
        <4> QED
          BY <2>1, <4>1 DEF AloneInv
      <3> QED
        BY <3>1, <3>2
    <2> QED
      BY <2>1, <2>2, <2>3, Steps
  <1>3. AloneInv => NoneTrimsBlindly
    BY DEF AloneInv, NoneTrimsBlindly, Trim
  <1>4. Spec => [][NoneTrimsBlindly]_vars
    BY <1>1, <1>2, <1>3, PTL DEF Spec
  <1> QED
    BY <1>4, PTL DEF TrimsAlone, NoneTrimsBlindly

\* So one TUI's cache keeps up with its cursor, whatever it is left or killed at: apart from a
\* torn line, its cursor passes only lines that were trimmed, left out, or whose write failed.
COROLLARY CursorOfOneTail ==
    ASSUME TailAssumption, MaxTorn = 0, \A s, t \in Tails : s = t
    PROVE  Spec => []CursorNotAhead
  <1>1. Spec => TrimsAlone
    BY OneTailTrimsAlone
  <1>2. Spec /\ TrimsAlone => []CursorNotAhead
    BY CursorIsNotAhead
  <1> QED
    BY <1>1, <1>2, PTL

-----------------------------------------------------------------------------
(* The live part of a pane.                                                      *)

\* Lines about to be shown follow the cursor, or the pane has just noted a gap.
Follows(r) ==
    /\ r.pc \in {"appended", "trim", "note", "save"} =>
         \/ r.cur = NoCursor
         \/ r.shown # << >> /\ Last(r.shown) = Gap
         \/ r.fresh = LinesOf(r.page) /\ r.page.from = r.cur
    /\ r.pc = "got" => r.cur = NoCursor \/ r.page.from = r.cur

LiveInv == TypeOK /\ \A t \in Tails : Follows(tail[t])

LEMMA LastOfAppend ==
    ASSUME NEW S, NEW f \in Seq(S), NEW x \in S
    PROVE  Append(f, x) # << >> /\ Last(Append(f, x)) = x
  <1>1. Len(Append(f, x)) = Len(f) + 1 /\ Append(f, x)[Len(f) + 1] = x /\ Len(f) \in Nat
    OBVIOUS
  <1>2. Len(<< >>) = 0
    OBVIOUS
  <1> QED
    BY <1>1, <1>2 DEF Last

LEMMA FollowsStep ==
    ASSUME TailAssumption, LiveInv, NEW t \in Tails,
           Open(t) \/ TailStep(t) \/ Held(t) \/ Fails(t) \/ Stop(t) \/ StopInAppend(t)
    PROVE  Follows(tail'[t])
  <1>1. TypeOK /\ tail[t] \in TailSet /\ tail \in [Tails -> TailSet] /\ Follows(tail[t])
    BY FieldTypes DEF LiveInv, TypeOK
  <1>2. CASE AppendPage(t) \/ PageFails(t)
    <2>1. tail[t].pc = "got" /\ tail'[t].pc \in {"appended", "save"} /\ tail'[t].cur = tail[t].cur
          /\ tail'[t].page = tail[t].page /\ tail'[t].fresh = LinesOf(tail[t].page)
      <3>1. CASE AppendPage(t)
        BY <1>1, <3>1 DEF Becomes, AppendPage, HasPage, TailSet
      <3>2. CASE PageFails(t)
        BY <1>1, <3>2 DEF Becomes, PageFails, HasPage, TailSet
      <3> QED
        BY <1>2, <3>1, <3>2
    <2> QED
      BY <1>1, <2>1 DEF Follows
  <1>3. CASE AppendJump(t) \/ JumpFails(t)
    <2>1. tail'[t].pc \in {"appended", "save"} /\ tail'[t].shown = Append(tail[t].shown, Gap)
      <3>1. CASE AppendJump(t)
        BY <1>1, <3>1 DEF Becomes, AppendJump, TailSet
      <3>2. CASE JumpFails(t)
        BY <1>1, <3>2 DEF Becomes, JumpFails, TailSet
      <3> QED
        BY <1>3, <3>1, <3>2
    <2>2. tail'[t].shown # << >> /\ Last(tail'[t].shown) = Gap
      <3>1. tail[t].shown \in Seq({Gap} \cup Lines)
        BY <1>1, FieldTypes
      <3>2. Gap \in {Gap} \cup Lines
        OBVIOUS
      <3>3. Append(tail[t].shown, Gap) # << >> /\ Last(Append(tail[t].shown, Gap)) = Gap
        BY <3>1, <3>2, LastOfAppend
      <3> QED
        BY <2>1, <3>3
    <2> QED
      BY <2>1, <2>2 DEF Follows
  <1>4. CASE ReadToTrim(t) \/ Trim(t) \/ NoteTrim(t) \/ TrimFails(t)
    <2>1. /\ tail[t].pc \in {"appended", "trim", "note"} /\ tail'[t].pc \in {"trim", "note", "save"}
          /\ tail'[t].cur = tail[t].cur
          /\ tail'[t].page = tail[t].page /\ tail'[t].fresh = tail[t].fresh /\ tail'[t].shown = tail[t].shown
      <3>1. CASE ReadToTrim(t)
        BY <1>1, <3>1 DEF Becomes, ReadToTrim, TooLong, TailSet
      <3>2. CASE Trim(t)
        BY <1>1, <3>2 DEF Becomes, Trim, TailSet
      <3>3. CASE NoteTrim(t)
        BY <1>1, <3>3 DEF Becomes, NoteTrim, TailSet
      <3>4. CASE TrimFails(t)
        BY <1>1, <3>4 DEF Becomes, TrimFails, TailSet
      <3> QED
        BY <1>4, <3>1, <3>2, <3>3, <3>4
    <2> QED
      BY <1>1, <2>1 DEF Follows
  <1>5. CASE Fetch(t)
    <2>1. PICK p \in Pages(tail[t].cur) :
            Becomes(t, [tail[t] EXCEPT !.pc = "got", !.page = p,
                                       !.counted = IF tail[t].cur = NoCursor /\ @ = NoCursor THEN 0 ELSE @])
      BY <1>5 DEF Fetch
    <2>2. tail'[t].pc = "got" /\ tail'[t].page = p /\ tail'[t].cur = tail[t].cur
      BY <1>1, <2>1 DEF Becomes, TailSet
    <2>3. tail[t].cur # NoCursor => p.from = tail[t].cur
      BY <1>1, CursorPages, FieldTypes DEF TypeOK
    <2> QED
      BY <2>2, <2>3 DEF Follows
  <1>6. CASE Confirm(t) /\ tail'[t].pc = "got"
    <2>1. PICK p \in Pages(tail[t].cur) :
            IF p.to = p.from
            THEN Becomes(t, [tail[t] EXCEPT !.pc = "jump", !.cur = tail[t].page.to, !.window = 1])
            ELSE Becomes(t, [tail[t] EXCEPT !.pc = "got", !.page = p, !.fresh = << >>])
      BY <1>6 DEF Confirm
    <2>2. p.to # p.from
      BY <1>1, <1>6, <2>1, ZenonT(40) DEF Becomes, TailSet
    <2>3. tail'[t].pc = "got" /\ tail'[t].page = p /\ tail'[t].cur = tail[t].cur
      <3> DEFINE got == [tail[t] EXCEPT !.pc = "got", !.page = p, !.fresh = << >>]
      <3>1. Becomes(t, got)
        BY <2>1, <2>2
      <3>2. got.pc = "got" /\ got.page = p /\ got.cur = tail[t].cur
        BY <1>1 DEF TailSet
      <3> HIDE DEF got
      <3> QED
        BY <1>1, <3>1, <3>2, Moves
    <2>4. tail[t].cur # NoCursor => p.from = tail[t].cur
      BY <1>1, CursorPages, FieldTypes DEF TypeOK
    <2> QED
      BY <2>3, <2>4 DEF Follows
  <1>7. CASE NoteHead(t)
    <2>1. tail[t].pc = "got" /\ tail'[t].pc = "got" /\ tail'[t].page = tail[t].page /\ tail'[t].cur = tail[t].cur
      BY <1>1, <1>7 DEF Becomes, NoteHead, TailSet
    <2> QED
      BY <1>1, <2>1 DEF Follows
  <1>8. CASE tail'[t].pc \in {"closed", "loaded", "poll", "confirm", "reset", "jump"}
    BY <1>8 DEF Follows
  <1> QED
    BY <1>1, <1>2, <1>3, <1>4, <1>5, <1>6, <1>7, <1>8, NextPhase

\* Lines shown live after others follow them in the log, or a note stands between them: a
\* restart or a reset never hides that it jumped.
THEOREM LiveLinesDoFollow ==
    ASSUME TailAssumption
    PROVE  Spec => LiveLinesFollow
  <1> DEFINE Step == \A t \in Tails : FollowsOrNotes(t)
  <1>1. Init => LiveInv
    <2> SUFFICES ASSUME Init PROVE LiveInv
      OBVIOUS
    <2>1. \A t \in Tails : tail[t].pc = "closed"
      BY DEF Init, Closed
    <2> QED
      BY <2>1, TypeInit DEF LiveInv, Follows
  <1>2. LiveInv /\ [Next]_vars => LiveInv'
    <2> SUFFICES ASSUME LiveInv, [Next]_vars PROVE LiveInv'
      OBVIOUS
    <2>1. TypeOK /\ TypeOK'
      BY TypeStep DEF LiveInv
    <2>2. CASE UNCHANGED <<tail, file>>
      BY <2>1, <2>2 DEF LiveInv
    <2>3. ASSUME NEW t \in Tails, Open(t) \/ TailStep(t) \/ Held(t) \/ Fails(t) \/ Stop(t) \/ StopInAppend(t),
                 \A s \in Tails : s # t => tail'[s] = tail[s]
          PROVE  LiveInv'
      <3>1. Follows(tail'[t])
        BY <2>3, FollowsStep
      <3>2. ASSUME NEW s \in Tails PROVE Follows(tail'[s])
        <4>1. CASE s = t
          BY <3>1, <4>1
        <4>2. CASE s # t
          BY <2>3, <4>2 DEF LiveInv
        <4> QED
          BY <4>1, <4>2
      <3> QED
        BY <2>1, <3>2 DEF LiveInv
    <2> QED
      BY <2>1, <2>2, <2>3, Steps
  <1>3. LiveInv => [Step]_vars
    <2> SUFFICES ASSUME LiveInv, NEW t \in Tails PROVE FollowsOrNotes(t)
      OBVIOUS
    <2>1. SUFFICES ASSUME tail[t].pc \in {"appended", "save"}, tail[t].fresh # << >>, tail[t].cur # NoCursor,
                          tail[t].fresh = LinesOf(tail[t].page), tail[t].page.from = tail[t].cur
                   PROVE  Head(tail[t].fresh) = tail[t].cur + 1
      BY DEF LiveInv, Follows, FollowsOrNotes
    <2> DEFINE f == tail[t].fresh
               p == tail[t].page
    <2>2. f \in Seq(Lines) /\ p.from \in 0 .. MaxLines /\ p.to \in 0 .. MaxLines
      BY FieldTypes DEF LiveInv
    <2>3. f = [i \in 1 .. p.to - p.from |-> p.from + i]
      BY <2>1 DEF LinesOf
    <2>4. f # << >> /\ p.from = tail[t].cur
      BY <2>1
    <2> HIDE DEF f, p
    <2>5. Len(f) \in Nat /\ DOMAIN f = 1 .. Len(f) /\ Len(f) # 0
      BY <2>2, <2>4
    <2>6. 1 \in DOMAIN f /\ Head(f) = f[1]
      BY <2>2, <2>4, <2>5
    <2>7. f[1] = p.from + 1
      BY <2>3, <2>6
    <2> QED
      BY <2>4, <2>6, <2>7 DEF f
  <1>4. Spec => [][Step]_vars
    BY <1>1, <1>2, <1>3, PTL DEF Spec
  <1> QED
    BY <1>4 DEF LiveLinesFollow

=============================================================================
