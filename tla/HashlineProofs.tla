----------------------------- MODULE HashlineProofs -----------------------------
(***************************************************************************)
(* Hash-anchored editing does what a script says, for any file, any script *)
(* and any change of the file in between.  AfterRounds and Rest are        *)
(* recursive functions, one over sets of edits and one over lines; what    *)
(* they compute is proved by induction over numbers.                       *)
(***************************************************************************)
EXTENDS Hashline, SequenceTheorems, WellFoundedInduction, FiniteSetTheorems, TLAPS

-----------------------------------------------------------------------------
(* Induction over an interval.                                             *)

LEMMA Least ==
    ASSUME NEW T \in SUBSET Nat, T # {}
    PROVE  \E m \in T : \A k \in T : m <= k
<1>1. PICK n \in T : TRUE
  OBVIOUS
<1> DEFINE Below == {0 .. k : k \in {j \in T : j <= n}}
<1>2. IsWellFoundedOn(StrictSubsetOrdering(0 .. n), FiniteSubsetsOf(0 .. n))
  BY FS_StrictSubsetOrderingWellFounded
<1>3. Below \subseteq FiniteSubsetsOf(0 .. n) /\ Below # {}
  <2>1. \A k \in Nat : k <= n => 0 .. k \subseteq 0 .. n /\ IsFiniteSet(0 .. k)
    BY FS_Interval
  <2>2. 0 .. n \in Below
    OBVIOUS
  <2>3. QED
    BY <2>1, <2>2 DEF FiniteSubsetsOf
<1>4. PICK b \in Below : \A c \in Below : <<c, b>> \notin StrictSubsetOrdering(0 .. n)
  BY <1>2, <1>3, WFMin
<1>5. PICK m \in T : m <= n /\ b = 0 .. m
  OBVIOUS
<1>6. ASSUME NEW k \in T, k < m PROVE FALSE
  <2>1. 0 .. k \in Below
    BY <1>6, <1>5
  <2>2. 0 .. k \subseteq 0 .. m /\ m \in 0 .. m /\ m \notin 0 .. k /\ 0 .. m \subseteq 0 .. n
    BY <1>5, <1>6
  <2>3. <<0 .. k, 0 .. m>> \in StrictSubsetOrdering(0 .. n)
    BY <2>2 DEF StrictSubsetOrdering
  <2>4. QED
    BY <2>1, <2>3, <1>4, <1>5
<1>7. QED
  BY <1>6

\* A set that holds 0 and, with each number, the next one holds all of 0 .. n.
LEMMA Induction ==
    ASSUME NEW n \in Nat, NEW S, 0 \in S, \A i \in 1 .. n : i - 1 \in S => i \in S
    PROVE  \A i \in 0 .. n : i \in S
<1> DEFINE T == {i \in 0 .. n : i \notin S}
<1>1. ASSUME T # {} PROVE FALSE
  <2>1. PICK m \in T : \A k \in T : m <= k
    <3>1. T \in SUBSET Nat /\ T # {}
      BY <1>1
    <3> HIDE DEF T
    <3>2. QED
      BY <3>1, Least
  <2>2. m \in 1 .. n /\ m - 1 \in 0 .. n /\ ~(m <= m - 1)
    BY <2>1
  <2>3. m - 1 \in S
    BY <2>1, <2>2
  <2>4. QED
    BY <2>1, <2>2, <2>3
<1>2. QED
  BY <1>1


-----------------------------------------------------------------------------
(* The order of the edits.                                                  *)

\* What is known of the edits of a script that was validated against lines.
Fits(lines, e) ==
    /\ e.op \in Ops
    /\ e.start \in 1 .. Len(lines) /\ e.end \in e.start .. Len(lines)
    /\ e.content \in Seq(Texts)
    /\ e.op \in {"insert_after", "insert_before"} => e.start = e.end
    /\ e.op = "delete" => e.content = <<>>

\* One edit of a set that is not empty comes last in the order.
LEMMA FinalExists ==
  ASSUME NEW edits, NEW n \in Nat, NEW S \in SUBSET (1 .. n), S # {},
         \A i \in S : edits[i].start \in Nat
  PROVE  /\ FinalOf(edits, S) \in S
         /\ \A j \in S \ {FinalOf(edits, S)} : Before(edits, j, FinalOf(edits, S))
<1> DEFINE starts == {edits[i].start : i \in S}
<1>1. PICK m \in starts : \A k \in starts : m <= k
  <2>1. starts \in SUBSET Nat /\ starts # {}
    OBVIOUS
  <2> HIDE DEF starts
  <2>2. QED
    BY <2>1, Least
<1> DEFINE ends == {n - i : i \in {j \in S : edits[j].start = m}}
<1>2. PICK d \in ends : \A k \in ends : d <= k
  <2>1. ends \in SUBSET Nat /\ ends # {}
    BY <1>1
  <2> HIDE DEF ends
  <2>2. QED
    BY <2>1, Least
<1>3. PICK i \in S : edits[i].start = m /\ d = n - i
  BY <1>2
<1>4. ASSUME NEW j \in S \ {i} PROVE Before(edits, j, i)
  <2>1. edits[j].start >= m /\ edits[j].start \in Nat /\ m \in Nat
    BY <1>1, <1>4
  <2>2. CASE edits[j].start = m
    <3>1. n - j \in ends
      BY <1>4, <2>2
    <3>2. d <= n - j /\ i # j
      BY <1>2, <1>4, <3>1
    <3>3. j < i
      <4>1. i \in 1 .. n /\ j \in 1 .. n
        OBVIOUS
      <4>2. QED
        BY <1>3, <3>2, <4>1
    <3>4. QED
      BY <1>3, <2>2, <3>3 DEF Before
  <2>3. CASE edits[j].start # m
    BY <1>3, <2>1, <2>3 DEF Before
  <2>4. QED
    BY <2>2, <2>3
<1>5. \E x \in S : \A j \in S \ {x} : Before(edits, j, x)
  BY <1>3, <1>4
<1>6. QED
  BY <1>5, Zenon DEF FinalOf

-----------------------------------------------------------------------------
(* The rounds of the loop.                                                  *)

Round(f, lines, edits, S) ==
    IF S = {} THEN lines ELSE ApplyOne(f[S \ {FinalOf(edits, S)}], edits[FinalOf(edits, S)])

UpTo(n, m) == {S \in SUBSET (1 .. n) : Cardinality(S) <= m}

\* A set of edits has no more of them than there are, and one less without one.
LEMMA Sizes ==
  ASSUME NEW n \in Nat, NEW S \in SUBSET (1 .. n)
  PROVE  /\ IsFiniteSet(S) /\ Cardinality(S) \in 0 .. n
         /\ Cardinality(S) = 0 <=> S = {}
         /\ \A x \in S : /\ S \ {x} \in SUBSET (1 .. n)
                         /\ Cardinality(S \ {x}) = Cardinality(S) - 1
<1>1. IsFiniteSet(1 .. n) /\ Cardinality(1 .. n) = n
  BY FS_Interval
<1>2. IsFiniteSet(S) /\ Cardinality(S) <= n
  BY <1>1, FS_Subset
<1>3. Cardinality(S) \in Nat /\ (Cardinality(S) = 0 <=> S = {})
  BY <1>2, FS_CardinalityType, FS_EmptySet
<1>4. ASSUME NEW x \in S PROVE Cardinality(S \ {x}) = Cardinality(S) - 1
  BY <1>2, FS_RemoveElement
<1>5. QED
  BY <1>2, <1>3, <1>4

LEMMA RoundsExist ==
  ASSUME NEW lines, NEW edits, NEW n \in Nat, \A i \in 1 .. n : edits[i].start \in Nat
  PROVE  \E f : f = [S \in SUBSET (1 .. n) |-> Round(f, lines, edits, S)]
<1> DEFINE P == {m \in 0 .. n : \E f : f = [S \in UpTo(n, m) |-> Round(f, lines, edits, S)]}
<1>1. 0 \in P
  <2>1. ASSUME NEW S \in UpTo(n, 0) PROVE S = {}
    <3>1. S \in SUBSET (1 .. n) /\ Cardinality(S) <= 0
      BY DEF UpTo
    <3>2. Cardinality(S) \in 0 .. n /\ (Cardinality(S) = 0 => S = {})
      BY <3>1, Sizes
    <3>3. QED
      BY <3>1, <3>2
  <2> DEFINE f == [S \in UpTo(n, 0) |-> lines]
  <2>2. f = [S \in UpTo(n, 0) |-> Round(f, lines, edits, S)]
    BY <2>1 DEF Round
  <2>3. QED
    BY <2>2
<1>2. ASSUME NEW m \in 1 .. n, m - 1 \in P PROVE m \in P
  <2>1. PICK f : f = [S \in UpTo(n, m - 1) |-> Round(f, lines, edits, S)]
    BY <1>2
  <2> DEFINE g == [S \in UpTo(n, m) |-> Round(f, lines, edits, S)]
  <2>2. ASSUME NEW S \in UpTo(n, m) PROVE Round(f, lines, edits, S) = Round(g, lines, edits, S)
    <3>1. CASE S = {}
      BY <3>1 DEF Round
    <3>2. CASE S # {}
      <4>1. FinalOf(edits, S) \in S /\ S \in SUBSET (1 .. n)
        BY <3>2, FinalExists DEF UpTo
      <4> DEFINE less == S \ {FinalOf(edits, S)}
      <4>2. less \in UpTo(n, m - 1) /\ less \in UpTo(n, m)
        <5>1. less \in SUBSET (1 .. n) /\ Cardinality(less) = Cardinality(S) - 1
          BY <4>1, Sizes
        <5>2. Cardinality(S) \in 0 .. n
          BY <4>1, Sizes
        <5>3. Cardinality(S) <= m
          BY DEF UpTo
        <5> HIDE DEF less
        <5>4. Cardinality(less) <= m - 1 /\ Cardinality(less) <= m
          BY <5>1, <5>2, <5>3
        <5>5. QED
          BY <5>1, <5>4 DEF UpTo
      <4>3. f[less] = Round(f, lines, edits, less)
        BY <2>1, <4>2, Zenon
      <4>4. g[less] = Round(f, lines, edits, less)
        BY <4>2, Zenon
      <4>5. QED
        BY <3>2, <4>3, <4>4, Zenon DEF Round
    <3>3. QED
      BY <3>1, <3>2
  <2>3. g = [S \in UpTo(n, m) |-> Round(g, lines, edits, S)]
    BY <2>2, Zenon
  <2> HIDE DEF g
  <2>4. \E h : h = [S \in UpTo(n, m) |-> Round(h, lines, edits, S)]
    BY <2>3
  <2>5. QED
    BY <2>4
<1>3. n \in P
  <2>1. n \in 0 .. n
    OBVIOUS
  <2> HIDE DEF P
  <2>2. QED
    BY <1>1, <1>2, <2>1, Induction
<1>4. UpTo(n, n) = SUBSET (1 .. n)
  BY Sizes DEF UpTo
<1>5. QED
  BY <1>3, <1>4

\* The rounds as AfterRounds computes them.
LEMMA RoundsAre ==
  ASSUME NEW lines, NEW edits, NEW n \in Nat, DOMAIN edits = 1 .. n,
         \A i \in 1 .. n : edits[i].start \in Nat
  PROVE  /\ AfterRounds(lines, edits)[{}] = lines
         /\ \A S \in SUBSET (1 .. n) : S # {} =>
               AfterRounds(lines, edits)[S]
                 = ApplyOne(AfterRounds(lines, edits)[S \ {FinalOf(edits, S)}], edits[FinalOf(edits, S)])
<1> DEFINE f == AfterRounds(lines, edits)
<1>1. f = CHOOSE g : g = [S \in SUBSET (1 .. n) |-> Round(g, lines, edits, S)]
  BY Zenon DEF AfterRounds, Round
<1>2. f = [S \in SUBSET (1 .. n) |-> Round(f, lines, edits, S)]
  BY <1>1, RoundsExist
<1> HIDE DEF f
<1>3. \A S \in SUBSET (1 .. n) : f[S] = Round(f, lines, edits, S)
  BY <1>2, Zenon
<1>4. QED
  BY <1>3, Zenon DEF f, Round

-----------------------------------------------------------------------------
(* Beginnings and ends of sequences.                                        *)

\* The first m entries of a sequence, followed by another one.
Joined(s, m, r) == SubSeq(s, 1, m) \o r

\* A sequence of length m, followed by another one.
LEMMA ConcatIs ==
  ASSUME NEW T, NEW a \in Seq(T), NEW r \in Seq(T), NEW m, m = Len(a)
  PROVE  /\ a \o r \in Seq(T) /\ Len(a \o r) = m + Len(r) /\ Len(r) \in Nat
         /\ \A i \in 1 .. m : (a \o r)[i] = a[i]
         /\ \A i \in m + 1 .. m + Len(r) : (a \o r)[i] = r[i - m]
<1>1. a \o r \in Seq(T) /\ Len(a \o r) = m + Len(r)
  BY ConcatProperties
<1>2. m \in Nat /\ Len(r) \in Nat
  BY LenProperties
<1>3. \A i \in 1 .. m + Len(r) : (a \o r)[i] = IF i <= m THEN a[i] ELSE r[i - m]
  BY ConcatProperties
<1> DEFINE c == a \o r
           n == Len(r)
<1> HIDE DEF c, n
<1>4. m \in Nat /\ n \in Nat /\ \A i \in 1 .. m + n : c[i] = IF i <= m THEN a[i] ELSE r[i - m]
  BY <1>2, <1>3 DEF c, n
<1>5. ASSUME NEW i \in 1 .. m PROVE c[i] = a[i]
  BY <1>4
<1>6. ASSUME NEW i \in m + 1 .. m + n PROVE c[i] = r[i - m]
  BY <1>4
<1>7. QED
  BY <1>1, <1>2, <1>5, <1>6 DEF c, n

\* u has the first m entries of s and those of r.
IsJoined(u, s, m, r) ==
    /\ Len(u) = m + Len(r) /\ Len(r) \in Nat
    /\ \A i \in 1 .. m : u[i] = s[i]
    /\ \A i \in m + 1 .. m + Len(r) : u[i] = r[i - m]

LEMMA JoinedIs ==
  ASSUME NEW T, NEW s \in Seq(T), NEW r \in Seq(T), NEW m \in 0 .. Len(s)
  PROVE  Joined(s, m, r) \in Seq(T) /\ IsJoined(Joined(s, m, r), s, m, r)
<1> DEFINE b == SubSeq(s, 1, m)
<1>1. b \in Seq(T) /\ Len(b) = m /\ \A i \in 1 .. m : b[i] = s[i]
  BY SubSeqProperties
<1> HIDE DEF b
<1>2. b \o r \in Seq(T) /\ Len(b \o r) = m + Len(r) /\ Len(r) \in Nat
  BY <1>1, ConcatIs
<1>3. \A i \in 1 .. m : (b \o r)[i] = b[i]
  BY <1>1, ConcatIs
<1>4. \A i \in m + 1 .. m + Len(r) : (b \o r)[i] = r[i - m]
  BY <1>1, ConcatIs
<1>5. QED
  BY <1>1, <1>2, <1>3, <1>4 DEF Joined, b, IsJoined

\* The next entry can be counted to either part.
LEMMA JoinedShift ==
  ASSUME NEW T, NEW s \in Seq(T), NEW r \in Seq(T), NEW m \in 0 .. Len(s), m < Len(s)
  PROVE  /\ <<s[m + 1]>> \o r \in Seq(T)
         /\ Joined(s, m, <<s[m + 1]>> \o r) = Joined(s, m + 1, r)
<1> PICK x : x = s[m + 1]
  OBVIOUS
<1> PICK w : w = <<x>>
  OBVIOUS
<1>1. x \in T /\ m + 1 \in 0 .. Len(s) /\ m + 1 \in 1 .. Len(s) /\ m \in Nat
  OBVIOUS
<1>2. w \in Seq(T) /\ Len(w) = 1 /\ w[1] = x
  BY <1>1
<1> PICK k : k = Len(w)
  OBVIOUS
<1>3. PICK l \in 0 .. Len(s) : l = m + 1
  BY <1>1
<1> DEFINE q == w \o r
           u == Joined(s, m, q)
           v == Joined(s, l, r)
           n == Len(r)
<1>4. q \in Seq(T) /\ Len(q) = k + n /\ n \in Nat
  BY <1>2, ConcatIs
<1>5. \A i \in 1 .. k : q[i] = w[i]
  BY <1>2, ConcatIs
<1>6. \A i \in k + 1 .. k + n : q[i] = r[i - k]
  BY <1>2, ConcatIs
<1>7. q \in Seq(T)
  BY <1>4
<1> HIDE DEF q
<1>8. u \in Seq(T) /\ IsJoined(u, s, m, q)
  BY <1>7, JoinedIs
<1>9. v \in Seq(T) /\ IsJoined(v, s, l, r)
  BY JoinedIs
<1> HIDE DEF u, v
<1>10. Len(u) = m + Len(q) /\ \A i \in 1 .. m : u[i] = s[i]
  BY <1>8 DEF IsJoined
<1>11. \A i \in m + 1 .. m + Len(q) : u[i] = q[i - m]
  BY <1>8 DEF IsJoined
<1>12. Len(v) = m + 1 + n /\ \A i \in 1 .. m + 1 : v[i] = s[i]
  BY <1>3, <1>9 DEF IsJoined
<1>13. \A i \in m + 1 + 1 .. m + 1 + n : v[i] = r[i - (m + 1)]
  BY <1>3, <1>9 DEF IsJoined
<1> HIDE DEF n
<1>14. Len(q) = 1 + n /\ k = 1 /\ n \in Nat /\ Len(u) = Len(v)
  BY <1>1, <1>2, <1>4, <1>10, <1>12
<1>15. ASSUME NEW i \in 1 .. Len(u) PROVE u[i] = v[i]
  <2>1. CASE i <= m
    BY <1>1, <1>10, <1>12, <2>1
  <2>2. CASE i = m + 1
    <3>1. u[i] = q[1] /\ v[i] = s[m + 1]
      BY <1>1, <1>14, <1>11, <1>12, <2>2
    <3>2. QED
      BY <3>1, <1>2, <1>5, <1>14
  <2>3. CASE i > m + 1
    <3>1. i \in m + 1 .. m + Len(q) /\ i \in m + 1 + 1 .. m + 1 + n /\ i - m \in k + 1 .. k + n
      BY <1>1, <1>10, <1>14, <2>3
    <3>2. u[i] = q[i - m] /\ v[i] = r[i - (m + 1)] /\ q[i - m] = r[(i - m) - k]
      BY <1>6, <1>11, <1>13, <3>1
    <3>3. (i - m) - k = i - (m + 1)
      BY <1>1, <1>14
    <3>4. QED
      BY <3>2, <3>3
  <2>4. i \in Nat /\ (i <= m \/ i = m + 1 \/ i > m + 1)
    BY <1>1, <1>10, <1>14
  <2>5. QED
    BY <2>1, <2>2, <2>3, <2>4
<1>16. u = v
  BY <1>8, <1>9, <1>14, <1>15, SeqEqual
<1>17. QED
  BY <1>3, <1>7, <1>16 DEF q, u, v

\* A beginning of a joined sequence is one of s, and its end is r.
Parts(u, s, m, r) ==
    /\ \A k \in 0 .. m : SubSeq(u, 1, k) = SubSeq(s, 1, k)
    /\ SubSeq(u, m + 1, Len(u)) = r

LEMMA JoinedParts ==
  ASSUME NEW T, NEW s \in Seq(T), NEW r \in Seq(T), NEW m \in 0 .. Len(s)
  PROVE  Parts(Joined(s, m, r), s, m, r)
<1> PICK n : n = Len(r)
  OBVIOUS
<1> DEFINE u == Joined(s, m, r)
<1>1. u \in Seq(T) /\ IsJoined(u, s, m, r)
  BY JoinedIs
<1> HIDE DEF u
<1>2. u \in Seq(T) /\ Len(u) = m + n /\ n \in Nat /\ m \in Nat
  <2>1. Len(s) \in Nat /\ Len(r) \in Nat
    BY LenProperties
  <2>2. QED
    BY <1>1, <2>1 DEF IsJoined
<1>3. \A i \in 1 .. m : u[i] = s[i]
  BY <1>1 DEF IsJoined
<1>4. \A i \in m + 1 .. m + n : u[i] = r[i - m]
  BY <1>1 DEF IsJoined
<1>5. ASSUME NEW k \in 0 .. m PROVE SubSeq(u, 1, k) = SubSeq(s, 1, k)
  <2> DEFINE a == SubSeq(u, 1, k)
             b == SubSeq(s, 1, k)
  <2>1. a \in Seq(T) /\ Len(a) = k /\ \A i \in 1 .. k : a[i] = u[i]
    BY <1>2, SubSeqProperties
  <2>2. b \in Seq(T) /\ Len(b) = k /\ \A i \in 1 .. k : b[i] = s[i]
    BY SubSeqProperties
  <2> HIDE DEF a, b
  <2>3. \A i \in 1 .. Len(a) : a[i] = b[i]
    BY <1>3, <2>1, <2>2
  <2>4. a = b
    BY <2>1, <2>2, <2>3, SeqEqual
  <2>5. QED
    BY <2>4 DEF a, b
<1>6. SubSeq(u, m + 1, Len(u)) = r
  <2> PICK z : z = m + n
    OBVIOUS
  <2> PICK h : h = m + 1
    OBVIOUS
  <2> DEFINE a == SubSeq(u, h, z)
  <2>1. \A i \in h .. z : u[i] \in T
    BY <1>2
  <2>2. a \in Seq(T)
    BY <1>2, <2>1, SubSeqProperties
  <2>3. Len(a) = IF h <= z THEN z - h + 1 ELSE 0
    BY <1>2, <2>1, SubSeqProperties
  <2>4. \A i \in 1 .. z - h + 1 : a[i] = u[h + i - 1]
    BY <1>2, <2>1, SubSeqProperties
  <2> HIDE DEF a
  <2>5. Len(a) = n /\ z - h + 1 = n
    BY <1>2, <2>3
  <2>6. ASSUME NEW i \in 1 .. n PROVE a[i] = r[i]
    <3>1. h + i - 1 = m + i /\ m + i \in m + 1 .. m + n /\ (m + i) - m = i
      BY <1>2
    <3>2. a[i] = u[m + i]
      BY <2>4, <2>5, <3>1
    <3>3. u[m + i] = r[(m + i) - m]
      BY <1>4, <3>1
    <3>4. QED
      BY <3>1, <3>2, <3>3
  <2>7. a = r
    BY <2>2, <2>5, <2>6, SeqEqual
  <2>8. QED
    BY <1>2, <2>7 DEF a
<1>7. QED
  BY <1>5, <1>6 DEF u, Parts

-----------------------------------------------------------------------------
(* One edit.                                                                *)

\* What ApplyOne does for each of the operations.
LEMMA Operations ==
  ASSUME NEW lines, NEW e
  PROVE  /\ e.op = "replace" => ApplyOne(lines, e) = Splice(lines, e.start - 1, e.end, e.content)
         /\ e.op = "delete" => ApplyOne(lines, e) = Splice(lines, e.start - 1, e.end, <<>>)
         /\ e.op = "insert_after" => ApplyOne(lines, e) = Splice(lines, e.start, e.start, e.content)
         /\ e.op = "insert_before" =>
               ApplyOne(lines, e) = Splice(lines, e.start - 1, e.start - 1, e.content)
<1>1. ASSUME e.op = "replace" PROVE ApplyOne(lines, e) = Splice(lines, e.start - 1, e.end, e.content)
  BY <1>1 DEF ApplyOne
<1>2. ASSUME e.op = "delete" PROVE ApplyOne(lines, e) = Splice(lines, e.start - 1, e.end, <<>>)
  BY <1>2 DEF ApplyOne
<1>3. ASSUME e.op = "insert_after"
      PROVE  ApplyOne(lines, e) = Splice(lines, e.start, e.start, e.content)
  BY <1>3 DEF ApplyOne
<1>4. ASSUME e.op = "insert_before"
      PROVE  ApplyOne(lines, e) = Splice(lines, e.start - 1, e.start - 1, e.content)
  BY <1>4 DEF ApplyOne
<1>5. QED
  BY <1>1, <1>2, <1>3, <1>4

\* A splice of lines into lines gives lines, wherever it is made.
LEMMA SpliceType ==
  ASSUME NEW T, NEW lines \in Seq(T), NEW a \in Nat, NEW e \in Nat, NEW new \in Seq(T)
  PROVE  Splice(lines, a, e, new) \in Seq(T)
<1> PICK n : n = Len(lines)
  OBVIOUS
<1> PICK c : c = (IF a < n THEN a ELSE n)
  OBVIOUS
<1>1. n \in Nat /\ c \in 0 .. n
  BY LenProperties
<1>2. SubSeq(lines, 1, c) \in Seq(T)
  <2>1. \A i \in 1 .. c : lines[i] \in T
    BY <1>1
  <2>2. QED
    BY <1>1, <2>1, SubSeqProperties
<1>3. SubSeq(lines, e + 1, n) \in Seq(T)
  <2>1. \A i \in e + 1 .. n : lines[i] \in T
    BY <1>1
  <2>2. QED
    BY <1>1, <2>1, SubSeqProperties
<1> PICK p : p = SubSeq(lines, 1, c)
  OBVIOUS
<1> PICK q : q = SubSeq(lines, e + 1, n)
  OBVIOUS
<1>4. p \o new \in Seq(T)
  BY <1>2, ConcatProperties
<1> PICK pn : pn = p \o new
  OBVIOUS
<1>5. pn \o q \in Seq(T)
  BY <1>3, <1>4, ConcatProperties
<1>6. Splice(lines, a, e, new) = pn \o q
  BY DEF Splice
<1>7. QED
  BY <1>5, <1>6

\* The edits of a script that fits some lines.
Edit(e) ==
    /\ e.op \in Ops /\ e.start \in Nat \ {0} /\ e.end \in Nat /\ e.content \in Seq(Texts)

LEMMA ApplyOneType ==
  ASSUME NEW lines \in Seq(Texts), NEW e, Edit(e)
  PROVE  ApplyOne(lines, e) \in Seq(Texts)
<1> PICK s : s = e.start
  OBVIOUS
<1> PICK t : t = e.end
  OBVIOUS
<1> PICK c : c = e.content
  OBVIOUS
<1>1. s \in Nat /\ s - 1 \in Nat /\ t \in Nat /\ c \in Seq(Texts) /\ <<>> \in Seq(Texts)
  BY EmptySeq DEF Edit
<1>2. /\ Splice(lines, s - 1, t, c) \in Seq(Texts) /\ Splice(lines, s - 1, t, <<>>) \in Seq(Texts)
      /\ Splice(lines, s, s, c) \in Seq(Texts) /\ Splice(lines, s - 1, s - 1, c) \in Seq(Texts)
  <2>1. Splice(lines, s - 1, t, c) \in Seq(Texts)
    BY <1>1, SpliceType
  <2>2. Splice(lines, s - 1, t, <<>>) \in Seq(Texts)
    BY <1>1, SpliceType
  <2>3. Splice(lines, s, s, c) \in Seq(Texts)
    BY <1>1, SpliceType
  <2>4. Splice(lines, s - 1, s - 1, c) \in Seq(Texts)
    BY <1>1, SpliceType
  <2>5. QED
    BY <2>1, <2>2, <2>3, <2>4
<1>3. e.op \in {"replace", "delete", "insert_after", "insert_before"}
  BY DEF Edit, Ops
<1>4. CASE e.op = "replace"
  BY <1>2, <1>4, Operations
<1>5. CASE e.op = "delete"
  BY <1>2, <1>5, Operations
<1>6. CASE e.op = "insert_after"
  BY <1>2, <1>6, Operations
<1>7. CASE e.op = "insert_before"
  BY <1>2, <1>7, Operations
<1>8. QED
  BY <1>3, <1>4, <1>5, <1>6, <1>7

\* The lines are lines after every round.
LEMMA RoundsType ==
  ASSUME NEW lines \in Seq(Texts), NEW edits, NEW n \in Nat, DOMAIN edits = 1 .. n,
         \A i \in 1 .. n : Edit(edits[i])
  PROVE  \A S \in SUBSET (1 .. n) : AfterRounds(lines, edits)[S] \in Seq(Texts)
<1> DEFINE A(S) == AfterRounds(lines, edits)[S]
           P == {m \in 0 .. n : \A S \in UpTo(n, m) : A(S) \in Seq(Texts)}
<1>0. \A i \in 1 .. n : edits[i].start \in Nat
  BY DEF Edit
<1>1. A({}) = lines
  BY <1>0, RoundsAre
<1>2. ASSUME NEW S \in SUBSET (1 .. n), S # {}
      PROVE  A(S) = ApplyOne(A(S \ {FinalOf(edits, S)}), edits[FinalOf(edits, S)])
  BY <1>0, <1>2, RoundsAre
<1> HIDE DEF A
<1>3. 0 \in P
  <2>1. ASSUME NEW S \in UpTo(n, 0) PROVE S = {}
    <3>1. S \in SUBSET (1 .. n) /\ Cardinality(S) <= 0
      BY DEF UpTo
    <3>2. Cardinality(S) \in 0 .. n /\ (Cardinality(S) = 0 => S = {})
      BY <3>1, Sizes
    <3>3. QED
      BY <3>1, <3>2
  <2>2. \A S \in UpTo(n, 0) : A(S) \in Seq(Texts)
    BY <1>1, <2>1
  <2>3. QED
    BY <2>2
<1>4. ASSUME NEW m \in 1 .. n, m - 1 \in P PROVE m \in P
  <2>1. ASSUME NEW S \in UpTo(n, m) PROVE A(S) \in Seq(Texts)
    <3>1. CASE S = {}
      BY <1>1, <3>1
    <3>2. CASE S # {}
      <4>1. FinalOf(edits, S) \in S /\ S \in SUBSET (1 .. n)
        BY <1>0, <3>2, FinalExists DEF UpTo
      <4> PICK x : x = FinalOf(edits, S)
        OBVIOUS
      <4> PICK less : less = S \ {x}
        OBVIOUS
      <4>2. less \in SUBSET (1 .. n) /\ Cardinality(less) = Cardinality(S) - 1
        BY <4>1, Sizes
      <4>3. Cardinality(S) \in 0 .. n /\ Cardinality(S) <= m
        BY <4>1, Sizes DEF UpTo
      <4>4. less \in UpTo(n, m - 1)
        BY <4>2, <4>3 DEF UpTo
      <4>5. A(less) \in Seq(Texts)
        BY <1>4, <4>4
      <4>6. A(S) = ApplyOne(A(less), edits[x])
        BY <1>2, <3>2, <4>1
      <4>7. Edit(edits[x])
        BY <4>1
      <4>8. QED
        BY <4>5, <4>6, <4>7, ApplyOneType
    <3>3. QED
      BY <3>1, <3>2
  <2>2. QED
    BY <2>1
<1>5. n \in P
  <2>1. n \in 0 .. n
    OBVIOUS
  <2> HIDE DEF P
  <2>2. QED
    BY <1>3, <1>4, <2>1, Induction
<1>6. UpTo(n, n) = SUBSET (1 .. n)
  BY Sizes DEF UpTo
<1>7. QED
  BY <1>5, <1>6 DEF A

-----------------------------------------------------------------------------
(* What a script means.                                                     *)

RestOf(f, n, i) == IF i = n + 1 THEN <<>> ELSE Expand(i) \o f[i + 1]

LEMMA RestExists ==
  ASSUME NEW n \in Nat
  PROVE  \E f : f = [i \in 1 .. n + 1 |-> RestOf(f, n, i)]
<1> DEFINE P == {m \in 0 .. n : \E f : f = [i \in n + 1 - m .. n + 1 |-> RestOf(f, n, i)]}
<1>1. 0 \in P
  <2> DEFINE f == [i \in n + 1 - 0 .. n + 1 |-> <<>>]
  <2>1. ASSUME NEW i \in n + 1 - 0 .. n + 1 PROVE i = n + 1
    OBVIOUS
  <2>2. f = [i \in n + 1 - 0 .. n + 1 |-> RestOf(f, n, i)]
    BY <2>1 DEF RestOf
  <2> HIDE DEF f
  <2>3. \E h : h = [i \in n + 1 - 0 .. n + 1 |-> RestOf(h, n, i)]
    BY <2>2
  <2>4. QED
    BY <2>3
<1>2. ASSUME NEW m \in 1 .. n, m - 1 \in P PROVE m \in P
  <2>1. PICK f : f = [i \in n + 1 - (m - 1) .. n + 1 |-> RestOf(f, n, i)]
    BY <1>2
  <2> DEFINE g == [i \in n + 1 - m .. n + 1 |-> RestOf(f, n, i)]
  <2>2. ASSUME NEW i \in n + 1 - m .. n + 1 PROVE RestOf(f, n, i) = RestOf(g, n, i)
    <3>1. CASE i = n + 1
      BY <3>1 DEF RestOf
    <3>2. CASE i # n + 1
      <4>1. i + 1 \in n + 1 - m .. n + 1 /\ i + 1 \in n + 1 - (m - 1) .. n + 1
        BY <3>2
      <4>2. f[i + 1] = RestOf(f, n, i + 1)
        BY <2>1, <4>1, Zenon
      <4>3. g[i + 1] = RestOf(f, n, i + 1)
        BY <4>1, Zenon
      <4>4. QED
        BY <4>2, <4>3, Zenon DEF RestOf
    <3>3. QED
      BY <3>1, <3>2
  <2>3. g = [i \in n + 1 - m .. n + 1 |-> RestOf(g, n, i)]
    BY <2>2, Zenon
  <2> HIDE DEF g
  <2>4. \E h : h = [i \in n + 1 - m .. n + 1 |-> RestOf(h, n, i)]
    BY <2>3
  <2>5. QED
    BY <2>4
<1>3. n \in P
  <2>1. n \in 0 .. n
    OBVIOUS
  <2> HIDE DEF P
  <2>2. QED
    BY <1>1, <1>2, <2>1, Induction
<1>4. n + 1 - n = 1
  OBVIOUS
<1>5. QED
  BY <1>3, <1>4

LEMMA RestIs ==
  ASSUME Len(original) \in Nat
  PROVE  /\ Rest[Len(original) + 1] = <<>>
         /\ \A i \in 1 .. Len(original) : Rest[i] = Expand(i) \o Rest[i + 1]
<1> DEFINE n == Len(original)
<1>1. Rest = CHOOSE g : g = [i \in 1 .. n + 1 |-> RestOf(g, n, i)]
  BY Zenon DEF Rest, RestOf
<1> HIDE DEF n
<1>2. n \in Nat
  BY DEF n
<1>3. Rest = [i \in 1 .. n + 1 |-> RestOf(Rest, n, i)]
  BY <1>1, <1>2, RestExists
<1>4. \A i \in 1 .. n + 1 : Rest[i] = RestOf(Rest, n, i)
  BY <1>3, Zenon
<1>5. n + 1 \in 1 .. n + 1 /\ \A i \in 1 .. n : i \in 1 .. n + 1 /\ i # n + 1
  BY <1>2
<1>6. Rest[n + 1] = <<>>
  BY <1>4, <1>5, Zenon DEF RestOf
<1>7. ASSUME NEW i \in 1 .. n PROVE Rest[i] = Expand(i) \o Rest[i + 1]
  BY <1>4, <1>5, Zenon DEF RestOf
<1>8. QED
  BY <1>6, <1>7 DEF n

\* A line that no edit covers is kept, and one that an edit covers is what that
\* edit makes of it, as the ranges are disjoint.
LEMMA Uncovered ==
  ASSUME NEW i, \A j \in DOMAIN script : i \notin script[j].start .. script[j].end
  PROVE  Expand(i) = <<original[i]>>
<1>1. Covering(i) = {}
  BY DEF Covering, ToSet
<1>2. QED
  BY <1>1, Zenon DEF Expand

Expanded(e, i) ==
    CASE e.op = "replace" -> IF i = e.start THEN e.content ELSE <<>>
      [] e.op = "delete" -> <<>>
      [] e.op = "insert_after" -> <<original[i]>> \o e.content
      [] e.op = "insert_before" -> e.content \o <<original[i]>>

LEMMA Covered ==
  ASSUME Disjoint, NEW n \in Nat, DOMAIN script = 1 .. n,
         \A j \in 1 .. n : script[j].start \in Nat /\ script[j].end \in Nat,
         NEW j \in 1 .. n, NEW i, i \in script[j].start .. script[j].end
  PROVE  Expand(i) = Expanded(script[j], i)
<1>1. ASSUME NEW k \in 1 .. n, i \in script[k].start .. script[k].end PROVE k = j
  <2>1. CASE k # j
    <3>1. script[k].end < script[j].start \/ script[j].end < script[k].start
      BY <2>1 DEF Disjoint
    <3>2. /\ script[k].start \in Nat /\ script[k].end \in Nat
          /\ script[j].start \in Nat /\ script[j].end \in Nat
      OBVIOUS
    <3>3. QED
      BY <1>1, <3>1, <3>2
  <2>2. QED
    BY <2>1
<1>2. Covering(i) = {script[j]}
  <2>1. script[j] \in Covering(i)
    BY DEF Covering, ToSet
  <2>2. ASSUME NEW e \in Covering(i) PROVE e = script[j]
    BY <1>1 DEF Covering, ToSet
  <2>3. QED
    BY <2>1, <2>2
<1>3. (CHOOSE x \in {script[j]} : TRUE) = script[j]
  OBVIOUS
<1>4. Covering(i) # {} => Expand(i) = Expanded(CHOOSE x \in Covering(i) : TRUE, i)
  BY Zenon DEF Expand, Expanded
<1>5. QED
  BY <1>2, <1>3, <1>4

-----------------------------------------------------------------------------
(* The last edit first: the lines before an edit are those of the file.     *)

LEMMA JoinedConcat ==
  ASSUME NEW T, NEW s \in Seq(T), NEW m \in 0 .. Len(s), NEW new \in Seq(T), NEW r \in Seq(T)
  PROVE  (SubSeq(s, 1, m) \o new) \o r = Joined(s, m, new \o r)
<1> DEFINE b == SubSeq(s, 1, m)
<1>1. b \in Seq(T)
  BY SubSeqProperties
<1> HIDE DEF b
<1>2. (b \o new) \o r = b \o (new \o r)
  BY <1>1, ConcatAssociative
<1>3. QED
  BY <1>2 DEF b, Joined

LEMMA SpliceIs ==
  ASSUME NEW T, NEW s \in Seq(T), NEW r \in Seq(T), NEW m \in 0 .. Len(s),
         NEW k \in 0 .. Len(s), k <= m, NEW new \in Seq(T)
  PROVE  Splice(Joined(s, m, r), k, m, new) = Joined(s, k, new \o r)
<1>1. (SubSeq(s, 1, k) \o new) \o r = Joined(s, k, new \o r)
  <2>1. \A i \in 0 .. Len(s) : (SubSeq(s, 1, i) \o new) \o r = Joined(s, i, new \o r)
    BY JoinedConcat, SMTT(30)
  <2>2. QED
    BY <2>1, Zenon
<1> PICK u : u = Joined(s, m, r)
  OBVIOUS
<1> PICK l : l = Len(u)
  OBVIOUS
<1>0. k \in 0 .. m
  OBVIOUS
<1>2. l = m + Len(r) /\ Len(r) \in Nat
  <2>1. IsJoined(u, s, m, r)
    BY JoinedIs
  <2>2. QED
    BY <2>1 DEF IsJoined
<1>3. (IF k < l THEN k ELSE l) = k
  BY <1>0, <1>2
<1>4. Parts(u, s, m, r)
  BY JoinedParts
<1>5. SubSeq(u, 1, k) = SubSeq(s, 1, k)
  BY <1>0, <1>4, Zenon DEF Parts
<1>6. SubSeq(u, m + 1, l) = r
  BY <1>4, Zenon DEF Parts
<1>7. Splice(u, k, m, new) = (SubSeq(s, 1, k) \o new) \o r
  BY <1>3, <1>5, <1>6, Zenon DEF Splice
<1>8. QED
  BY <1>1, <1>7

\* The script was validated against the original: what the proof needs of that.
Validated(n) ==
    /\ original \in Seq(Texts) /\ DOMAIN script = 1 .. n
    /\ \A j \in 1 .. n : Fits(original, script[j])
    /\ Disjoint

LEMMA FitsIs ==
  ASSUME NEW n \in Nat, Validated(n), NEW j \in 1 .. n
  PROVE  /\ Len(original) \in Nat
         /\ script[j].start \in 1 .. Len(original)
         /\ script[j].end \in script[j].start .. Len(original)
         /\ script[j].end \in Nat /\ script[j].start \in Nat
         /\ script[j].content \in Seq(Texts) /\ script[j].op \in Ops
<1>1. Fits(original, script[j]) /\ Len(original) \in Nat
  BY LenProperties DEF Validated
<1>2. QED
  BY <1>1 DEF Fits

LEMMA RestType ==
  ASSUME NEW n \in Nat, Validated(n)
  PROVE  \A i \in 1 .. Len(original) + 1 : Rest[i] \in Seq(Texts)
<1> PICK l : l = Len(original)
  OBVIOUS
<1> DEFINE S == {d \in 0 .. l : Rest[l + 1 - d] \in Seq(Texts)}
<1>1. l \in Nat /\ original \in Seq(Texts)
  BY LenProperties DEF Validated
<1>2. Rest[l + 1] = <<>> /\ \A i \in 1 .. l : Rest[i] = Expand(i) \o Rest[i + 1]
  BY <1>1, RestIs
<1>3. ASSUME NEW i \in 1 .. l PROVE Expand(i) \in Seq(Texts)
  <2>1. <<original[i]>> \in Seq(Texts) /\ <<>> \in Seq(Texts)
    <3>1. original[i] \in Texts
      BY <1>1
    <3>2. QED
      BY <3>1
  <2>2. CASE \A j \in DOMAIN script : i \notin script[j].start .. script[j].end
    BY <2>1, <2>2, Uncovered
  <2>3. CASE \E j \in DOMAIN script : i \in script[j].start .. script[j].end
    <3>1. PICK j \in 1 .. n : i \in script[j].start .. script[j].end
      BY <2>3 DEF Validated
    <3>2. Expand(i) = Expanded(script[j], i)
      BY <3>1, FitsIs, Covered DEF Validated
    <3>3. script[j].content \in Seq(Texts) /\ script[j].op \in Ops
      BY FitsIs
    <3> PICK c : c = script[j].content
      OBVIOUS
    <3> PICK w : w = <<original[i]>>
      OBVIOUS
    <3>4. w \o c \in Seq(Texts) /\ c \o w \in Seq(Texts)
      BY <2>1, <3>3, ConcatProperties
    <3>5. Expanded(script[j], i) \in {c, <<>>, w \o c, c \o w}
      BY <3>3, Zenon DEF Expanded, Ops
    <3>6. QED
      BY <2>1, <3>2, <3>3, <3>4, <3>5
  <2>4. QED
    BY <2>2, <2>3
<1>4. 0 \in S
  <2>1. l + 1 - 0 = l + 1 /\ <<>> \in Seq(Texts) /\ 0 \in 0 .. l
    BY <1>1
  <2>2. QED
    BY <1>2, <2>1
<1>5. ASSUME NEW d \in 1 .. l, d - 1 \in S PROVE d \in S
  <2> PICK i : i = l + 1 - d
    OBVIOUS
  <2>1. i \in 1 .. l /\ i + 1 = l + 1 - (d - 1) /\ d \in 0 .. l
    BY <1>1
  <2> PICK r : r = Rest[i + 1]
    OBVIOUS
  <2> PICK w : w = Expand(i)
    OBVIOUS
  <2>2. r \in Seq(Texts) /\ w \in Seq(Texts)
    BY <1>3, <1>5, <2>1
  <2>3. w \o r \in Seq(Texts)
    BY <2>2, ConcatProperties
  <2>4. Rest[i] = w \o r
    BY <1>2, <2>1
  <2>5. QED
    BY <2>1, <2>3, <2>4
<1>6. \A d \in 0 .. l : d \in S
  <2> HIDE DEF S
  <2>1. QED
    BY <1>1, <1>4, <1>5, Induction
<1>7. ASSUME NEW i \in 1 .. l + 1 PROVE Rest[i] \in Seq(Texts)
  <2>1. l + 1 - i \in 0 .. l /\ l + 1 - (l + 1 - i) = i
    BY <1>1
  <2>2. QED
    BY <1>6, <2>1
<1>8. QED
  BY <1>7

Hollow(R, s, m) == \A i \in s + 1 .. m : R[i] = <<>> \o R[i + 1]

LEMMA RestOfRange ==
  ASSUME NEW s \in Nat, NEW m \in Nat, s <= m, NEW R, NEW r \in Seq(Texts), R[m + 1] = r,
         Hollow(R, s, m)
  PROVE  R[s + 1] = r
<1> DEFINE S == {d \in 0 .. m - s : R[m + 1 - d] = r}
<1>1. 0 \in S
  <2>1. m + 1 - 0 = m + 1 /\ 0 \in 0 .. m - s
    OBVIOUS
  <2>2. QED
    BY <2>1
<1>2. ASSUME NEW d \in 1 .. m - s, d - 1 \in S PROVE d \in S
  <2> DEFINE i == m + 1 - d
  <2>1. i \in s + 1 .. m /\ i + 1 = m + 1 - (d - 1) /\ d \in 0 .. m - s
    OBVIOUS
  <2>2. R[i + 1] = r
    BY <1>2, <2>1
  <2> HIDE DEF i
  <2>3. R[i] = <<>> \o r
    BY <2>1, <2>2 DEF Hollow
  <2>4. <<>> \o r = r
    BY ConcatEmptySeq
  <2>5. QED
    BY <2>1, <2>3, <2>4 DEF i
<1>3. \A d \in 0 .. m - s : d \in S
  <2>1. m - s \in Nat
    OBVIOUS
  <2> HIDE DEF S
  <2>2. QED
    BY <1>1, <1>2, <2>1, Induction
<1>4. m - s \in 0 .. m - s /\ m + 1 - (m - s) = s + 1
  OBVIOUS
<1>5. R[m + 1 - (m - s)] = r
  BY <1>3, <1>4
<1>6. QED
  BY <1>4, <1>5

\* Of a range that is replaced or deleted only the first line leaves something.
LEMMA RangeRest ==
  ASSUME NEW n \in Nat, Validated(n), NEW j \in 1 .. n, script[j].op \in {"replace", "delete"}
  PROVE  Rest[script[j].start + 1] = Rest[script[j].end + 1]
<1> PICK l : l = Len(original)
  OBVIOUS
<1> PICK s : s = script[j].start
  OBVIOUS
<1> PICK m : m = script[j].end
  OBVIOUS
<1> PICK r : r = Rest[m + 1]
  OBVIOUS
<1>1. l \in Nat /\ s \in Nat /\ m \in Nat /\ 1 <= s /\ s <= m /\ m <= l
  <2>1. l \in Nat /\ s \in Nat /\ m \in Nat /\ s \in 1 .. l /\ m \in s .. l
    BY FitsIs
  <2>2. QED
    BY <2>1
<1>2. \A i \in 1 .. l : Rest[i] = Expand(i) \o Rest[i + 1]
  BY <1>1, RestIs
<1>3. r \in Seq(Texts)
  <2>1. m + 1 \in 1 .. l + 1
    BY <1>1
  <2>2. QED
    BY <2>1, RestType
<1>4. ASSUME NEW i \in s + 1 .. m PROVE Expand(i) = <<>>
  <2>1. i \in script[j].start .. script[j].end /\ i # script[j].start
    BY <1>1
  <2>2. Expand(i) = Expanded(script[j], i)
    BY <2>1, FitsIs, Covered DEF Validated
  <2>3. CASE script[j].op = "replace"
    <3>1. Expanded(script[j], i) = IF i = script[j].start THEN script[j].content ELSE <<>>
      BY <2>3 DEF Expanded
    <3>2. QED
      BY <2>1, <2>2, <3>1
  <2>4. CASE script[j].op = "delete"
    <3>1. Expanded(script[j], i) = <<>>
      BY <2>4 DEF Expanded
    <3>2. QED
      BY <2>2, <3>1
  <2>5. QED
    BY <2>3, <2>4
<1>5. \A i \in s + 1 .. m : Rest[i] = <<>> \o Rest[i + 1]
  <2>1. \A i \in s + 1 .. m : i \in 1 .. l
    BY <1>1
  <2>2. QED
    BY <1>2, <1>4, <2>1
<1> PICK R : R = Rest
  OBVIOUS
<1>6. R[m + 1] = r /\ Hollow(R, s, m)
  BY <1>5 DEF Hollow
<1>7. R[s + 1] = r
  BY <1>1, <1>3, <1>6, RestOfRange, Zenon
<1>8. QED
  BY <1>7

\* Concatenation under a name, so that it can be left unexpanded.
Cat(a, b) == a \o b

LEMMA CatAssociative ==
  ASSUME NEW a \in Seq(Texts), NEW b \in Seq(Texts), NEW c \in Seq(Texts)
  PROVE  Cat(Cat(a, b), c) = Cat(a, Cat(b, c))
<1>1. (a \o b) \o c = a \o (b \o c)
  BY ConcatAssociative
<1>2. QED
  BY <1>1 DEF Cat

\* The line x lies between the first k and the first s lines of o.
Insertion(o, k, s, x, c, r) ==
    /\ o \in Seq(Texts) /\ k \in 0 .. Len(o) /\ s \in 0 .. Len(o)
    /\ x \in Seq(Texts) /\ c \in Seq(Texts) /\ r \in Seq(Texts)
    /\ \A w \in Seq(Texts) : Joined(o, k, Cat(x, w)) = Joined(o, s, w)

LEMMA Insertions ==
  ASSUME NEW o, NEW k, NEW s, NEW x, NEW c, NEW r, Insertion(o, k, s, x, c, r)
  PROVE  /\ Splice(Joined(o, s, r), s, s, c) = Joined(o, k, Cat(Cat(x, c), r))
         /\ Splice(Joined(o, s, r), k, k, c) = Joined(o, k, Cat(Cat(c, x), r))
<1>0. /\ o \in Seq(Texts) /\ k \in 0 .. Len(o) /\ s \in 0 .. Len(o)
      /\ x \in Seq(Texts) /\ c \in Seq(Texts) /\ r \in Seq(Texts)
  BY DEF Insertion
<1>1. \A a \in 0 .. Len(o) : \A w \in Seq(Texts) : a <= a =>
         Splice(Joined(o, a, w), a, a, c) = Joined(o, a, Cat(c, w))
  BY <1>0, SpliceIs DEF Cat
<1>2. s <= s /\ k <= k
  BY <1>0, LenProperties
<1>3. Cat(Cat(x, c), r) = Cat(x, Cat(c, r))
  BY <1>0, CatAssociative
<1>4. Cat(Cat(c, x), r) = Cat(c, Cat(x, r))
  BY <1>0, CatAssociative
<1>5. Cat(c, r) \in Seq(Texts) /\ Cat(x, r) \in Seq(Texts)
  BY <1>0, ConcatProperties DEF Cat
<1>6. Splice(Joined(o, s, r), s, s, c) = Joined(o, s, Cat(c, r))
  BY <1>0, <1>1, <1>2, Zenon
<1>7. Joined(o, s, Cat(c, r)) = Joined(o, k, Cat(x, Cat(c, r)))
  BY <1>5, Zenon DEF Insertion
<1>8. Splice(Joined(o, k, Cat(x, r)), k, k, c) = Joined(o, k, Cat(c, Cat(x, r)))
  BY <1>0, <1>1, <1>2, <1>5, Zenon
<1>9. Joined(o, k, Cat(x, r)) = Joined(o, s, r)
  BY <1>0, Zenon DEF Insertion
<1>10. QED
  BY <1>3, <1>4, <1>6, <1>7, <1>8, <1>9, Zenon

\* An edit applied to lines that are those of the file up to the end of its
\* range puts the meaning of its range in the place of the range.
LEMMA EditStep ==
  ASSUME NEW n \in Nat, Validated(n), NEW j \in 1 .. n
  PROVE  ApplyOne(Joined(original, script[j].end, Rest[script[j].end + 1]), script[j])
            = Joined(original, script[j].start - 1, Rest[script[j].start])
<1> PICK l : l = Len(original)
  OBVIOUS
<1> PICK e : e = script[j]
  OBVIOUS
<1> PICK s : s = e.start
  OBVIOUS
<1> PICK m : m = e.end
  OBVIOUS
<1> PICK c : c = e.content
  OBVIOUS
<1> PICK r : r = Rest[m + 1]
  OBVIOUS
<1> PICK u : u = Joined(original, m, r)
  OBVIOUS
<1> PICK k : k = s - 1
  OBVIOUS
<1>0. c \in Seq(Texts) /\ e.op \in Ops
  BY FitsIs
<1>1. l \in Nat /\ s \in Nat /\ m \in Nat /\ 1 <= s /\ s <= m /\ m <= l
  <2>1. l \in Nat /\ s \in Nat /\ m \in Nat /\ s \in 1 .. l /\ m \in s .. l
    BY FitsIs
  <2>2. QED
    BY <2>1
<1>2. k \in 0 .. l /\ k <= m /\ m \in 0 .. l /\ s \in s .. m /\ k + 1 = s /\ k < l /\ s \in 1 .. l
  <2>1. k \in 0 .. l /\ k <= m /\ k + 1 = s /\ k < l
    BY <1>1, SMTT(30)
  <2>2. m \in 0 .. l /\ s \in s .. m /\ s \in 1 .. l
    BY <1>1, SMTT(30)
  <2>3. QED
    BY <2>1, <2>2
<1>3. original \in Seq(Texts) /\ r \in Seq(Texts) /\ <<>> \in Seq(Texts)
  <2>1. m + 1 \in 1 .. l + 1
    BY <1>1
  <2>2. r \in Seq(Texts)
    BY <2>1, RestType
  <2>3. QED
    BY <2>2, EmptySeq DEF Validated
<1>4. Rest[s] = Expanded(e, s) \o Rest[s + 1]
  <2>1. Rest[s] = Expand(s) \o Rest[s + 1]
    BY <1>1, <1>2, RestIs
  <2>2. Expand(s) = Expanded(e, s)
    BY <1>2, FitsIs, Covered DEF Validated
  <2>3. QED
    BY <2>1, <2>2
<1>5. ASSUME NEW new \in Seq(Texts)
      PROVE  Splice(u, k, m, new) = Joined(original, k, new \o r)
  <2>1. \A a \in 0 .. l : a <= m => Splice(u, a, m, new) = Joined(original, a, new \o r)
    BY <1>2, <1>3, SpliceIs
  <2>2. QED
    BY <1>2, <2>1, Zenon
<1>6. CASE e.op = "replace"
  <2>1. Rest[s + 1] = r
    BY <1>6, RangeRest
  <2>2. Expanded(e, s) = c
    BY <1>6 DEF Expanded
  <2>3. ApplyOne(u, e) = Splice(u, k, m, c)
    BY <1>6, Operations
  <2>4. QED
    BY <1>0, <1>4, <1>5, <2>1, <2>2, <2>3
<1>7. CASE e.op = "delete"
  <2>1. Rest[s + 1] = r
    BY <1>7, RangeRest
  <2>2. Expanded(e, s) = <<>>
    BY <1>7 DEF Expanded
  <2>3. ApplyOne(u, e) = Splice(u, k, m, <<>>)
    BY <1>7, Operations
  <2>4. QED
    BY <1>3, <1>4, <1>5, <2>1, <2>2, <2>3
<1>8. ASSUME e.op \in {"insert_after", "insert_before"}
      PROVE  s = m
  BY <1>8 DEF Validated, Fits
<1> PICK x : x = <<original[s]>>
  OBVIOUS
<1>9. x \in Seq(Texts)
  <2>1. original[s] \in Texts
    BY <1>2, <1>3
  <2>2. QED
    BY <2>1
<1>10. ASSUME NEW w \in Seq(Texts)
       PROVE  Joined(original, k, x \o w) = Joined(original, s, w)
  <2>1. \A a \in 0 .. l : a < l =>
           Joined(original, a, <<original[a + 1]>> \o w) = Joined(original, a + 1, w)
    BY <1>3, JoinedShift
  <2>2. Joined(original, k, <<original[k + 1]>> \o w) = Joined(original, k + 1, w)
    BY <1>2, <2>1, Zenon
  <2>3. QED
    BY <1>2, <2>2, Zenon
<1>11. /\ Splice(Joined(original, s, r), s, s, c) = Joined(original, k, Cat(Cat(x, c), r))
       /\ Splice(Joined(original, s, r), k, k, c) = Joined(original, k, Cat(Cat(c, x), r))
  <2>1. \A w \in Seq(Texts) : Joined(original, k, Cat(x, w)) = Joined(original, s, w)
    BY <1>10 DEF Cat
  <2>2. k \in 0 .. Len(original) /\ s \in 0 .. Len(original)
    BY <1>1, <1>2
  <2>3. Insertion(original, k, s, x, c, r)
    BY <1>0, <1>3, <1>9, <2>1, <2>2, Zenon DEF Insertion
  <2>4. Splice(Joined(original, s, r), s, s, c) = Joined(original, k, Cat(Cat(x, c), r))
    BY <2>3, Insertions
  <2>5. Splice(Joined(original, s, r), k, k, c) = Joined(original, k, Cat(Cat(c, x), r))
    BY <2>3, Insertions
  <2>6. QED
    BY <2>4, <2>5
<1>12. CASE e.op = "insert_after"
  <2>1. s = m
    BY <1>8, <1>12
  <2>2. Expanded(e, s) = x \o c
    BY <1>12 DEF Expanded
  <2>3. ApplyOne(u, e) = Splice(u, s, s, c)
    BY <1>12, Operations
  <2>4. Rest[s] = Cat(Cat(x, c), r)
    BY <1>4, <2>1, <2>2, Zenon DEF Cat
  <2>5. u = Joined(original, s, r)
    BY <2>1
  <2>6. QED
    BY <1>11, <2>3, <2>4, <2>5, Zenon
<1>13. CASE e.op = "insert_before"
  <2>1. s = m
    BY <1>8, <1>13
  <2>2. Expanded(e, s) = c \o x
    BY <1>13 DEF Expanded
  <2>3. ApplyOne(u, e) = Splice(u, k, k, c)
    BY <1>13, Operations
  <2>4. Rest[s] = Cat(Cat(c, x), r)
    BY <1>4, <2>1, <2>2, Zenon DEF Cat
  <2>5. u = Joined(original, s, r)
    BY <2>1
  <2>6. QED
    BY <1>11, <2>3, <2>4, <2>5, Zenon
<1>14. QED
  BY <1>0, <1>6, <1>7, <1>12, <1>13 DEF Ops

\* The edits of later lines, and a line end that no range of an edit crosses.
Later(n, k) == {j \in 1 .. n : script[j].start > k}
Clean(n, k) == \A j \in 1 .. n : ~(script[j].start <= k /\ k < script[j].end)

\* What holds after the rounds for the edits of later lines.
Claim(n, k) ==
    Clean(n, k) => AfterRounds(original, script)[Later(n, k)] = Joined(original, k, Rest[k + 1])

\* The round of the last of some edits.
Numbered(edits, n) == DOMAIN edits = 1 .. n /\ \A i \in 1 .. n : edits[i].start \in Nat

Final(edits, n, S, x, less) ==
    /\ Numbered(edits, n) /\ S \subseteq 1 .. n /\ S # {}
    /\ x = FinalOf(edits, S) /\ less = S \ {x}

LEMMA RoundIs ==
  ASSUME NEW lines, NEW edits, NEW n \in Nat, NEW S, NEW x, NEW less, Final(edits, n, S, x, less)
  PROVE  AfterRounds(lines, edits)[S] = ApplyOne(AfterRounds(lines, edits)[less], edits[x])
<1>1. /\ DOMAIN edits = 1 .. n /\ \A i \in 1 .. n : edits[i].start \in Nat
      /\ S \in SUBSET (1 .. n) /\ S # {} /\ x = FinalOf(edits, S) /\ less = S \ {x}
  BY DEF Final, Numbered
<1>2. AfterRounds(lines, edits)[S]
         = ApplyOne(AfterRounds(lines, edits)[S \ {FinalOf(edits, S)}], edits[FinalOf(edits, S)])
  BY <1>1, RoundsAre
<1>3. QED
  BY <1>1, <1>2, Zenon

LEMMA Bounds ==
  ASSUME NEW n \in Nat, Validated(n), NEW j \in 1 .. n
  PROVE  /\ Len(original) \in Nat /\ script[j].start \in Nat /\ script[j].end \in Nat
         /\ 1 <= script[j].start /\ script[j].start <= script[j].end
         /\ script[j].end <= Len(original)
<1>1. /\ Len(original) \in Nat /\ script[j].start \in Nat /\ script[j].end \in Nat
      /\ script[j].start \in 1 .. Len(original) /\ script[j].end \in script[j].start .. Len(original)
  BY FitsIs
<1>2. QED
  BY <1>1

\* Of two edits one ends before the other starts.
LEMMA Apart ==
  ASSUME NEW n \in Nat, Validated(n), NEW i \in 1 .. n, NEW j \in 1 .. n, i # j
  PROVE  script[i].end < script[j].start \/ script[j].end < script[i].start
BY DEF Validated, Disjoint

\* Before the first round.
LEMMA ClaimAtEnd ==
  ASSUME NEW n \in Nat, Validated(n)
  PROVE  Claim(n, Len(original))
<1>1. original \in Seq(Texts) /\ Len(original) \in Nat
  BY LenProperties DEF Validated
<1>2. Later(n, Len(original)) = {}
  <2>1. ASSUME NEW j \in 1 .. n, script[j].start > Len(original) PROVE FALSE
    BY <2>1, Bounds
  <2>2. QED
    BY <2>1 DEF Later
<1>3. AfterRounds(original, script)[{}] = original
  <2>1. DOMAIN script = 1 .. n /\ \A i \in 1 .. n : script[i].start \in Nat
    BY Bounds DEF Validated
  <2>2. QED
    BY <2>1, RoundsAre
<1>4. Rest[Len(original) + 1] = <<>>
  BY <1>1, RestIs
<1>5. Joined(original, Len(original), <<>>) = original
  <2> PICK b : b = SubSeq(original, 1, Len(original))
    OBVIOUS
  <2>1. b \in Seq(Texts) /\ Len(b) = Len(original) /\ \A i \in 1 .. Len(original) : b[i] = original[i]
    BY <1>1, SubSeqProperties
  <2>2. b = original
    BY <1>1, <2>1, SeqEqual
  <2>3. original \o <<>> = original
    BY <1>1, ConcatEmptySeq
  <2>4. QED
    BY <2>2, <2>3 DEF Joined
<1>6. QED
  BY <1>2, <1>3, <1>4, <1>5 DEF Claim

\* A line that no edit covers.
LEMMA ClaimAtLine ==
  ASSUME NEW n \in Nat, Validated(n), NEW k \in Nat, k < Len(original), Clean(n, k),
         \A j \in 1 .. n : script[j].start # k + 1, Claim(n, k + 1)
  PROVE  Claim(n, k)
<1>1. original \in Seq(Texts) /\ Len(original) \in Nat
  BY LenProperties DEF Validated
<1>2. k \in 0 .. Len(original) /\ k + 1 \in 1 .. Len(original) /\ k + 2 \in 1 .. Len(original) + 1
      /\ (k + 1) + 1 = k + 2
  BY <1>1
<1>3. ASSUME NEW j \in 1 .. n
      PROVE  /\ k + 1 \notin script[j].start .. script[j].end
             /\ ~(script[j].start <= k + 1 /\ k + 1 < script[j].end)
             /\ script[j].start > k <=> script[j].start > k + 1
  <2>1. script[j].start \in Nat /\ script[j].end \in Nat /\ script[j].start # k + 1
        /\ ~(script[j].start <= k /\ k < script[j].end)
    BY Bounds DEF Clean
  <2>2. QED
    BY <2>1
<1>4. Clean(n, k + 1)
  BY <1>3 DEF Clean
<1>5. Later(n, k) = Later(n, k + 1)
  BY <1>3 DEF Later
<1> PICK r : r = Rest[k + 2]
  OBVIOUS
<1>6. r \in Seq(Texts)
  BY <1>2, RestType
<1>7. Rest[k + 1] = <<original[k + 1]>> \o r
  <2>1. Expand(k + 1) = <<original[k + 1]>>
    BY <1>3, Uncovered DEF Validated
  <2>2. Rest[k + 1] = Expand(k + 1) \o r
    BY <1>1, <1>2, RestIs
  <2>3. QED
    BY <2>1, <2>2
<1>8. Joined(original, k, <<original[k + 1]>> \o r) = Joined(original, k + 1, r)
  <2>1. \A a \in 0 .. Len(original) : a < Len(original) =>
           Joined(original, a, <<original[a + 1]>> \o r) = Joined(original, a + 1, r)
    BY <1>1, <1>6, JoinedShift
  <2>2. QED
    BY <1>2, <2>1, Zenon
<1>9. AfterRounds(original, script)[Later(n, k + 1)] = Joined(original, k + 1, r)
  BY <1>2, <1>4 DEF Claim
<1>10. QED
  BY <1>5, <1>7, <1>8, <1>9 DEF Claim

\* The lines that an edit covers.
LEMMA ClaimAtEdit ==
  ASSUME NEW n \in Nat, Validated(n), NEW j \in 1 .. n, NEW k \in Nat, script[j].start = k + 1,
         Claim(n, script[j].end)
  PROVE  Claim(n, k)
<1> PICK m : m = script[j].end
  OBVIOUS
<1>1. m \in Nat /\ k + 1 <= m
  BY Bounds
<1>2. ASSUME NEW i \in 1 .. n, i # j
      PROVE  /\ ~(script[i].start <= m /\ m < script[i].end)
             /\ script[i].start > k <=> script[i].start > m
  <2>1. /\ script[i].end < script[j].start \/ script[j].end < script[i].start
        /\ script[i].start \in Nat /\ script[i].end \in Nat /\ script[i].start <= script[i].end
    BY <1>2, Apart, Bounds
  <2>2. QED
    BY <1>1, <2>1
<1>3. Clean(n, m)
  <2>1. ~(m < m)
    BY <1>1
  <2>2. QED
    BY <1>2, <2>1 DEF Clean
<1>4. j \in Later(n, k) /\ j \notin Later(n, m) /\ Later(n, k) \ {j} = Later(n, m)
  <2>1. k + 1 > k /\ ~(k + 1 > m)
    BY <1>1
  <2>2. QED
    BY <1>2, <2>1 DEF Later
<1> PICK S : S = Later(n, k)
  OBVIOUS
<1>5. S \in SUBSET (1 .. n) /\ S # {}
  BY <1>4 DEF Later
<1>6. \A i \in 1 .. n : script[i].start \in Nat
  BY Bounds
<1>7. FinalOf(script, S) = j
  <2> PICK f : f = FinalOf(script, S)
    OBVIOUS
  <2>1. f \in S /\ \A i \in S \ {f} : Before(script, i, f)
    BY <1>5, <1>6, FinalExists
  <2>2. ASSUME f # j PROVE FALSE
    <3>1. Before(script, j, f)
      BY <1>4, <2>1, <2>2
    <3>2. f \in Later(n, m)
      BY <1>4, <2>1, <2>2
    <3>3. script[f].start > m /\ script[f].start \in Nat
      BY <3>2, Bounds DEF Later
    <3>4. script[j].start > script[f].start \/ script[j].start = script[f].start
      BY <3>1 DEF Before
    <3>5. QED
      BY <1>1, <3>3, <3>4
  <2>3. QED
    BY <2>2
<1>8. AfterRounds(original, script)[S] = ApplyOne(AfterRounds(original, script)[S \ {j}], script[j])
  <2>1. DOMAIN script = 1 .. n
    BY DEF Validated
  <2>2. Numbered(script, n)
    BY <1>6, <2>1 DEF Numbered
  <2>3. Final(script, n, S, j, S \ {j})
    BY <1>5, <1>7, <2>2 DEF Final
  <2>4. QED
    BY <2>3, RoundIs
<1>9. AfterRounds(original, script)[Later(n, m)] = Joined(original, m, Rest[m + 1])
  BY <1>3, Zenon DEF Claim
<1>10. ApplyOne(Joined(original, m, Rest[m + 1]), script[j])
          = Joined(original, script[j].start - 1, Rest[script[j].start])
  BY EditStep
<1>11. script[j].start - 1 = k
  OBVIOUS
<1>12. QED
  BY <1>4, <1>8, <1>9, <1>10, <1>11, Zenon DEF Claim

LEMMA Claims ==
  ASSUME NEW n \in Nat, Validated(n)
  PROVE  \A k \in 0 .. Len(original) : Claim(n, k)
<1> PICK l : l = Len(original)
  OBVIOUS
<1>0. l \in Nat
  BY LenProperties DEF Validated
<1> DEFINE T == {l - k : k \in {i \in 0 .. l : ~Claim(n, i)}}
<1>1. ASSUME T # {} PROVE FALSE
  <2>1. PICK d \in T : \A x \in T : d <= x
    <3>1. T \in SUBSET Nat /\ T # {}
      BY <1>0, <1>1
    <3> HIDE DEF T
    <3>2. QED
      BY <3>1, Least
  <2>2. PICK k \in 0 .. l : d = l - k /\ ~Claim(n, k)
    BY <2>1
  <2>3. ASSUME NEW m \in Nat, m <= l, k < m PROVE Claim(n, m)
    <3>1. CASE ~Claim(n, m)
      <4>1. m \in 0 .. l /\ l - m < l - k
        BY <1>0, <2>2, <2>3
      <4>2. l - m \in T
        BY <3>1, <4>1
      <4> HIDE DEF T
      <4>3. d <= l - m
        BY <2>1, <4>2
      <4>4. d = l - k
        BY <2>2
      <4>5. QED
        BY <1>0, <2>3, <4>1, <4>3, <4>4
    <3>2. QED
      BY <3>1
  <2>4. CASE k = l
    BY <2>2, <2>4, ClaimAtEnd
  <2>5. CASE k # l
    <3>1. k \in Nat /\ k < l /\ k + 1 \in Nat /\ k + 1 <= l /\ k < k + 1
      BY <1>0, <2>2, <2>5
    <3>2. Clean(n, k)
      BY <2>2 DEF Claim
    <3>3. CASE \E j \in 1 .. n : script[j].start = k + 1
      <4>1. PICK j \in 1 .. n : script[j].start = k + 1
        BY <3>3
      <4>2. script[j].end \in Nat /\ script[j].end <= l /\ k < script[j].end
        BY <3>1, <4>1, Bounds
      <4>3. Claim(n, script[j].end)
        BY <2>3, <4>2
      <4>4. Claim(n, k)
        BY <3>1, <4>1, <4>3, ClaimAtEdit
      <4>5. QED
        BY <2>2, <4>4
    <3>4. CASE \A j \in 1 .. n : script[j].start # k + 1
      <4>1. Claim(n, k + 1)
        BY <2>3, <3>1
      <4>2. Claim(n, k)
        BY <3>1, <3>2, <3>4, <4>1, ClaimAtLine
      <4>3. QED
        BY <2>2, <4>2
    <3>5. QED
      BY <3>3, <3>4
  <2>6. QED
    BY <2>4, <2>5
<1>2. QED
  BY <1>1

\* Edits of disjoint ranges, applied from the last to the first, give what the
\* script means.
LEMMA AllRounds ==
  ASSUME NEW n \in Nat, Validated(n)
  PROVE  ApplyAll(original, script) = Meaning
<1>1. Claim(n, 0)
  <2>1. 0 \in 0 .. Len(original)
    BY LenProperties DEF Validated
  <2>2. QED
    BY <2>1, Claims
<1>2. Clean(n, 0) /\ Later(n, 0) = 1 .. n
  <2>1. ASSUME NEW j \in 1 .. n PROVE ~(script[j].start <= 0) /\ script[j].start > 0
    BY Bounds
  <2>2. QED
    BY <2>1 DEF Clean, Later
<1>3. Rest[1] \in Seq(Texts)
  <2>1. 1 \in 1 .. Len(original) + 1
    BY LenProperties DEF Validated
  <2>2. QED
    BY <2>1, RestType
<1>4. AfterRounds(original, script)[1 .. n] = Joined(original, 0, Rest[0 + 1])
  BY <1>1, <1>2 DEF Claim
<1>5. Joined(original, 0, Rest[1]) = Rest[1]
  <2>1. SubSeq(original, 1, 0) = <<>>
    BY SubSeqEmpty
  <2>2. <<>> \o Rest[1] = Rest[1]
    BY <1>3, ConcatEmptySeq
  <2>3. QED
    BY <2>1, <2>2 DEF Joined
<1>6. 0 + 1 = 1
  OBVIOUS
<1>7. QED
  BY <1>4, <1>5, <1>6 DEF ApplyAll, Meaning, Validated

-----------------------------------------------------------------------------
(* The invariant.                                                           *)

\* The edits that can be written with the anchors of what the model was shown.
Anchored == {e \in EditsOf(seen) : WellFormed(e)}

Types ==
    /\ file \in Seq(Texts) /\ seen \in Seq(Texts) /\ original \in Seq(Texts)
    /\ script \in Seq(Anchored)
    /\ status \in {"idle", "shown", "sent", "editing", "applied", "refused"}
    /\ changes \in 0 .. MaxChanges
    /\ status = "idle" => script = <<>>

\* A script is applied as validated, to the content it was validated against.
HInv ==
    /\ Types
    /\ status \in {"editing", "applied"} => Valid(original, script)
    /\ status = "applied" => file = ApplyAll(original, script)

LEMMA AnchoredIs ==
  ASSUME seen \in Seq(Texts), NEW e \in Anchored
  PROVE  /\ e.op \in Ops /\ e.start \in 1 .. Len(seen) /\ e.end \in 1 .. Len(seen)
         /\ e.start <= e.end /\ e.content \in Contents \cup {<<>>}
         /\ e.startHash = Hash[seen[e.start]] /\ e.endHash = Hash[seen[e.end]]
         /\ e.op \in {"insert_after", "insert_before"} => e.start = e.end
         /\ e.op = "delete" => e.content = <<>>
<1>1. PICK op \in Ops, s \in DOMAIN seen, t \in DOMAIN seen, c \in Contents \cup {<<>>} :
         e = [op |-> op, start |-> s, end |-> t, startHash |-> Hash[seen[s]],
              endHash |-> Hash[seen[t]], content |-> c]
  <2>1. e \in EditsOf(seen)
    BY DEF Anchored
  <2>2. QED
    BY <2>1 DEF EditsOf
<1>2. WellFormed(e)
  BY DEF Anchored
<1>3. QED
  BY <1>1, <1>2 DEF WellFormed

LEMMA ScriptIs ==
  ASSUME Types
  PROVE  /\ Len(script) \in Nat /\ DOMAIN script = 1 .. Len(script)
         /\ \A j \in 1 .. Len(script) : script[j] \in Anchored
BY LenProperties DEF Types

LEMMA EditIs ==
  ASSUME Types, NEW j \in 1 .. Len(script)
  PROVE  Edit(script[j])
<1>1. script[j] \in Anchored
  BY ScriptIs
<1> PICK e : e = script[j]
  OBVIOUS
<1>2. e.op \in Ops /\ e.start \in 1 .. Len(seen) /\ e.end \in 1 .. Len(seen)
  BY <1>1, AnchoredIs DEF Types
<1>3. e.content \in Seq(Texts)
  BY <1>1, AnchoredIs, HashAssumption, EmptySeq DEF Types
<1>4. Len(seen) \in Nat
  BY LenProperties DEF Types
<1>5. QED
  BY <1>2, <1>3, <1>4 DEF Edit

LEMMA ScriptFits ==
  ASSUME Types, Valid(original, script), Disjoint
  PROVE  Validated(Len(script))
<1>1. ASSUME NEW j \in 1 .. Len(script) PROVE Fits(original, script[j])
  <2> PICK e : e = script[j]
    OBVIOUS
  <2>1. e \in Anchored /\ Edit(e)
    BY ScriptIs, EditIs
  <2>2. e.start \in 1 .. Len(original) /\ e.end \in e.start .. Len(original)
    BY ScriptIs DEF Valid
  <2>3. /\ e.op \in {"insert_after", "insert_before"} => e.start = e.end
        /\ e.op = "delete" => e.content = <<>>
    BY <2>1, AnchoredIs DEF Types
  <2>4. QED
    BY <2>1, <2>2, <2>3 DEF Fits, Edit
<1>2. QED
  BY <1>1, ScriptIs DEF Validated, Types

\* Disjoint or not, the edits of a script make lines of lines.
LEMMA AppliedType ==
  ASSUME Types
  PROVE  ApplyAll(original, script) \in Seq(Texts)
<1>1. /\ Len(script) \in Nat /\ DOMAIN script = 1 .. Len(script)
      /\ \A j \in 1 .. Len(script) : Edit(script[j])
  BY ScriptIs, EditIs
<1>2. original \in Seq(Texts)
  BY DEF Types
<1>3. \A S \in SUBSET (1 .. Len(script)) : AfterRounds(original, script)[S] \in Seq(Texts)
  BY <1>1, <1>2, RoundsType
<1>4. QED
  BY <1>1, <1>3 DEF ApplyAll

LEMMA InitHInv ==
  ASSUME Init
  PROVE  HInv
<1>1. file \in Seq(Texts)
  BY HashAssumption DEF Init
<1>2. <<>> \in Seq(Texts) /\ <<>> \in Seq(Anchored)
  BY EmptySeq
<1>3. QED
  BY <1>1, <1>2, BoundsAssumption DEF Init, HInv, Types

\* What is listed of a file are lines of it.
LEMMA ListingsType ==
  ASSUME NEW lines \in Seq(Texts), NEW s \in Listings(lines)
  PROVE  s \in Seq(Texts)
<1>1. Len(lines) \in Nat
  BY LenProperties
<1>2. ASSUME NEW n \in 0 .. Len(lines) PROVE SubSeq(lines, 1, n) \in Seq(Texts)
  <2>1. \A i \in 1 .. n : lines[i] \in Texts
    BY <1>1
  <2>2. QED
    BY <1>1, <2>1, SubSeqProperties
<1>3. ASSUME NEW n \in 1 .. Len(lines) PROVE SubSeq(lines, n, Len(lines)) \in Seq(Texts)
  <2>1. \A i \in n .. Len(lines) : lines[i] \in Texts
    BY <1>1
  <2>2. QED
    BY <1>1, <2>1, SubSeqProperties
<1>4. QED
  BY <1>2, <1>3 DEF Listings

LEMMA NextHInv ==
  ASSUME HInv, [Next]_vars
  PROVE  HInv'
<1> USE DEF HInv
<1>1. CASE Read
  <2>1. script = <<>> /\ script' = <<>> /\ <<>> \in Seq(Anchored')
    BY <1>1, EmptySeq DEF Read, Types
  <2>2. seen' \in Seq(Texts)
    BY <1>1, ListingsType DEF Read, Types
  <2>3. Types'
    BY <1>1, <2>1, <2>2 DEF Read, Types
  <2>4. QED
    BY <1>1, <2>3 DEF Read
<1>2. CASE Send
  <2>1. PICK e \in EditsOf(seen) : WellFormed(e) /\ script' = Append(script, e)
    BY <1>2 DEF Send
  <2>2. seen' = seen /\ file' = file /\ original' = original /\ changes' = changes
        /\ status = "shown" /\ status' \in {"shown", "sent"}
    BY <1>2 DEF Send
  <2>3. Anchored' = Anchored
    BY <2>2 DEF Anchored
  <2>4. script' \in Seq(Anchored)
    <3>1. e \in Anchored /\ script \in Seq(Anchored)
      BY <2>1 DEF Anchored, Types
    <3>2. QED
      BY <2>1, <3>1, AppendProperties
  <2>5. Types'
    BY <2>2, <2>3, <2>4 DEF Types
  <2>6. QED
    BY <2>2, <2>5
<1>3. CASE Change
  <2>1. Anchored' = Anchored
    BY <1>3 DEF Change, Anchored
  <2>2. file' \in Seq(Texts) /\ changes' \in 0 .. MaxChanges
    BY <1>3, HashAssumption, BoundsAssumption DEF Change, Types
  <2>3. Types'
    BY <1>3, <2>1, <2>2 DEF Change, Types
  <2>4. status' # "applied" /\ (status' = "editing" => Valid(original', script'))
    BY <1>3 DEF Change
  <2>5. QED
    BY <2>3, <2>4
<1>4. CASE Load
  <2>1. Anchored' = Anchored
    BY <1>4 DEF Load, Anchored
  <2>2. Types'
    BY <1>4, <2>1 DEF Load, Types
  <2>3. status' \in {"editing", "refused"} /\ (status' = "editing" => Valid(original', script'))
    BY <1>4 DEF Load
  <2>4. QED
    BY <2>2, <2>3
<1>5. CASE Commit
  <2>1. Anchored' = Anchored
    BY <1>5 DEF Commit, Anchored
  <2>2. file' \in Seq(Texts)
    BY <1>5, AppliedType DEF Commit
  <2>3. Types'
    BY <1>5, <2>1, <2>2 DEF Commit, Types
  <2>4. Valid(original', script') /\ file' = ApplyAll(original', script')
    BY <1>5 DEF Commit
  <2>5. QED
    BY <2>3, <2>4
<1>6. CASE UNCHANGED vars
  BY <1>6 DEF vars, Types, Anchored, EditsOf, Valid, ApplyAll
<1>7. QED
  BY <1>1, <1>2, <1>3, <1>4, <1>5, <1>6 DEF Next

\* Every reachable state of hash-anchored editing satisfies the invariant: a
\* script that is being applied is valid for what was read, and the file that
\* is written is what the rounds of the loop make of it.
THEOREM SpecHInv == Spec => []HInv
<1>1. Init => HInv
  BY InitHInv
<1>2. HInv /\ [Next]_vars => HInv'
  BY NextHInv
<1>3. QED
  BY <1>1, <1>2, PTL DEF Spec

-----------------------------------------------------------------------------
(* The properties.                                                          *)

\* The file, what was shown and what was read are always texts, whatever the
\* edits of a script overlap.
THEOREM HashlineType == Spec => []TypeOK
<1>1. HInv => TypeOK
  <2> SUFFICES ASSUME HInv PROVE TypeOK
    OBVIOUS
  <2>1. \A i \in DOMAIN script : script[i].op \in Ops
    BY ScriptIs, EditIs DEF HInv, Edit
  <2>2. QED
    BY <2>1 DEF HInv, Types, TypeOK
<1>2. QED
  BY <1>1, SpecHInv, PTL

\* A script of edits of disjoint ranges does to every line of the file what it
\* says of that line: the loop that splices the edits one after another, from
\* the last line to the first, misreads no anchor.
THEOREM EditsDoWhatTheySay == Spec => []DisjointEditsApply
<1>1. HInv => DisjointEditsApply
  <2> SUFFICES ASSUME HInv, status = "applied", Disjoint PROVE file = Meaning
    BY DEF DisjointEditsApply
  <2>1. Validated(Len(script)) /\ Len(script) \in Nat
    BY ScriptFits, ScriptIs DEF HInv
  <2>2. ApplyAll(original, script) = Meaning
    BY <2>1, AllRounds
  <2>3. QED
    BY <2>2 DEF HInv
<1>2. QED
  BY <1>1, SpecHInv, PTL

\* Every anchor of a script that is applied has, in the content it is applied
\* to, a line of the hash that the model was shown for that line number.
AnchorsAsSeen ==
    status \in {"editing", "applied"} =>
        \A i \in DOMAIN script :
            /\ script[i].end <= Len(original) /\ script[i].end <= Len(seen)
            /\ Hash[original[script[i].start]] = Hash[seen[script[i].start]]
            /\ Hash[original[script[i].end]] = Hash[seen[script[i].end]]

LEMMA AnchorLines ==
  ASSUME Types, Valid(original, script), NEW i \in DOMAIN script
  PROVE  /\ script[i].start \in 1 .. Len(seen) /\ script[i].end \in 1 .. Len(seen)
         /\ script[i].start \in 1 .. Len(original) /\ script[i].end \in 1 .. Len(original)
         /\ Hash[original[script[i].start]] = Hash[seen[script[i].start]]
         /\ Hash[original[script[i].end]] = Hash[seen[script[i].end]]
<1> PICK e : e = script[i]
  OBVIOUS
<1>1. e \in Anchored /\ seen \in Seq(Texts) /\ original \in Seq(Texts)
  BY ScriptIs DEF Types
<1>2. /\ e.start \in 1 .. Len(original) /\ Hash[original[e.start]] = e.startHash
      /\ e.end \in e.start .. Len(original) /\ Hash[original[e.end]] = e.endHash
  BY DEF Valid
<1>3. /\ e.start \in 1 .. Len(seen) /\ e.end \in 1 .. Len(seen)
      /\ e.startHash = Hash[seen[e.start]] /\ e.endHash = Hash[seen[e.end]]
  BY <1>1, AnchoredIs
<1>4. e.end \in 1 .. Len(original)
  BY <1>2
<1>5. QED
  BY <1>2, <1>3, <1>4

\* No script is applied over a line whose hash has changed since the model saw
\* it, whatever other writers did to the file: this holds of any hash.
THEOREM AnchorsHold == Spec => []AnchorsAsSeen
<1>1. HInv => AnchorsAsSeen
  <2> SUFFICES ASSUME HInv, status \in {"editing", "applied"}, NEW i \in DOMAIN script
               PROVE  /\ script[i].end <= Len(original) /\ script[i].end <= Len(seen)
                      /\ Hash[original[script[i].start]] = Hash[seen[script[i].start]]
                      /\ Hash[original[script[i].end]] = Hash[seen[script[i].end]]
    BY DEF AnchorsAsSeen
  <2>1. Types /\ Valid(original, script)
    BY DEF HInv
  <2>2. script[i].end \in 1 .. Len(original) /\ script[i].end \in 1 .. Len(seen)
    BY <2>1, AnchorLines
  <2>3. /\ Hash[original[script[i].start]] = Hash[seen[script[i].start]]
        /\ Hash[original[script[i].end]] = Hash[seen[script[i].end]]
    BY <2>1, AnchorLines
  <2>4. QED
    BY <2>2, <2>3
<1>2. QED
  BY <1>1, SpecHInv, PTL

\* If no two texts have the same hash, every anchor of a script that is applied
\* names a line of the text that the model was shown there, however the file
\* changed in between: one stale anchor anywhere refuses the whole script.
THEOREM TargetsHold ==
  ASSUME \A a, b \in Texts : Hash[a] = Hash[b] => a = b
  PROVE  Spec => []TargetsAsSeen
<1>1. HInv => TargetsAsSeen
  <2> SUFFICES ASSUME HInv, status \in {"editing", "applied"}, NEW i \in DOMAIN script
               PROVE  /\ script[i].end <= Len(original)
                      /\ original[script[i].start] = seen[script[i].start]
                      /\ original[script[i].end] = seen[script[i].end]
    BY DEF TargetsAsSeen
  <2>1. Types /\ Valid(original, script)
    BY DEF HInv
  <2> PICK s : s = script[i].start
    OBVIOUS
  <2> PICK t : t = script[i].end
    OBVIOUS
  <2>2. /\ s \in 1 .. Len(seen) /\ t \in 1 .. Len(seen)
        /\ s \in 1 .. Len(original) /\ t \in 1 .. Len(original)
    BY <2>1, AnchorLines
  <2>3. Hash[original[s]] = Hash[seen[s]] /\ Hash[original[t]] = Hash[seen[t]]
    BY <2>1, AnchorLines
  <2>4. original[s] \in Texts /\ seen[s] \in Texts /\ original[t] \in Texts /\ seen[t] \in Texts
    BY <2>1, <2>2 DEF Types
  <2>5. original[s] = seen[s] /\ original[t] = seen[t]
    BY <2>3, <2>4
  <2>6. QED
    BY <2>2, <2>5
<1>2. QED
  BY <1>1, SpecHInv, PTL
=============================================================================
