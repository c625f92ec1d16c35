--------------------------- MODULE LlamaServerProofs ---------------------------
(***************************************************************************)
(* The scheduler, for any number of slots and clients and any mix of jobs. *)
(*                                                                         *)
(* PlacedOnce says in terms of positions that a task is in one place: to   *)
(* prove it, the steps are read as moves that only take tasks out of       *)
(* places or launch those of a request that was held (Moves).  Answers     *)
(* ties the results to the places: a task that has been answered is in     *)
(* none, so that it cannot be answered again, and the server waits for the *)
(* tasks of open readers only.  Awake says that the next pass is queued as *)
(* long as a slot works, so that the server does not fall asleep on it.    *)
(***************************************************************************)
EXTENDS LlamaServer, FiniteSetTheorems, WellFoundedInduction, TLAPS

\* w is what is left of s without the entries at these positions, in order.
Thins(w, s, positions) ==
    \E from \in [1 .. Len(w) -> 1 .. Len(s)] :
        /\ \A i, j \in 1 .. Len(w) : i < j => from[i] < from[j]
        /\ \A i \in 1 .. Len(w) : from[i] \notin positions /\ w[i] = s[from[i]]
        /\ \A n \in 1 .. Len(s) : n \in positions \/ \E i \in 1 .. Len(w) : from[i] = n

\* Request r has an entry in queue q, is deferred in d or is in hand as c.
Queued(q, n, r) == q[n].kind = "task" /\ q[n].id[1] = r
Held(q, d, c, r) ==
    \/ \E n \in 1 .. Len(q) : Queued(q, n, r)
    \/ \E n \in 1 .. Len(d) : d[n] = r
    \/ c.kind = "task" /\ c.id[1] = r

\* It is so in one way at most.
Once(q, d, c) ==
    /\ \A m, n \in 1 .. Len(q) : q[m].kind = "task" /\ Queued(q, n, q[m].id[1]) => m = n
    /\ \A m, n \in 1 .. Len(d) : d[m] = d[n] => m = n
    /\ \A m \in 1 .. Len(q), n \in 1 .. Len(d) : ~Queued(q, m, d[n])
    /\ c.kind = "task" => /\ \A m \in 1 .. Len(q) : ~Queued(q, m, c.id[1])
                          /\ \A n \in 1 .. Len(d) : d[n] # c.id[1]

-----------------------------------------------------------------------------
(* Induction over an interval.                                             *)

\* A set of numbers has a least one.
LEMMA Least ==
    ASSUME NEW T \in SUBSET Nat, T # {}
    PROVE  \E m \in T : \A k \in T : m <= k
<1>1. PICK n \in T : TRUE
  OBVIOUS
<1> DEFINE Below == {0 .. k : k \in {j \in T : j <= n}}
<1>2. IsWellFoundedOn(StrictSubsetOrdering(0 .. n), FiniteSubsetsOf(0 .. n))
  BY FS_StrictSubsetOrderingWellFounded
<1>3. Below \subseteq FiniteSubsetsOf(0 .. n) /\ Below # {}
  <2>1. \A k \in Nat : k <= n => 0 .. k \subseteq 0 .. n /\ IsFiniteSet(0 .. k)
    BY FS_Interval
  <2>2. 0 .. n \in Below
    OBVIOUS
  <2>3. QED
    BY <2>1, <2>2 DEF FiniteSubsetsOf
<1>4. PICK b \in Below : \A c \in Below : <<c, b>> \notin StrictSubsetOrdering(0 .. n)
  BY <1>2, <1>3, WFMin
<1>5. PICK m \in T : m <= n /\ b = 0 .. m
  OBVIOUS
<1>6. ASSUME NEW k \in T, k < m PROVE FALSE
  <2>1. 0 .. k \in Below
    BY <1>6, <1>5
  <2>2. 0 .. k \subseteq 0 .. m /\ m \in 0 .. m /\ m \notin 0 .. k /\ 0 .. m \subseteq 0 .. n
    BY <1>5, <1>6
  <2>3. <<0 .. k, 0 .. m>> \in StrictSubsetOrdering(0 .. n)
    BY <2>2 DEF StrictSubsetOrdering
  <2>4. QED
    BY <2>1, <2>3, <1>4, <1>5
<1>7. QED
  BY <1>6

\* A set that holds 0 and, with each number, the next one holds all of 0 .. n.
LEMMA Induction ==
    ASSUME NEW n \in Nat, NEW S, 0 \in S, \A i \in 1 .. n : i - 1 \in S => i \in S
    PROVE  \A i \in 0 .. n : i \in S
<1> DEFINE T == {i \in 0 .. n : i \notin S}
<1>1. ASSUME T # {} PROVE FALSE
  <2>1. PICK m \in T : \A k \in T : m <= k
    <3>1. T \in SUBSET Nat /\ T # {}
      BY <1>1
    <3> HIDE DEF T
    <3>2. QED
      BY <3>1, Least
  <2>2. m \in 1 .. n /\ m - 1 \in 0 .. n /\ ~(m <= m - 1)
    BY <2>1
  <2>3. m - 1 \in S
    BY <2>1, <2>2
  <2>4. QED
    BY <2>1, <2>2, <2>3
<1>2. QED
  BY <1>1

-----------------------------------------------------------------------------
(* Sequences.                                                              *)

\* kept[i] is what Without keeps of the first i entries.
Keeps(kept, s, positions, n) ==
    kept = [i \in 0 .. n |->
               IF i = 0 THEN <<>>
               ELSE IF i \in positions THEN kept[i - 1] ELSE Append(kept[i - 1], s[i])]

\* Without's recursion is a function on an interval that starts at 0 and grows one
\* entry at a time.
LEMMA KeepsExists ==
    ASSUME NEW s, NEW positions, NEW n \in Nat
    PROVE  \E kept : Keeps(kept, s, positions, n)
<1> DEFINE S == {i \in 0 .. n : \E kept : Keeps(kept, s, positions, i)}
<1>1. 0 \in S
  <2>1. Keeps([i \in 0 .. 0 |-> <<>>], s, positions, 0)
    BY DEF Keeps
  <2>2. QED
    BY <2>1
<1>2. ASSUME NEW i \in 1 .. n, i - 1 \in S PROVE i \in S
  <2>1. PICK kept : Keeps(kept, s, positions, i - 1)
    BY <1>2
  <2> DEFINE more == IF i \in positions THEN kept[i - 1] ELSE Append(kept[i - 1], s[i])
             next == [j \in 0 .. i |-> IF j = i THEN more ELSE kept[j]]
  <2>2. ASSUME NEW j \in 0 .. i
        PROVE  next[j] = IF j = 0 THEN <<>>
                         ELSE IF j \in positions THEN next[j - 1] ELSE Append(next[j - 1], s[j])
    <3>1. CASE j = i
      <4>1. next[i] = more /\ next[i - 1] = kept[i - 1] /\ i # 0
        OBVIOUS
      <4>2. QED
        BY <3>1, <4>1
    <3>2. CASE j # i
      <4>1. j \in 0 .. i - 1 /\ next[j] = kept[j] /\ (j # 0 => next[j - 1] = kept[j - 1])
        BY <3>2
      <4>2. QED
        BY <4>1, <2>1 DEF Keeps
    <3>3. QED
      BY <3>1, <3>2
  <2>3. Keeps(next, s, positions, i)
    BY <2>2 DEF Keeps
  <2>4. QED
    BY <2>3
<1>3. n \in S
  <2>1. n \in 0 .. n
    OBVIOUS
  <2> HIDE DEF S
  <2>2. QED
    BY <1>1, <1>2, <2>1, Induction
<1>4. QED
  BY <1>3

\* The first i entries of s.
Prefix(s, i) == [n \in 1 .. i |-> s[n]]

\* One more entry: it is left out, or it comes last.
LEMMA ThinsMore ==
    ASSUME NEW S, NEW s \in Seq(S), NEW more \in Seq(S), NEW positions, NEW w \in Seq(S),
           Len(more) = Len(s) + 1, \A n \in 1 .. Len(s) : more[n] = s[n],
           Thins(w, s, positions)
    PROVE  IF Len(more) \in positions THEN Thins(w, more, positions)
                                      ELSE Thins(Append(w, more[Len(more)]), more, positions)
<1>1. PICK from \in [1 .. Len(w) -> 1 .. Len(s)] :
          /\ \A i, j \in 1 .. Len(w) : i < j => from[i] < from[j]
          /\ \A i \in 1 .. Len(w) : from[i] \notin positions /\ w[i] = s[from[i]]
          /\ \A n \in 1 .. Len(s) : n \in positions \/ \E i \in 1 .. Len(w) : from[i] = n
  BY Zenon DEF Thins
<1>2. Len(w) \in Nat /\ Len(s) \in Nat
  OBVIOUS
<1>3. \A i \in 1 .. Len(w) : from[i] \in 1 .. Len(more) /\ w[i] = more[from[i]]
  <2>1. TAKE i \in 1 .. Len(w)
  <2>2. from[i] \in 1 .. Len(s) /\ from[i] \in 1 .. Len(more)
    BY <1>2
  <2>3. QED
    BY <2>2, <1>1
<1>4. CASE Len(more) \in positions
  <2>1. from \in [1 .. Len(w) -> 1 .. Len(more)]
    BY <1>3
  <2>2. \A n \in 1 .. Len(more) : n \in positions \/ \E i \in 1 .. Len(w) : from[i] = n
    <3>1. TAKE n \in 1 .. Len(more)
    <3>2. n = Len(more) \/ n \in 1 .. Len(s)
      BY <1>2
    <3>3. QED
      BY <3>2, <1>1, <1>4
  <2>3. /\ \A i, j \in 1 .. Len(w) : i < j => from[i] < from[j]
        /\ \A i \in 1 .. Len(w) : from[i] \notin positions /\ w[i] = more[from[i]]
    BY <1>1, <1>3
  <2>4. Thins(w, more, positions)
    BY <2>1, <2>2, <2>3, Zenon DEF Thins
  <2>5. QED
    BY <2>4, <1>4
<1>5. CASE Len(more) \notin positions
  <2> DEFINE v == Append(w, more[Len(more)])
             onto == [i \in 1 .. Len(w) + 1 |-> IF i = Len(w) + 1 THEN Len(more) ELSE from[i]]
  <2>1. /\ Len(v) = Len(w) + 1 /\ v[Len(w) + 1] = more[Len(more)]
        /\ \A i \in 1 .. Len(w) : v[i] = w[i]
    OBVIOUS
  <2>2. onto \in [1 .. Len(v) -> 1 .. Len(more)]
    BY <1>2, <1>3, <2>1
  <2>3. \A i \in 1 .. Len(w) : onto[i] = from[i] /\ from[i] < Len(more) /\ from[i] \in Nat
    BY <1>2
  <2>4. onto[Len(w) + 1] = Len(more)
    BY <1>2
  <2> HIDE DEF v, onto
  <2>5. \A i, j \in 1 .. Len(v) : i < j => onto[i] < onto[j]
    <3>1. TAKE i, j \in 1 .. Len(v)
    <3>2. HAVE i < j
    <3>3. i \in 1 .. Len(w)
      BY <3>2, <2>1, <1>2
    <3>4. CASE j = Len(w) + 1
      BY <3>3, <3>4, <2>3, <2>4
    <3>5. CASE j # Len(w) + 1
      <4>1. j \in 1 .. Len(w)
        BY <3>5, <2>1, <1>2
      <4>2. QED
        BY <3>2, <3>3, <4>1, <2>3, <1>1
    <3>6. QED
      BY <3>4, <3>5
  <2>6. \A i \in 1 .. Len(v) : onto[i] \notin positions /\ v[i] = more[onto[i]]
    <3>1. TAKE i \in 1 .. Len(v)
    <3>2. CASE i = Len(w) + 1
      BY <3>2, <2>4, <2>1, <1>5
    <3>3. CASE i # Len(w) + 1
      <4>1. i \in 1 .. Len(w)
        BY <3>3, <2>1, <1>2
      <4>2. QED
        BY <4>1, <2>3, <2>1, <1>1, <1>3
    <3>4. QED
      BY <3>2, <3>3
  <2>7. \A n \in 1 .. Len(more) : n \in positions \/ \E i \in 1 .. Len(v) : onto[i] = n
    <3>1. TAKE n \in 1 .. Len(more)
    <3>2. CASE n = Len(more)
      BY <3>2, <2>1, <2>4, <1>2
    <3>3. CASE n # Len(more)
      <4>1. n \in 1 .. Len(s)
        BY <3>3, <1>2
      <4>2. CASE n \in positions
        BY <4>2
      <4>3. CASE n \notin positions
        <5>1. PICK i \in 1 .. Len(w) : from[i] = n
          BY <4>1, <4>3, <1>1
        <5>2. i \in 1 .. Len(v) /\ onto[i] = n
          BY <5>1, <2>1, <2>3, <1>2
        <5>3. QED
          BY <5>2
      <4>4. QED
        BY <4>2, <4>3
    <3>4. QED
      BY <3>2, <3>3
  <2>8. Thins(v, more, positions)
    BY <2>2, <2>5, <2>6, <2>7, Zenon DEF Thins
  <2>9. QED
    BY <2>8, <1>5 DEF v
<1>6. QED
  BY <1>4, <1>5

\* What std::remove_if leaves.
LEMMA WithoutThins ==
    ASSUME NEW S, NEW s \in Seq(S), NEW positions
    PROVE  Without(s, positions) \in Seq(S) /\ Thins(Without(s, positions), s, positions)
<1> DEFINE kept == CHOOSE kept : Keeps(kept, s, positions, Len(s))
<1>1. Len(s) \in Nat
  OBVIOUS
<1>2. Keeps(kept, s, positions, Len(s))
  BY <1>1, KeepsExists
<1>3. Without(s, positions) = kept[Len(s)]
  BY DEF Without, Keeps
<1> HIDE DEF kept
<1> DEFINE T == {i \in 0 .. Len(s) : kept[i] \in Seq(S) /\ Thins(kept[i], Prefix(s, i), positions)}
<1>4. 0 \in T
  <2>1. kept[0] = <<>>
    BY <1>1, <1>2 DEF Keeps
  <2>2. Prefix(s, 0) = <<>>
    BY DEF Prefix
  <2>3. Thins(<<>>, <<>>, positions)
    <3>1. Len(<<>>) = 0 /\ <<>> \in [1 .. Len(<<>>) -> 1 .. Len(<<>>)]
      OBVIOUS
    <3>2. \A i \in 1 .. Len(<<>>) : FALSE
      BY <3>1
    <3>3. QED
      BY <3>1, <3>2, Zenon DEF Thins
  <2>4. QED
    <3>1. kept[0] \in Seq(S) /\ 0 \in 0 .. Len(s)
      BY <2>1, <1>1
    <3>2. Thins(kept[0], Prefix(s, 0), positions)
      BY <2>1, <2>2, <2>3
    <3>3. QED
      BY <3>1, <3>2
<1>5. ASSUME NEW i \in 1 .. Len(s), i - 1 \in T PROVE i \in T
  <2>1. kept[i] = IF i \in positions THEN kept[i - 1] ELSE Append(kept[i - 1], s[i])
    <3>1. i \in 0 .. Len(s) /\ i # 0
      BY <1>1
    <3>2. QED
      BY <3>1, <1>2 DEF Keeps
  <2>2. kept[i - 1] \in Seq(S) /\ Thins(kept[i - 1], Prefix(s, i - 1), positions)
    BY <1>5
  <2>3. s[i] \in S
    OBVIOUS
  <2>4. kept[i] \in Seq(S)
    BY <2>1, <2>2, <2>3
  <2>5. Thins(kept[i], Prefix(s, i), positions)
    <3>1. /\ Prefix(s, i - 1) \in Seq(S) /\ Prefix(s, i) \in Seq(S)
          /\ Len(Prefix(s, i - 1)) = i - 1 /\ Len(Prefix(s, i)) = i
          /\ \A n \in 1 .. i - 1 : Prefix(s, i)[n] = Prefix(s, i - 1)[n]
          /\ Prefix(s, i)[i] = s[i]
      BY <1>1 DEF Prefix
    <3>2. Len(Prefix(s, i)) = Len(Prefix(s, i - 1)) + 1
      BY <3>1
    <3>3. \A n \in 1 .. Len(Prefix(s, i - 1)) : Prefix(s, i)[n] = Prefix(s, i - 1)[n]
      BY <3>1
    <3>4. IF i \in positions THEN Thins(kept[i - 1], Prefix(s, i), positions)
          ELSE Thins(Append(kept[i - 1], s[i]), Prefix(s, i), positions)
      BY <2>2, <3>1, <3>2, <3>3, ThinsMore
    <3>5. QED
      BY <2>1, <3>4
  <2>6. QED
    BY <2>4, <2>5, <1>1
<1>6. Len(s) \in T
  <2>1. Len(s) \in 0 .. Len(s)
    BY <1>1
  <2> HIDE DEF T
  <2>2. QED
    BY <1>1, <1>4, <1>5, <2>1, Induction
<1>7. Prefix(s, Len(s)) = s
  BY DEF Prefix
<1>8. QED
  BY <1>3, <1>6, <1>7

\* RemoveAt leaves out one position.
LEMMA RemoveAtThins ==
    ASSUME NEW S, NEW s \in Seq(S), NEW n \in 1 .. Len(s)
    PROVE  RemoveAt(s, n) \in Seq(S) /\ Thins(RemoveAt(s, n), s, {n})
<1> DEFINE before == SubSeq(s, 1, n - 1)
           after == SubSeq(s, n + 1, Len(s))
           w == before \o after
<1>1. Len(s) \in Nat /\ n \in Nat
  OBVIOUS
<1>2. before \in Seq(S) /\ Len(before) = n - 1 /\ \A i \in 1 .. n - 1 : before[i] = s[i]
  BY <1>1
<1>3. /\ after \in Seq(S) /\ Len(after) = Len(s) - n
      /\ \A i \in 1 .. Len(s) - n : after[i] = s[i + n]
  BY <1>1
<1> HIDE DEF before, after
<1>4. w \in Seq(S) /\ Len(w) = Len(s) - 1
  <2>1. w \in Seq(S) /\ Len(w) = Len(before) + Len(after)
    BY <1>2, <1>3
  <2>2. QED
    BY <2>1, <1>1, <1>2, <1>3
<1> DEFINE from == [i \in 1 .. Len(s) - 1 |-> IF i < n THEN i ELSE i + 1]
<1>5. \A i \in 1 .. Len(s) - 1 : w[i] = s[from[i]]
  <2>1. TAKE i \in 1 .. Len(s) - 1
  <2>2. CASE i < n
    BY <2>2, <1>1, <1>2, <1>3
  <2>3. CASE ~(i < n)
    <3>1. w[i] = after[i - (n - 1)]
      BY <2>3, <1>1, <1>2, <1>3
    <3>2. i - (n - 1) \in 1 .. Len(s) - n /\ i - (n - 1) + n = i + 1
      BY <2>3, <1>1
    <3>3. QED
      BY <3>1, <3>2, <2>3, <1>3
  <2>4. QED
    BY <2>2, <2>3
<1>6. from \in [1 .. Len(s) - 1 -> 1 .. Len(s)]
  BY <1>1
<1>7. \A i, j \in 1 .. Len(s) - 1 : i < j => from[i] < from[j]
  BY <1>1
<1>8. \A i \in 1 .. Len(s) - 1 : from[i] # n
  BY <1>1
<1>9. \A k \in 1 .. Len(s) : k # n => \E i \in 1 .. Len(s) - 1 : from[i] = k
  <2>1. TAKE k \in 1 .. Len(s)
  <2>2. HAVE k # n
  <2>3. CASE k < n
    <3>1. k \in 1 .. Len(s) - 1 /\ from[k] = k
      BY <2>3, <1>1
    <3>2. QED
      BY <3>1
  <2>4. CASE k > n
    <3>1. k - 1 \in 1 .. Len(s) - 1 /\ from[k - 1] = k
      BY <2>4, <1>1
    <3>2. QED
      BY <3>1
  <2>5. QED
    BY <2>2, <2>3, <2>4, <1>1
<1>10. RemoveAt(s, n) = w
  BY DEF RemoveAt, before, after
<1> HIDE DEF from, w
<1>11. Thins(w, s, {n})
  <2>1. \A i \in 1 .. Len(s) - 1 : from[i] \notin {n} /\ w[i] = s[from[i]]
    BY <1>5, <1>8
  <2>2. \A k \in 1 .. Len(s) : k \in {n} \/ \E i \in 1 .. Len(s) - 1 : from[i] = k
    BY <1>9
  <2>3. from \in [1 .. Len(w) -> 1 .. Len(s)]
    BY <1>4, <1>6
  <2>4. /\ \A i, j \in 1 .. Len(w) : i < j => from[i] < from[j]
        /\ \A i \in 1 .. Len(w) : from[i] \notin {n} /\ w[i] = s[from[i]]
        /\ \A m \in 1 .. Len(s) : m \in {n} \/ \E i \in 1 .. Len(w) : from[i] = m
    BY <1>4, <1>7, <2>1, <2>2
  <2>5. QED
    BY <2>3, <2>4, Zenon DEF Thins
<1>12. QED
  BY <1>4, <1>10, <1>11

\* What Append and \o do, entry by entry.
LEMMA AppendIs ==
    ASSUME NEW S, NEW s \in Seq(S), NEW e \in S
    PROVE  /\ Append(s, e) \in Seq(S) /\ Len(Append(s, e)) = Len(s) + 1
           /\ Append(s, e)[Len(s) + 1] = e
           /\ \A n \in 1 .. Len(s) : Append(s, e)[n] = s[n]
OBVIOUS

\* The same of a concatenation.
LEMMA ConcatIs ==
    ASSUME NEW S, NEW o \in Seq(S), NEW s \in Seq(S)
    PROVE  /\ o \o s \in Seq(S) /\ Len(o \o s) = Len(o) + Len(s)
           /\ \A n \in 1 .. Len(o) : (o \o s)[n] = o[n]
           /\ \A n \in 1 .. Len(s) : (o \o s)[n + Len(o)] = s[n]
OBVIOUS

\* An entry of a concatenation is an entry of one of the two.
LEMMA ConcatOnly ==
    ASSUME NEW S, NEW o \in Seq(S), NEW s \in Seq(S), NEW n \in 1 .. Len(o \o s)
    PROVE  \/ n \in 1 .. Len(o) /\ (o \o s)[n] = o[n]
           \/ n - Len(o) \in 1 .. Len(s) /\ (o \o s)[n] = s[n - Len(o)]
OBVIOUS

\* Nothing left out.
LEMMA ThinsSelf ==
    ASSUME NEW S, NEW s \in Seq(S)
    PROVE  Thins(s, s, {})
<1> DEFINE from == [n \in 1 .. Len(s) |-> n]
<1>1. /\ from \in [1 .. Len(s) -> 1 .. Len(s)]
      /\ \A i, j \in 1 .. Len(s) : i < j => from[i] < from[j]
      /\ \A i \in 1 .. Len(s) : from[i] \notin {} /\ s[i] = s[from[i]]
      /\ \A n \in 1 .. Len(s) : n \in {} \/ \E i \in 1 .. Len(s) : from[i] = n
  OBVIOUS
<1> HIDE DEF from
<1>2. QED
  BY <1>1, Zenon DEF Thins

\* The first left out.
LEMMA TailThins ==
    ASSUME NEW S, NEW s \in Seq(S), s # <<>>
    PROVE  /\ Head(s) \in S /\ Head(s) = s[1] /\ 1 \in 1 .. Len(s)
           /\ Tail(s) \in Seq(S) /\ Thins(Tail(s), s, {1})
<1>1. /\ Len(s) \in Nat \ {0} /\ Tail(s) \in Seq(S) /\ Len(Tail(s)) = Len(s) - 1
      /\ \A n \in 1 .. Len(s) - 1 : Tail(s)[n] = s[n + 1]
      /\ Head(s) = s[1]
  OBVIOUS
<1> DEFINE from == [n \in 1 .. Len(Tail(s)) |-> n + 1]
<1>2. from \in [1 .. Len(Tail(s)) -> 1 .. Len(s)]
  BY <1>1
<1>3. \A i, j \in 1 .. Len(Tail(s)) : i < j => from[i] < from[j]
  BY <1>1
<1>4. \A i \in 1 .. Len(Tail(s)) : from[i] \notin {1} /\ Tail(s)[i] = s[from[i]]
  BY <1>1
<1>5. \A n \in 1 .. Len(s) : n \in {1} \/ \E i \in 1 .. Len(Tail(s)) : from[i] = n
  <2>1. TAKE n \in 1 .. Len(s)
  <2>2. CASE n # 1
    <3>1. n - 1 \in 1 .. Len(Tail(s)) /\ from[n - 1] = n
      BY <2>2, <1>1
    <3>2. QED
      BY <3>1
  <2>3. QED
    BY <2>2
<1> HIDE DEF from
<1>6. Thins(Tail(s), s, {1})
  BY <1>2, <1>3, <1>4, <1>5, Zenon DEF Thins
<1>7. QED
  BY <1>1, <1>6

-----------------------------------------------------------------------------
(* A request's task is in one place.                                       *)

\* What is taken out of the queue or of the deferred tasks is not elsewhere.
LEMMA OnceThinned ==
    ASSUME NEW S, NEW q \in Seq(S), NEW q2 \in Seq(S), NEW P, Thins(q2, q, P),
           NEW R, NEW d \in Seq(R), NEW d2 \in Seq(R), NEW D, Thins(d2, d, D),
           NEW c, Once(q, d, c)
    PROVE  /\ Once(q2, d2, c)
           /\ \A r : Held(q2, d2, c, r) => Held(q, d, c, r)
           /\ \A n \in D \cap 1 .. Len(d) : ~Held(q2, d2, c, d[n])
           /\ \A n \in P \cap 1 .. Len(q) : q[n].kind = "task" => ~Held(q2, d2, c, q[n].id[1])
<1>1. PICK f \in [1 .. Len(q2) -> 1 .. Len(q)] :
          /\ \A i, j \in 1 .. Len(q2) : i < j => f[i] < f[j]
          /\ \A i \in 1 .. Len(q2) : f[i] \notin P /\ q2[i] = q[f[i]]
          /\ \A n \in 1 .. Len(q) : n \in P \/ \E i \in 1 .. Len(q2) : f[i] = n
  BY Zenon DEF Thins
<1>2. PICK g \in [1 .. Len(d2) -> 1 .. Len(d)] :
          /\ \A i, j \in 1 .. Len(d2) : i < j => g[i] < g[j]
          /\ \A i \in 1 .. Len(d2) : g[i] \notin D /\ d2[i] = d[g[i]]
          /\ \A n \in 1 .. Len(d) : n \in D \/ \E i \in 1 .. Len(d2) : g[i] = n
  BY Zenon DEF Thins
<1>3. Len(q2) \in Nat /\ Len(q) \in Nat /\ Len(d2) \in Nat /\ Len(d) \in Nat
  OBVIOUS
<1>4. \A i \in 1 .. Len(q2) : f[i] \in 1 .. Len(q) /\ \A r : Queued(q2, i, r) <=> Queued(q, f[i], r)
  BY <1>1 DEF Queued
<1>5. \A i \in 1 .. Len(d2) : g[i] \in 1 .. Len(d) /\ g[i] \notin D /\ d2[i] = d[g[i]]
  BY <1>2
<1>6. \A i, j \in 1 .. Len(q2) : f[i] = f[j] => i = j
  <2>1. TAKE i, j \in 1 .. Len(q2)
  <2>2. f[i] \in 1 .. Len(q) /\ f[j] \in 1 .. Len(q)
    BY <1>4
  <2>3. (i < j => f[i] < f[j]) /\ (j < i => f[j] < f[i])
    BY <1>1
  <2>4. QED
    BY <2>2, <2>3, <1>3
<1>7. \A i, j \in 1 .. Len(d2) : g[i] = g[j] => i = j
  <2>1. TAKE i, j \in 1 .. Len(d2)
  <2>2. g[i] \in 1 .. Len(d) /\ g[j] \in 1 .. Len(d)
    BY <1>5
  <2>3. (i < j => g[i] < g[j]) /\ (j < i => g[j] < g[i])
    BY <1>2
  <2>4. QED
    BY <2>2, <2>3, <1>3
<1>8. Once(q2, d2, c)
  <2>1. \A m, n \in 1 .. Len(q2) : q2[m].kind = "task" /\ Queued(q2, n, q2[m].id[1]) => m = n
    <3>1. TAKE m, n \in 1 .. Len(q2)
    <3>2. HAVE q2[m].kind = "task" /\ Queued(q2, n, q2[m].id[1])
    <3>3. q[f[m]].kind = "task" /\ Queued(q, f[n], q[f[m]].id[1])
      BY <3>2, <1>1, <1>4
    <3>4. f[m] = f[n]
      BY <3>3, <1>4 DEF Once
    <3>5. QED
      BY <3>4, <1>6
  <2>2. \A m, n \in 1 .. Len(d2) : d2[m] = d2[n] => m = n
    <3>1. TAKE m, n \in 1 .. Len(d2)
    <3>2. HAVE d2[m] = d2[n]
    <3>3. d[g[m]] = d[g[n]] /\ g[m] \in 1 .. Len(d) /\ g[n] \in 1 .. Len(d)
      BY <3>2, <1>5
    <3>4. g[m] = g[n]
      BY <3>3 DEF Once
    <3>5. QED
      BY <3>4, <1>7
  <2>3. \A m \in 1 .. Len(q2), n \in 1 .. Len(d2) : ~Queued(q2, m, d2[n])
    <3>1. TAKE m \in 1 .. Len(q2), n \in 1 .. Len(d2)
    <3>2. f[m] \in 1 .. Len(q) /\ g[n] \in 1 .. Len(d) /\ d2[n] = d[g[n]]
      BY <1>4, <1>5
    <3>3. ~Queued(q, f[m], d[g[n]])
      BY <3>2 DEF Once
    <3>4. QED
      BY <3>2, <3>3, <1>4
  <2>4. ASSUME c.kind = "task"
        PROVE  /\ \A m \in 1 .. Len(q2) : ~Queued(q2, m, c.id[1])
               /\ \A n \in 1 .. Len(d2) : d2[n] # c.id[1]
    <3>1. \A m \in 1 .. Len(q2) : ~Queued(q2, m, c.id[1])
      BY <2>4, <1>4 DEF Once
    <3>2. \A n \in 1 .. Len(d) : d[n] # c.id[1]
      BY <2>4 DEF Once
    <3>3. QED
      BY <3>1, <3>2, <1>5
  <2>5. QED
    BY <2>1, <2>2, <2>3, <2>4 DEF Once
<1>9. \A r : Held(q2, d2, c, r) => Held(q, d, c, r)
  BY <1>4, <1>5 DEF Held
<1>10. ASSUME NEW n \in D \cap 1 .. Len(d) PROVE ~Held(q2, d2, c, d[n])
  <2>1. \A m \in 1 .. Len(q2) : ~Queued(q2, m, d[n])
    BY <1>4 DEF Once
  <2>2. \A m \in 1 .. Len(d2) : d2[m] # d[n]
    <3>1. TAKE m \in 1 .. Len(d2)
    <3>2. g[m] # n /\ g[m] \in 1 .. Len(d) /\ n \in 1 .. Len(d) /\ d2[m] = d[g[m]]
      BY <1>5
    <3>3. QED
      BY <3>2 DEF Once
  <2>3. ~(c.kind = "task" /\ c.id[1] = d[n])
    BY DEF Once
  <2>4. QED
    BY <2>1, <2>2, <2>3 DEF Held
<1>11. ASSUME NEW n \in P \cap 1 .. Len(q), q[n].kind = "task"
       PROVE ~Held(q2, d2, c, q[n].id[1])
  <2>0. Queued(q, n, q[n].id[1])
    BY <1>11 DEF Queued
  <2>1. \A m \in 1 .. Len(q2) : ~Queued(q2, m, q[n].id[1])
    <3>1. TAKE m \in 1 .. Len(q2)
    <3>2. f[m] # n /\ f[m] \in 1 .. Len(q)
      BY <1>1
    <3>3. ~Queued(q, f[m], q[n].id[1])
      BY <3>2, <1>11 DEF Once
    <3>4. QED
      BY <3>3, <1>4
  <2>2. \A m \in 1 .. Len(d2) : d2[m] # q[n].id[1]
    <3>1. TAKE m \in 1 .. Len(d2)
    <3>2. g[m] \in 1 .. Len(d) /\ d2[m] = d[g[m]] /\ n \in 1 .. Len(q)
      BY <1>5
    <3>3. ~Queued(q, n, d[g[m]])
      BY <3>2 DEF Once
    <3>4. QED
      BY <2>0, <3>2, <3>3
  <2>3. ~(c.kind = "task" /\ c.id[1] = q[n].id[1])
    BY <2>0 DEF Once
  <2>4. QED
    BY <2>1, <2>2, <2>3 DEF Held
<1>12. QED
  BY <1>8, <1>9, <1>10, <1>11

\* Entries may be put in front when they are no tasks, or one that is not held.
LEMMA OncePrepended ==
    ASSUME NEW S, NEW q \in Seq(S), NEW o \in Seq(S), NEW R, NEW d \in Seq(R), NEW c, NEW x,
           Once(q, d, c),
           \/ \A n \in 1 .. Len(o) : o[n].kind # "task"
           \/ Len(o) = 1 /\ o[1].id[1] = x /\ ~Held(q, d, c, x)
    PROVE  /\ Once(o \o q, d, c)
           /\ \A r : Held(o \o q, d, c, r) =>
                  \/ Held(q, d, c, r)
                  \/ r = x /\ \E n \in 1 .. Len(o) : o[n].kind = "task"
<1> DEFINE w == o \o q
           Old(n) == n - Len(o) \in 1 .. Len(q) /\ \A r : Queued(w, n, r) <=> Queued(q, n - Len(o), r)
           New(n) == /\ n = 1 /\ ~Held(q, d, c, x)
                     /\ \A r : Queued(w, n, r) => r = x /\ \E i \in 1 .. Len(o) : o[i].kind = "task"
           Other(n) == w[n].kind # "task"
<1>1. ASSUME NEW n \in 1 .. Len(w) PROVE Old(n) \/ New(n) \/ Other(n)
  <2>1. \/ n \in 1 .. Len(o) /\ w[n] = o[n]
        \/ n - Len(o) \in 1 .. Len(q) /\ w[n] = q[n - Len(o)]
    BY ConcatOnly
  <2>2. CASE n - Len(o) \in 1 .. Len(q) /\ w[n] = q[n - Len(o)]
    BY <2>2 DEF Queued
  <2>3. CASE n \in 1 .. Len(o) /\ w[n] = o[n]
    <3>1. CASE o[n].kind # "task"
      BY <2>3, <3>1
    <3>2. CASE Len(o) = 1 /\ o[1].id[1] = x /\ ~Held(q, d, c, x)
      <4>1. n = 1
        BY <2>3, <3>2
      <4>2. QED
        BY <4>1, <2>3, <3>2 DEF Queued
    <3>3. QED
      BY <2>3, <3>1, <3>2
  <2>4. QED
    BY <2>1, <2>2, <2>3
<1>2. Len(w) \in Nat /\ Len(o) \in Nat /\ Len(q) \in Nat
  OBVIOUS
<1> HIDE DEF w
<1>4. ASSUME NEW m \in 1 .. Len(w), NEW n \in 1 .. Len(w),
             w[m].kind = "task", Queued(w, n, w[m].id[1])
      PROVE  m = n
  <2>1. w[n].kind = "task" /\ w[n].id[1] = w[m].id[1] /\ Queued(w, m, w[m].id[1])
    BY <1>4 DEF Queued
  <2>2. CASE Old(m) /\ Old(n)
    <3>1. PICK i, j \in 1 .. Len(q) : i = m - Len(o) /\ j = n - Len(o)
      BY <2>2
    <3>2. Queued(q, i, w[m].id[1]) /\ Queued(q, j, w[m].id[1])
      BY <2>1, <2>2, <3>1, <1>4
    <3>3. i = j
      BY <3>2 DEF Once, Queued
    <3>4. QED
      BY <3>1, <3>3, <1>2
  <2>3. CASE New(m) /\ Old(n)
    <3>1. w[m].id[1] = x /\ Queued(q, n - Len(o), x)
      BY <2>1, <2>3, <1>4
    <3>2. Held(q, d, c, x)
      BY <3>1, <2>3 DEF Held
    <3>3. QED
      BY <3>2, <2>3
  <2>4. CASE Old(m) /\ New(n)
    <3>1. w[m].id[1] = x /\ Queued(q, m - Len(o), x)
      BY <2>1, <2>4, <1>4
    <3>2. Held(q, d, c, x)
      BY <3>1, <2>4 DEF Held
    <3>3. QED
      BY <3>2, <2>4
  <2>5. QED
    BY <2>1, <2>2, <2>3, <2>4, <1>1, <1>4
<1>5. ASSUME NEW n \in 1 .. Len(w), NEW r, Queued(w, n, r)
      PROVE  \/ \E m \in 1 .. Len(q) : Queued(q, m, r)
             \/ r = x /\ ~Held(q, d, c, x) /\ \E i \in 1 .. Len(o) : o[i].kind = "task"
  BY <1>1, <1>5 DEF Queued
<1>6. \A m \in 1 .. Len(w), n \in 1 .. Len(d) : ~Queued(w, m, d[n])
  BY <1>5 DEF Once, Held
<1>7. c.kind = "task" => /\ \A m \in 1 .. Len(w) : ~Queued(w, m, c.id[1])
                         /\ \A n \in 1 .. Len(d) : d[n] # c.id[1]
  BY <1>5 DEF Once, Held
<1>8. Once(w, d, c)
  BY <1>4, <1>6, <1>7 DEF Once
<1>9. \A r : Held(w, d, c, r) =>
          \/ Held(q, d, c, r)
          \/ r = x /\ \E n \in 1 .. Len(o) : o[n].kind = "task"
  BY <1>5 DEF Held
<1>10. QED
  BY <1>8, <1>9 DEF w

\* The CANCELs that are put in front hold nothing.
LEMMA OnceCancelled ==
    ASSUME NEW S, NEW q \in Seq(S), NEW o \in Seq(S), NEW R, NEW d \in Seq(R), NEW c,
           Once(q, d, c), \A n \in 1 .. Len(o) : o[n].kind # "task"
    PROVE  /\ Once(o \o q, d, c)
           /\ \A r : Held(o \o q, d, c, r) => Held(q, d, c, r)
<1>1. ASSUME NEW x
      PROVE  /\ Once(o \o q, d, c)
             /\ \A r : Held(o \o q, d, c, r) =>
                    \/ Held(q, d, c, r)
                    \/ r = x /\ \E n \in 1 .. Len(o) : o[n].kind = "task"
  BY OncePrepended
<1>2. QED
  BY <1>1

\* An entry that is put last keeps the others where they were.
LEMMA OnceAppended ==
    ASSUME NEW S, NEW q \in Seq(S), NEW e \in S, NEW R, NEW d \in Seq(R), NEW c, NEW x,
           Once(q, d, c),
           e.kind # "task" \/ (e.id[1] = x /\ ~Held(q, d, c, x))
    PROVE  /\ Once(Append(q, e), d, c)
           /\ \A r : Held(Append(q, e), d, c, r) => Held(q, d, c, r) \/ (r = x /\ e.kind = "task")
<1> DEFINE w == Append(q, e)
<1>1. /\ Len(w) = Len(q) + 1 /\ w[Len(q) + 1] = e /\ Len(q) \in Nat
      /\ \A n \in 1 .. Len(q) : w[n] = q[n]
  BY AppendIs
<1> HIDE DEF w
<1>2. \A n \in 1 .. Len(q) : \A r : Queued(w, n, r) <=> Queued(q, n, r)
  BY <1>1 DEF Queued
<1>3. \A n \in 1 .. Len(w) : n \in 1 .. Len(q) \/ n = Len(q) + 1
  BY <1>1
<1>4. \A r : Queued(w, Len(q) + 1, r) => r = x /\ e.kind = "task" /\ ~Held(q, d, c, x)
  BY <1>1 DEF Queued
<1>5. \A n \in 1 .. Len(w) : \A r : Queued(w, n, r) =>
          \/ Queued(q, n, r) /\ n \in 1 .. Len(q)
          \/ r = x /\ e.kind = "task" /\ ~Held(q, d, c, x)
  BY <1>2, <1>3, <1>4
<1>6. ASSUME NEW m \in 1 .. Len(w), NEW n \in 1 .. Len(w),
             w[m].kind = "task", Queued(w, n, w[m].id[1])
      PROVE  m = n
  <2>1. Queued(w, m, w[m].id[1])
    BY <1>6 DEF Queued
  <2>2. CASE m \in 1 .. Len(q) /\ n \in 1 .. Len(q)
    <3>1. q[m].kind = "task" /\ Queued(q, n, q[m].id[1])
      BY <2>2, <1>1, <1>2, <1>6
    <3>2. QED
      BY <3>1, <2>2 DEF Once
  <2>3. CASE m = Len(q) + 1 /\ n \in 1 .. Len(q)
    <3>1. /\ w[m].id[1] = x /\ ~Held(q, d, c, x)
          /\ Queued(q, n, w[m].id[1])
      BY <2>3, <2>1, <1>2, <1>4, <1>6
    <3>2. QED
      BY <3>1, <2>3 DEF Held
  <2>4. CASE m \in 1 .. Len(q) /\ n = Len(q) + 1
    <3>1. /\ w[m].id[1] = x /\ ~Held(q, d, c, x)
          /\ Queued(q, m, w[m].id[1])
      BY <2>4, <2>1, <1>2, <1>4, <1>6
    <3>2. QED
      BY <3>1, <2>4 DEF Held
  <2>5. QED
    BY <2>2, <2>3, <2>4, <1>3
<1>7. \A m \in 1 .. Len(w), n \in 1 .. Len(d) : ~Queued(w, m, d[n])
  BY <1>5 DEF Once, Held
<1>8. c.kind = "task" => /\ \A m \in 1 .. Len(w) : ~Queued(w, m, c.id[1])
                         /\ \A n \in 1 .. Len(d) : d[n] # c.id[1]
  BY <1>5 DEF Once, Held
<1>9. Once(w, d, c)
  BY <1>6, <1>7, <1>8 DEF Once
<1>10. \A r : Held(w, d, c, r) => Held(q, d, c, r) \/ (r = x /\ e.kind = "task")
  BY <1>5 DEF Held
<1>11. QED
  BY <1>9, <1>10 DEF w

\* The main thread lets go of what it has in hand.
LEMMA OnceLetGo ==
    ASSUME NEW q, NEW d, NEW c, Once(q, d, c)
    PROVE  /\ Once(q, d, Nothing)
           /\ \A r : Held(q, d, Nothing, r) => Held(q, d, c, r)
           /\ c.kind = "task" => ~Held(q, d, Nothing, c.id[1])
<1>1. Nothing.kind # "task"
  BY DEF Nothing
<1>2. QED
  BY <1>1 DEF Once, Held

\* A request in hand that is deferred.
LEMMA OnceDeferred ==
    ASSUME NEW q, NEW R, NEW d \in Seq(R), NEW c, c.id[1] \in R, c.kind = "task", Once(q, d, c)
    PROVE  /\ Once(q, Append(d, c.id[1]), Nothing)
           /\ \A r : Held(q, Append(d, c.id[1]), Nothing, r) => Held(q, d, c, r)
<1> DEFINE w == Append(d, c.id[1])
<1>1. /\ Len(w) = Len(d) + 1 /\ w[Len(d) + 1] = c.id[1] /\ Len(d) \in Nat
      /\ \A n \in 1 .. Len(d) : w[n] = d[n]
  BY AppendIs
<1> HIDE DEF w
<1>2. \A n \in 1 .. Len(w) : n \in 1 .. Len(d) \/ n = Len(d) + 1
  BY <1>1
<1>3. Nothing.kind # "task"
  BY DEF Nothing
<1>4. \A m, n \in 1 .. Len(w) : w[m] = w[n] => m = n
  BY <1>1, <1>2 DEF Once
<1>5. \A m \in 1 .. Len(q), n \in 1 .. Len(w) : ~Queued(q, m, w[n])
  BY <1>1, <1>2 DEF Once
<1>6. Once(q, w, Nothing)
  BY <1>3, <1>4, <1>5 DEF Once
<1>7. \A r : Held(q, w, Nothing, r) => Held(q, d, c, r)
  BY <1>1, <1>2, <1>3 DEF Held
<1>8. QED
  BY <1>6, <1>7 DEF w

\* The first entry of the queue, taken in hand.
LEMMA OnceTaken ==
    ASSUME NEW S, NEW q \in Seq(S), q # <<>>, NEW R, NEW d \in Seq(R), NEW c, Once(q, d, c)
    PROVE  /\ Once(Tail(q), d, Head(q))
           /\ \A r : Held(Tail(q), d, Head(q), r) => Held(q, d, c, r)
<1>1. /\ Head(q) = q[1] /\ 1 \in 1 .. Len(q) /\ Tail(q) \in Seq(S) /\ Thins(Tail(q), q, {1})
  BY TailThins
<1>2. Thins(d, d, {})
  BY ThinsSelf
<1>3. /\ Once(Tail(q), d, c)
      /\ \A r : Held(Tail(q), d, c, r) => Held(q, d, c, r)
      /\ q[1].kind = "task" => ~Held(Tail(q), d, c, q[1].id[1])
  BY <1>1, <1>2, OnceThinned
<1>4. Once(Tail(q), d, Head(q))
  BY <1>1, <1>3 DEF Once, Held
<1>5. \A r : Held(Tail(q), d, Head(q), r) => Held(q, d, c, r)
  BY <1>1, <1>3 DEF Held, Queued
<1>6. QED
  BY <1>4, <1>5

-----------------------------------------------------------------------------
(* The inductive invariant.                                                *)

Placed(t) == SlotsOf(t) # {} \/ Unlaunched(t[1])
Answered(t) == t[2] \in got[t[1]] \/ Ends(t) # {}

\* OnePlace, in terms of positions.
PlacedOnce ==
    /\ Once(queue, deferred, cur)
    /\ \A r \in Callers : Unlaunched(r) => \A t \in TasksOf(r) : SlotsOf(t) = {}
    /\ \A p, q \in Slots : Busy(p) /\ slot[p].task = slot[q].task => p = q

\* A request that has not posted its tasks has left no trace.
Unposted(r) == rd[r] \in {"new", "knocking", "tokenizing"}
NoTrace ==
    \A r \in Callers : Unposted(r) => got[r] = {} /\ \A t \in TasksOf(r) : ~Placed(t)

\* The server waits for the results of the open readers.
WaitingIsOpen == \A r \in Callers : \A t \in TasksOf(r) : t \in waiting <=> rd[r] = "open"

\* No result of a task follows one that ends it, received or not, and a task
\* that has ended is in no place.
EndsLast ==
    \A m, n \in DOMAIN results :
        results[m].id = results[n].id /\ results[m].kind # "partial" => n <= m
NothingAfterFinal == \A n \in DOMAIN results : results[n].id[2] \notin got[results[n].id[1]]
AnsweredIsGone == \A t \in Tasks : Answered(t) => ~Placed(t)

\* As long as a slot works, the next pass over the slots is on its way, so that
\* the server does not fall asleep.
PassIsComing == \E n \in DOMAIN queue : queue[n].kind = "next"
Awake ==
    /\ pc \in {"fill", "decode", "sample", "fail", "rest"} => PassIsComing \/ IdleSlots = Slots
    /\ sleeping => /\ IdleSlots = Slots
                   /\ pc = "asleep" \/ (~running /\ pc \in {"tasks", "stopped"})

\* A pass visits slots that work.
PassVisitsBusy == pc \in {"fill", "sample", "fail"} => \A s \in todo : Busy(s)

\* Too many empty batches end the process.
EmptiesCounted == pc # "aborted" => empties <= MaxEmpty

IInv ==
    /\ TypeOK /\ PlacedOnce /\ NoTrace /\ WaitingIsOpen /\ ResultsHaveReaders
    /\ EndsLast /\ NothingAfterFinal /\ AnsweredIsGone /\ Awake /\ PassVisitsBusy
    /\ EmptiesCounted

-----------------------------------------------------------------------------
(* Types.                                                                  *)

\* What the mixes say of the jobs.
LEMMA JobsAre ==
    ASSUME TypeOK
    PROVE  /\ Callers \subseteq Requests
           /\ \A r \in Callers : job[r] \in Jobs /\ job[r].kids \in 0 .. NumSlots - 1
           /\ NumSlots \in Nat \ {0}
<1>1. Callers \subseteq Requests /\ \A r \in Callers : job[r] \in Jobs
  BY MixesAssumption DEF TypeOK, Callers
<1>2. QED
  BY <1>1, NumSlotsAssumption DEF Jobs

\* A task names its request.
LEMMA TasksAre ==
    /\ \A t \in Tasks : /\ t = <<t[1], t[2]>> /\ t # NoTask /\ t[1] \in Callers
                        /\ t \in TasksOf(t[1]) /\ t[2] \in 0 .. job[t[1]].kids
    /\ \A r \in Callers : \A t \in TasksOf(r) : t \in Tasks /\ t[1] = r
<1>1. \A a, b : <<a, b>> # NoTask /\ <<a, b>>[1] = a /\ <<a, b>>[2] = b
  BY DEF NoTask
<1>2. QED
  BY <1>1 DEF Tasks, TasksOf

\* A slot works if and only if it has a task.
LEMMA SlotsAre ==
    ASSUME TypeOK, NEW s \in Slots
    PROVE  \/ /\ Busy(s) /\ slot[s].task \in Tasks /\ slot[s].task # NoTask
              /\ slot[s].state \in SlotStates /\ slot[s].made \in Nat
           \/ /\ ~Busy(s) /\ slot[s] = Idle /\ slot[s].task = NoTask /\ slot[s].task \notin Tasks
<1>1. slot[s] \in [state : SlotStates, task : Tasks, made : Nat] \/ slot[s] = Idle
  BY DEF TypeOK
<1>2. "idle" \notin SlotStates
  BY DEF SlotStates
<1>3. \A t \in Tasks : t # NoTask
  BY TasksAre
<1>4. CASE slot[s] = Idle
  BY <1>3, <1>4 DEF Idle, Busy
<1>5. CASE slot[s] \in [state : SlotStates, task : Tasks, made : Nat]
  BY <1>2, <1>3, <1>5 DEF Busy
<1>6. QED
  BY <1>1, <1>4, <1>5

\* The three kinds of entries of the queue.
LEMMA EntriesAre ==
    /\ \A r \in Callers : Entry("task", <<r, 0>>) \in QueueEntries
    /\ \A t \in Tasks : Entry("cancel", t) \in QueueEntries
    /\ Entry("next", NoTask) \in QueueEntries
    /\ \A e \in QueueEntries :
        \/ e.kind = "task" /\ e.id[1] \in Callers /\ e.id = <<e.id[1], 0>>
        \/ e.kind = "cancel" /\ e.id \in Tasks
        \/ e.kind = "next"
<1>1. \A kind, t : Entry(kind, t).kind = kind /\ Entry(kind, t).id = t
  BY DEF Entry
<1>2. \A r : <<r, 0>>[1] = r
  OBVIOUS
<1>3. ASSUME NEW e \in QueueEntries
      PROVE  \/ e.kind = "task" /\ e.id[1] \in Callers /\ e.id = <<e.id[1], 0>>
             \/ e.kind = "cancel" /\ e.id \in Tasks
             \/ e.kind = "next"
  <2>1. CASE \E r \in Callers : e = Entry("task", <<r, 0>>)
    <3>1. PICK r \in Callers : e = Entry("task", <<r, 0>>)
      BY <2>1
    <3>2. e.kind = "task" /\ e.id = <<r, 0>> /\ e.id[1] = r
      BY <3>1, <1>1, <1>2
    <3>3. QED
      BY <3>2
  <2>2. CASE \E t \in Tasks : e = Entry("cancel", t)
    BY <2>2, <1>1
  <2>3. CASE e = Entry("next", NoTask)
    BY <2>3, <1>1
  <2>4. QED
    BY <2>1, <2>2, <2>3 DEF QueueEntries
<1>4. /\ \A r \in Callers : Entry("task", <<r, 0>>) \in QueueEntries
      /\ \A t \in Tasks : Entry("cancel", t) \in QueueEntries
      /\ Entry("next", NoTask) \in QueueEntries
  BY DEF QueueEntries
<1>5. QED
  BY <1>3, <1>4

\* What a request that is held looks like in hand.
LEMMA InHandIs ==
    ASSUME TypeOK, cur.kind = "task"
    PROVE  Request \in Callers /\ cur.id = <<Request, 0>> /\ cur.id \in Tasks /\ InHand(Request)
<1>1. cur \in QueueEntries
  BY DEF TypeOK, Nothing
<1>2. Request \in Callers /\ cur.id = <<Request, 0>>
  BY <1>1, EntriesAre DEF Request
<1>3. 0 \in 0 .. job[Request].kids
  BY <1>2, JobsAre
<1>4. cur.id \in Tasks
  BY <1>2, <1>3 DEF Tasks, TasksOf
<1>5. QED
  BY <1>2, <1>4 DEF InHand, Request

\* pop_deferred_task leaves sequences of entries and of requests.
LEMMA PopDeferredType ==
    ASSUME TypeOK, NEW s, PopDeferred(s)
    PROVE  queue' \in Seq(QueueEntries) /\ deferred' \in Seq(Callers)
<1>1. queue \in Seq(QueueEntries) /\ deferred \in Seq(Callers)
  BY DEF TypeOK
<1>2. CASE UNCHANGED queueVars
  BY <1>1, <1>2 DEF queueVars
<1>3. ASSUME NEW n \in DOMAIN deferred,
             queue' = <<Entry("task", <<deferred[n], 0>>)>> \o queue,
             deferred' = RemoveAt(deferred, n)
      PROVE  queue' \in Seq(QueueEntries) /\ deferred' \in Seq(Callers)
  <2>1. n \in 1 .. Len(deferred) /\ deferred[n] \in Callers
    BY <1>1
  <2>2. Entry("task", <<deferred[n], 0>>) \in QueueEntries
    BY <2>1, EntriesAre
  <2>3. <<Entry("task", <<deferred[n], 0>>)>> \in Seq(QueueEntries)
    BY <2>2
  <2>4. deferred' \in Seq(Callers)
    BY <1>1, <1>3, <2>1, RemoveAtThins
  <2>5. QED
    BY <1>1, <1>3, <2>3, <2>4, ConcatIs
<1>4. QED
  BY <1>2, <1>3 DEF PopDeferred

Results == [kind : {"partial", "final", "error"}, id : Tasks]

\* What is sent is a result of a task.
LEMMA SendType ==
    ASSUME TypeOK, NEW t, NEW kind \in {"partial", "final", "error"}, Send(t, kind)
    PROVE  results' \in Seq(Results)
<1>1. results \in Seq(Results) /\ waiting \subseteq Tasks
  BY DEF TypeOK, Results
<1>2. CASE t \in waiting
  <2>1. Entry(kind, t) \in Results
    BY <1>1, <1>2 DEF Entry, Results
  <2>2. results' = Append(results, Entry(kind, t))
    BY <1>2 DEF Send
  <2>3. QED
    BY <1>1, <2>1, <2>2, AppendIs
<1>3. CASE t \notin waiting
  BY <1>1, <1>3 DEF Send
<1>4. QED
  BY <1>2, <1>3

SlotRecords == [state : SlotStates, task : Tasks, made : Nat] \cup {Idle}

\* The types of the next state, when the jobs stay the same.
TypesNext ==
    /\ job' = job
    /\ rd' \in [Requests -> {"new", "knocking", "tokenizing", "open", "closing", "closed"}]
    /\ got' \in [Requests -> SUBSET (0 .. NumSlots - 1)]
    /\ \A r \in Callers : got'[r] \subseteq 0 .. job[r].kids
    /\ queue' \in Seq(QueueEntries) /\ deferred' \in Seq(Callers)
    /\ waiting' \subseteq Tasks
    /\ results' \in Seq(Results)
    /\ slot' \in [Slots -> SlotRecords]
    /\ pc' \in {"tasks", "process", "undo", "slots", "fill", "decode", "sample", "fail",
                "rest", "asleep", "stopped", "aborted"}
    /\ cur' \in QueueEntries \cup {Nothing}
    /\ todo' \subseteq Slots /\ batch' \subseteq Slots
    /\ empties' \in 0 .. MaxEmpty + 1
    /\ {running', sleeping', wakeup'} \subseteq BOOLEAN
    /\ EmptiesCounted'

\* TypesNext is TypeOK of the next state.
LEMMA TypesNextOK ==
    ASSUME TypeOK, TypesNext
    PROVE  TypeOK' /\ EmptiesCounted'
<1>1. Callers' = Callers /\ \A r \in Callers : TasksOf(r)' = TasksOf(r)
  BY DEF TypesNext, Callers, TasksOf
<1>2. Tasks' = Tasks
  BY <1>1 DEF Tasks
<1>3. QueueEntries' = QueueEntries
  BY <1>1, <1>2 DEF QueueEntries
<1>4. job' \in Mixes /\ \A r \in Callers : job'[r] = job[r]
  BY DEF TypeOK, TypesNext
<1>5. /\ results' \in Seq([kind : {"partial", "final", "error"}, id : Tasks'])
      /\ slot' \in [Slots -> [state : SlotStates, task : Tasks', made : Nat] \cup {Idle}]
  BY <1>2 DEF TypesNext, Results, SlotRecords
<1>6. /\ queue' \in Seq(QueueEntries') /\ deferred' \in Seq(Callers') /\ waiting' \subseteq Tasks'
      /\ cur' \in QueueEntries' \cup {Nothing}
      /\ \A r \in Callers' : got'[r] \subseteq 0 .. job'[r].kids
  BY <1>1, <1>2, <1>3, <1>4 DEF TypesNext
<1>7. /\ rd' \in [Requests -> {"new", "knocking", "tokenizing", "open", "closing", "closed"}]
      /\ got' \in [Requests -> SUBSET (0 .. NumSlots - 1)]
      /\ pc' \in {"tasks", "process", "undo", "slots", "fill", "decode", "sample", "fail",
                  "rest", "asleep", "stopped", "aborted"}
      /\ todo' \subseteq Slots /\ batch' \subseteq Slots
      /\ empties' \in 0 .. MaxEmpty + 1
      /\ {running', sleeping', wakeup'} \subseteq BOOLEAN
      /\ EmptiesCounted'
  BY DEF TypesNext
<1>8. QED
  BY <1>4, <1>5, <1>6, <1>7 DEF TypeOK

-----------------------------------------------------------------------------
(* Each step keeps the types.                                              *)

\* The CANCELs of a request.
LEMMA CancelsAre ==
    ASSUME TypeOK, NEW r \in Callers, NEW order \in SetToSeqs(TasksOf(r))
    PROVE  LET cancels == [i \in DOMAIN order |-> Entry("cancel", order[i])] IN
           /\ cancels \in Seq(QueueEntries)
           /\ \A i \in 1 .. Len(cancels) : cancels[i].kind # "task"
<1>1. TasksOf(r) = {<<r, i>> : i \in 0 .. job[r].kids} /\ job[r].kids \in Nat
  BY JobsAre DEF TasksOf
<1>2. IsFiniteSet(TasksOf(r))
  <2>1. IsFiniteSet(0 .. job[r].kids)
    <3>1. PICK n \in Int : n = job[r].kids
      BY <1>1
    <3>2. IsFiniteSet(0 .. n)
      BY FS_Interval
    <3>3. QED
      BY <3>1, <3>2
  <2> DEFINE task == [i \in 0 .. job[r].kids |-> <<r, i>>]
  <2>2. TasksOf(r) = {task[i] : i \in 0 .. job[r].kids}
    BY <1>1
  <2>3. task \in [0 .. job[r].kids -> TasksOf(r)] /\ \A t \in TasksOf(r) : \E i \in 0 .. job[r].kids : task[i] = t
    BY <1>1
  <2> HIDE DEF task
  <2>4. task \in Surjection(0 .. job[r].kids, TasksOf(r))
    BY <2>3 DEF Surjection
  <2>5. QED
    BY <2>1, <2>4, FS_Surjection
<1>3. Cardinality(TasksOf(r)) \in Nat
  BY <1>2, FS_CardinalityType
<1>4. order \in [1 .. Cardinality(TasksOf(r)) -> TasksOf(r)]
  BY DEF SetToSeqs
<1> DEFINE n == Cardinality(TasksOf(r))
           cancels == [i \in DOMAIN order |-> Entry("cancel", order[i])]
<1> HIDE DEF n
<1>5. order \in [1 .. n -> TasksOf(r)] /\ n \in Nat
  BY <1>3, <1>4 DEF n
<1>6. \A i \in 1 .. n : Entry("cancel", order[i]) \in QueueEntries /\ Entry("cancel", order[i]).kind = "cancel"
  <2>1. \A t \in TasksOf(r) : t \in Tasks
    BY TasksAre
  <2>2. QED
    BY <2>1, <1>5, EntriesAre DEF Entry
<1>7. cancels \in [1 .. n -> QueueEntries]
  BY <1>5, <1>6
<1>8. cancels \in Seq(QueueEntries) /\ Len(cancels) = n
  BY <1>5, <1>7
<1>9. \A i \in 1 .. Len(cancels) : cancels[i].kind # "task"
  BY <1>5, <1>6, <1>8
<1>10. QED
  BY <1>8, <1>9

\* The steps of the clients.
LEMMA HttpTypes ==
    ASSUME TypeOK, EmptiesCounted, NEW r \in Callers, Handler(r) \/ GiveUp(r)
    PROVE  TypesNext
<1>1. r \in Requests /\ job[r].kids \in 0 .. NumSlots - 1 /\ NumSlots \in Nat \ {0}
  BY JobsAre
<1>2. CASE Arrive(r)
  BY <1>1, <1>2 DEF TypeOK, EmptiesCounted, TypesNext, Results, SlotRecords, Arrive, At, httpVars, queueVars, resultVars, mainVars, powerVars
<1>3. CASE Enter(r)
  BY <1>1, <1>3 DEF TypeOK, EmptiesCounted, TypesNext, Results, SlotRecords, Enter, At, httpVars, queueVars, resultVars, mainVars, powerVars
<1>4. CASE Post(r)
  <2>1. Entry("task", <<r, 0>>) \in QueueEntries
    BY EntriesAre
  <2>2. TasksOf(r) \subseteq Tasks
    BY DEF Tasks
  <2>3. queue' \in Seq(QueueEntries)
    <3>1. <<Entry("task", <<r, 0>>)>> \in Seq(QueueEntries) /\ queue \in Seq(QueueEntries)
      BY <2>1 DEF TypeOK
    <3>2. <<Entry("task", <<r, 0>>)>> \o queue \in Seq(QueueEntries)
      BY <3>1, ConcatIs
    <3>3. Append(queue, Entry("task", <<r, 0>>)) \in Seq(QueueEntries)
      BY <2>1, <3>1, AppendIs
    <3>4. QED
      BY <1>4, <3>2, <3>3 DEF Post
  <2>4. QED
    BY <1>1, <1>4, <2>2, <2>3 DEF TypeOK, EmptiesCounted, TypesNext, Results, SlotRecords, Post, At, httpVars, queueVars, resultVars, mainVars, powerVars
<1>5. CASE Receive(r)
  <2>1. results \in Seq(Results)
    BY DEF TypeOK, Results
  <2>2. PICK n \in DOMAIN results :
           /\ results[n].id \in TasksOf(r)
           /\ \/ results[n].kind = "error" /\ StopReading(r, RemoveAt(results, n)) /\ UNCHANGED got
              \/ /\ results' = RemoveAt(results, n)
                 /\ got' = [got EXCEPT ![r] = IF results[n].kind = "final"
                                              THEN @ \cup {results[n].id[2]} ELSE @]
                 /\ UNCHANGED <<rd, waiting>>
    BY <1>5 DEF Receive
  <2>3. RemoveAt(results, n) \in Seq(Results)
    <3>1. n \in 1 .. Len(results)
      BY <2>1
    <3>2. QED
      BY <2>1, <3>1, RemoveAtThins
  <2>4. results' \in Seq(Results)
    BY <2>2, <2>3, WithoutThins DEF StopReading
  <2>5. results[n].id[2] \in 0 .. job[r].kids
    BY <2>2 DEF TasksOf
  <2>6. got' \in [Requests -> SUBSET (0 .. NumSlots - 1)] /\ \A q \in Callers : got'[q] \subseteq 0 .. job[q].kids
    <3> DEFINE more == got[r] \cup {results[n].id[2]}
    <3>1. /\ 0 .. job[r].kids \subseteq 0 .. NumSlots - 1 /\ Callers \subseteq Requests
          /\ got \in [Requests -> SUBSET (0 .. NumSlots - 1)]
          /\ \A q \in Callers : got[q] \subseteq 0 .. job[q].kids
      BY <1>1, JobsAre DEF TypeOK
    <3>2. got' = got \/ got' = [got EXCEPT ![r] = more]
      BY <1>1, <2>2, <3>1
    <3>3. more \subseteq 0 .. job[r].kids /\ more \in SUBSET (0 .. NumSlots - 1)
      BY <2>5, <3>1
    <3> HIDE DEF more
    <3>4. CASE got' = got
      BY <3>1, <3>4
    <3>5. CASE got' = [got EXCEPT ![r] = more]
      <4>1. got' \in [Requests -> SUBSET (0 .. NumSlots - 1)]
        BY <1>1, <3>1, <3>3, <3>5
      <4>2. \A q \in Callers : got'[q] = IF q = r THEN more ELSE got[q]
        BY <3>1, <3>5
      <4>3. QED
        BY <3>1, <3>3, <4>1, <4>2
    <3>6. QED
      BY <3>2, <3>4, <3>5
  <2>8. rd' \in [Requests -> {"new", "knocking", "tokenizing", "open", "closing", "closed"}]
        /\ waiting' \subseteq Tasks
    BY <1>1, <2>2 DEF StopReading, TypeOK
  <2>9. UNCHANGED <<job, queueVars, slot, mainVars, powerVars>>
    BY <1>5 DEF Receive
  <2>10. QED
    BY <2>4, <2>6, <2>8, <2>9 DEF TypeOK, EmptiesCounted, TypesNext, SlotRecords, queueVars, mainVars, powerVars
<1>6. CASE GiveUp(r)
  <2>1. results' \in Seq(Results)
    BY <1>6, WithoutThins DEF GiveUp, StopReading, TypeOK, Results
  <2>2. QED
    BY <1>1, <1>6, <2>1 DEF TypeOK, EmptiesCounted, TypesNext, Results, SlotRecords, GiveUp, StopReading, httpVars, queueVars, resultVars, mainVars, powerVars
<1>7. CASE PostCancels(r)
  <2>1. PICK order \in SetToSeqs(TasksOf(r)) :
           queue' = [i \in DOMAIN order |-> Entry("cancel", order[i])] \o Without(queue, Entries(r))
    BY <1>7 DEF PostCancels
  <2>2. Without(queue, Entries(r)) \in Seq(QueueEntries)
    BY WithoutThins DEF TypeOK
  <2>3. [i \in DOMAIN order |-> Entry("cancel", order[i])] \in Seq(QueueEntries)
    BY CancelsAre
  <2>4. queue' \in Seq(QueueEntries)
    BY <2>1, <2>2, <2>3, ConcatIs
  <2>5. deferred' \in Seq(Callers)
    BY <1>7, WithoutThins DEF PostCancels, TypeOK
  <2>6. QED
    BY <1>1, <1>7, <2>4, <2>5 DEF TypeOK, EmptiesCounted, TypesNext, Results, SlotRecords, PostCancels, At, httpVars, queueVars, resultVars, mainVars, powerVars
<1>8. CASE Finish(r)
  BY <1>1, <1>8 DEF TypeOK, EmptiesCounted, TypesNext, Results, SlotRecords, Finish, At, httpVars, queueVars, resultVars, mainVars, powerVars
<1>9. QED
  BY <1>2, <1>3, <1>4, <1>5, <1>6, <1>7, <1>8 DEF Handler

-----------------------------------------------------------------------------
(* The children of a task get slots that are idle.                         *)

\* A finite set of numbers has an i-th element.
LEMMA Nth ==
    ASSUME NEW N \in Nat, NEW S \in SUBSET (1 .. N), NEW i \in 1 .. Cardinality(S)
    PROVE  \E c \in S : Cardinality({d \in S : d <= c}) = i
<1> DEFINE UpTo(j) == {d \in S : d <= j}
           Size(j) == Cardinality(UpTo(j))
           T == {j \in 0 .. N : Size(j) >= i}
<1>0. \A d \in S : d \in Nat /\ 1 <= d /\ d <= N
  OBVIOUS
<1>1. IsFiniteSet(S) /\ Cardinality(S) \in Nat
  <2>1. IsFiniteSet(1 .. N)
    BY FS_Interval
  <2>2. IsFiniteSet(S)
    BY <2>1, FS_Subset
  <2>3. QED
    BY <2>2, FS_CardinalityType
<1>2. \A j \in 0 .. N : UpTo(j) \subseteq S /\ IsFiniteSet(UpTo(j)) /\ Size(j) \in Nat
  BY <1>1, FS_Subset, FS_CardinalityType
<1>3. i \in Nat /\ i >= 1 /\ i <= Cardinality(S)
  BY <1>1
<1>4. T \in SUBSET Nat /\ T # {}
  <2>1. UpTo(N) = S
    BY <1>0
  <2>2. Size(N) >= i /\ N \in 0 .. N
    BY <2>1, <1>3
  <2> HIDE DEF Size
  <2>3. N \in T
    BY <2>2
  <2>4. QED
    BY <2>3
<1>5. PICK m \in T : \A k \in T : m <= k
  <2> HIDE DEF T
  <2>1. QED
    BY <1>4, Least
<1>6. m # 0
  <2>1. UpTo(0) = {}
    <3>1. \A d \in S : ~(d <= 0)
      BY <1>0
    <3>2. QED
      BY <3>1
  <2>2. Size(0) = 0
    BY <2>1, FS_EmptySet
  <2>3. QED
    BY <2>2, <1>3, <1>5
<1>7. m \in 1 .. N /\ m - 1 \in 0 .. N /\ m - 1 \notin T
  <2> HIDE DEF Size
  <2>1. m \in 0 .. N
    BY <1>5
  <2>2. m \in 1 .. N /\ m - 1 \in 0 .. N /\ ~(m <= m - 1)
    BY <2>1, <1>6
  <2>3. QED
    BY <2>2, <1>5
<1>8. Size(m - 1) < i /\ Size(m - 1) \in Nat /\ Size(m) >= i /\ Size(m) \in Nat
  <2>1. ~(Size(m - 1) >= i)
    BY <1>7
  <2>2. Size(m - 1) \in Nat /\ Size(m) \in Nat
    BY <1>2, <1>7, <1>5
  <2>3. QED
    BY <2>1, <2>2, <1>3, <1>5
<1>81. \A d \in S : (d <= m <=> d <= m - 1 \/ d = m) /\ (d <= m - 1 => d # m)
  <2>1. m \in Nat
    BY <1>7
  <2>2. TAKE d \in S
  <2>3. d \in Nat
    BY <1>0
  <2>4. QED
    BY <2>1, <2>3
<1>9. m \in S
  <2>1. SUFFICES ASSUME m \notin S PROVE FALSE
    OBVIOUS
  <2>2. UpTo(m) = UpTo(m - 1)
    BY <2>1, <1>81
  <2>3. Size(m) = Size(m - 1)
    BY <2>2
  <2> HIDE DEF Size
  <2>4. QED
    BY <2>3, <1>8, <1>3
<1>10. UpTo(m) = UpTo(m - 1) \cup {m} /\ m \notin UpTo(m - 1)
  BY <1>81, <1>9
<1>11. Size(m) = Size(m - 1) + 1
  BY <1>2, <1>7, <1>10, FS_AddElement
<1>12. Size(m) = i
  BY <1>3, <1>8, <1>11
<1>13. QED
  BY <1>9, <1>12

\* get_free_slots finds an idle slot for every child.
LEMMA ChildSlotIs ==
    ASSUME TypeOK, NEW s \in IdleSlots, NEW kids \in Nat, Cardinality(IdleSlots) > kids,
           NEW i \in 1 .. kids
    PROVE  ChildSlot(s, i) \in IdleSlots \ {s}
<1> DEFINE S == IdleSlots \ {s}
<1>1. NumSlots \in Nat /\ S \in SUBSET (1 .. NumSlots) /\ IdleSlots \in SUBSET (1 .. NumSlots)
  BY NumSlotsAssumption DEF IdleSlots, Slots
<1>2. IsFiniteSet(IdleSlots) /\ Cardinality(IdleSlots) \in Nat
  <2>1. IsFiniteSet(1 .. NumSlots)
    BY <1>1, FS_Interval
  <2>2. IsFiniteSet(IdleSlots)
    BY <1>1, <2>1, FS_Subset
  <2>3. QED
    BY <2>2, FS_CardinalityType
<1>3. Cardinality(S) = Cardinality(IdleSlots) - 1
  BY <1>2, FS_RemoveElement
<1>4. i \in 1 .. Cardinality(S)
  BY <1>2, <1>3
<1>5. \E c \in S : Cardinality({d \in S : d <= c}) = i
  BY <1>1, <1>4, Nth
<1>6. QED
  BY <1>5 DEF ChildSlot

-----------------------------------------------------------------------------
(* The main thread's steps keep the types.                                 *)

\* Idle is one of the records a slot may hold.
LEMMA IdleRecord == Idle \in SlotRecords
BY DEF SlotRecords

\* A slot's new state, when it has a task.
LEMMA SlotRecord ==
    ASSUME TypeOK, NEW s \in Slots, Busy(s), NEW state \in SlotStates, NEW made \in Nat
    PROVE  [slot[s] EXCEPT !.state = state] \in SlotRecords
           /\ [slot[s] EXCEPT !.state = state, !.made = made] \in SlotRecords
<1>1. slot[s] \in [state : SlotStates, task : Tasks, made : Nat]
  BY DEF TypeOK, Busy, Idle
<1>2. QED
  BY <1>1 DEF SlotRecords

\* A released slot is idle, and the others are as they were.
LEMMA ReleaseType ==
    ASSUME TypeOK, NEW s \in Slots, Release(s)
    PROVE  /\ queue' \in Seq(QueueEntries) /\ deferred' \in Seq(Callers)
           /\ slot' \in [Slots -> SlotRecords]
           /\ \A q \in Slots : slot'[q] = IF q = s THEN Idle ELSE slot[q]
<1>1. slot \in [Slots -> SlotRecords] /\ slot' = [slot EXCEPT ![s] = Idle]
  BY DEF TypeOK, SlotRecords, Release
<1>2. queue' \in Seq(QueueEntries) /\ deferred' \in Seq(Callers)
  BY PopDeferredType DEF Release
<1>3. QED
  BY <1>1, <1>2, IdleRecord

\* Launching children leaves records in the slots.
LEMMA LaunchedType ==
    ASSUME TypeOK, cur.kind = "task", NEW kids \in SUBSET (1 .. job[Request].kids)
    PROVE  \A s : Launched(s, kids) \in [Slots -> SlotRecords]
<1>1. Request \in Callers
  BY InHandIs
<1>2. ASSUME NEW s, NEW q \in Slots PROVE Launched(s, kids)[q] \in SlotRecords
  <2>1. CASE \E i \in kids : q = ChildSlot(s, i)
    <3> DEFINE i == CHOOSE i \in kids : q = ChildSlot(s, i)
    <3>1. i \in kids
      BY <2>1
    <3>2. job[Request].kids \in Nat
      BY <1>1, JobsAre
    <3>3. <<Request, i>> \in Tasks
      <4>1. \A j \in 1 .. job[Request].kids : j \in 0 .. job[Request].kids
        BY <3>2
      <4>2. i \in 0 .. job[Request].kids
        BY <3>1, <4>1
      <4>3. QED
        BY <1>1, <4>2 DEF Tasks, TasksOf
    <3>4. Launched(s, kids)[q] = [state |-> "waiting", made |-> 0, task |-> <<Request, i>>]
      BY <2>1 DEF Launched
    <3>5. QED
      BY <3>3, <3>4 DEF SlotRecords, SlotStates
  <2>2. CASE ~\E i \in kids : q = ChildSlot(s, i)
    BY <2>2 DEF Launched, TypeOK, SlotRecords
  <2>3. QED
    BY <2>1, <2>2
<1>3. QED
  BY <1>2 DEF Launched

\* The steps of the main thread between visits.
LEMMA MainTypes ==
    ASSUME TypeOK, EmptiesCounted, PassVisitsBusy,
           \/ NextEntry \/ ProcessNext \/ ProcessCancel \/ Defer \/ Reply \/ Launch
           \/ UpdateSlots \/ Decode \/ DecodeNothing \/ DecodeFails \/ LeaveRest \/ Wake
           \/ Sleep \/ Terminate
    PROVE  TypesNext
<1>0. EmptiesCounted /\ MaxEmpty \in Nat /\ IdleSlots \subseteq Slots
  BY MaxEmptyAssumption DEF IdleSlots
<1>1. CASE NextEntry
  <2>1. cur' \in QueueEntries \cup {Nothing} /\ queue' \in Seq(QueueEntries)
    <3>1. queue \in Seq(QueueEntries) /\ cur \in QueueEntries \cup {Nothing}
      BY DEF TypeOK
    <3>2. CASE UNCHANGED <<queue, cur>>
      BY <3>1, <3>2
    <3>3. CASE queue # <<>> /\ cur' = Head(queue) /\ queue' = Tail(queue)
      BY <3>1, <3>3, TailThins
    <3>4. QED
      BY <1>1, <3>2, <3>3 DEF NextEntry
  <2>2. QED
    BY <1>0, <1>1, <2>1 DEF TypeOK, EmptiesCounted, TypesNext, Results, SlotRecords, httpVars, queueVars, resultVars, mainVars, powerVars, NextEntry
<1>2. CASE ProcessNext
  BY <1>0, <1>2 DEF TypeOK, EmptiesCounted, TypesNext, Results, SlotRecords, httpVars, queueVars, resultVars, mainVars, powerVars, ProcessNext, Processed, Processing
<1>3. CASE ProcessCancel
  <2>1. queue' \in Seq(QueueEntries) /\ deferred' \in Seq(Callers) /\ slot' \in [Slots -> SlotRecords]
    BY <1>3, ReleaseType DEF ProcessCancel, TypeOK, SlotRecords, queueVars
  <2>2. QED
    BY <1>0, <1>3, <2>1 DEF TypeOK, EmptiesCounted, TypesNext, Results, SlotRecords, httpVars, queueVars, resultVars, mainVars, powerVars, ProcessCancel, Processed, Processing
<1>4. CASE Defer
  <2>1. Request \in Callers
    BY <1>4, InHandIs DEF Defer, Processing
  <2>2. deferred' \in Seq(Callers)
    BY <1>4, <2>1, AppendIs DEF Defer, TypeOK
  <2>3. QED
    BY <1>0, <1>4, <2>2 DEF TypeOK, EmptiesCounted, TypesNext, Results, SlotRecords, httpVars, queueVars, resultVars, mainVars, powerVars, Defer, Processed, Processing
<1>5. CASE Reply
  <2>1. results' \in Seq(Results)
    BY <1>5, SendType DEF Reply
  <2>2. QED
    BY <1>0, <1>5, <2>1 DEF TypeOK, EmptiesCounted, TypesNext, Results, SlotRecords, httpVars, queueVars, resultVars, mainVars, powerVars, Reply, Processed, Processing
<1>6. CASE Launch
  <2>1. cur.kind = "task" /\ Request \in Callers /\ cur.id \in Tasks
    BY <1>6, InHandIs DEF Launch, Processing
  <2>2. PICK s \in Launchable(Request) :
           slot' = [Launched(s, 1 .. job[Request].kids) EXCEPT
                       ![s] = [state |-> "started", task |-> cur.id, made |-> 0]]
    BY <1>6 DEF Launch
  <2>3. Launched(s, 1 .. job[Request].kids) \in [Slots -> SlotRecords]
    BY <2>1, LaunchedType
  <2>4. [state |-> "started", task |-> cur.id, made |-> 0] \in SlotRecords
    BY <2>1 DEF SlotRecords, SlotStates
  <2>5. slot' \in [Slots -> SlotRecords]
    BY <2>2, <2>3, <2>4
  <2>6. QED
    BY <1>0, <1>6, <2>5 DEF TypeOK, EmptiesCounted, TypesNext, Results, SlotRecords, httpVars, queueVars, resultVars, mainVars, powerVars, Launch, Processed, Processing
<1>7. CASE UpdateSlots
  <2>1. queue' \in Seq(QueueEntries)
    <3>1. queue \in Seq(QueueEntries) /\ Entry("next", NoTask) \in QueueEntries
      BY EntriesAre DEF TypeOK
    <3>2. queue' = queue \/ queue' = Append(queue, Entry("next", NoTask))
      BY <1>7 DEF UpdateSlots
    <3>3. QED
      BY <3>1, <3>2, AppendIs
  <2>2. QED
    BY <1>0, <1>7, <2>1 DEF TypeOK, EmptiesCounted, TypesNext, Results, SlotRecords, httpVars, queueVars, resultVars, mainVars, powerVars, UpdateSlots
<1>8. CASE Decode
  <2>1. ASSUME NEW s \in Slots
        PROVE  slot'[s] \in SlotRecords /\ slot'[s] = IF s \in Copies THEN [slot[s] EXCEPT !.state = "done"] ELSE slot[s]
    <3>1. slot'[s] = IF s \in Copies THEN [slot[s] EXCEPT !.state = "done"] ELSE slot[s]
      BY <1>8, <2>1 DEF Decode
    <3>2. CASE s \in Copies
      <4>1. Busy(s)
        BY <3>2 DEF Copies, Busy
      <4>2. QED
        BY <3>1, <3>2, <4>1, SlotRecord DEF SlotStates
    <3>3. CASE s \notin Copies
      BY <3>1, <3>3 DEF TypeOK, SlotRecords
    <3>4. QED
      BY <3>1, <3>2, <3>3
  <2>2. slot' \in [Slots -> SlotRecords] /\ todo' \subseteq Slots
    BY <1>8, <2>1 DEF Decode, Copies, TypeOK
  <2>3. QED
    BY <1>0, <1>8, <2>2 DEF TypeOK, EmptiesCounted, TypesNext, Results, SlotRecords, httpVars, queueVars, resultVars, mainVars, powerVars, Decode
<1>9. CASE DecodeNothing
  <2>1. empties' \in 0 .. MaxEmpty + 1 /\ EmptiesCounted'
    <3>1. PICK e \in Nat : e = empties /\ e <= MaxEmpty
      BY <1>9, <1>0 DEF DecodeNothing, EmptiesCounted, TypeOK
    <3>2. empties' = e + 1 /\ pc' = IF e + 1 > MaxEmpty THEN "aborted" ELSE "rest"
      BY <1>9, <3>1 DEF DecodeNothing, TooManyEmpty
    <3>3. QED
      BY <1>0, <3>1, <3>2 DEF EmptiesCounted
  <2>2. QED
    BY <1>0, <1>9, <2>1 DEF TypeOK, EmptiesCounted, TypesNext, Results, SlotRecords, httpVars, queueVars, resultVars, mainVars, powerVars, DecodeNothing
<1>10. CASE DecodeFails
  BY <1>0, <1>10 DEF TypeOK, EmptiesCounted, TypesNext, Results, SlotRecords, httpVars, queueVars, resultVars, mainVars, powerVars, DecodeFails, Processed, Processing
<1>11. CASE LeaveRest
  BY <1>0, <1>11 DEF TypeOK, EmptiesCounted, TypesNext, Results, SlotRecords, httpVars, queueVars, resultVars, mainVars, powerVars, LeaveRest, Processed, Processing
<1>12. CASE Wake
  BY <1>0, <1>12 DEF TypeOK, EmptiesCounted, TypesNext, Results, SlotRecords, httpVars, queueVars, resultVars, mainVars, powerVars, Wake, Processed, Processing
<1>13. CASE Sleep
  BY <1>0, <1>13 DEF TypeOK, EmptiesCounted, TypesNext, Results, SlotRecords, httpVars, queueVars, resultVars, mainVars, powerVars, Sleep, Processed, Processing
<1>14. CASE Terminate
  BY <1>0, <1>14 DEF TypeOK, EmptiesCounted, TypesNext, Results, SlotRecords, httpVars, queueVars, resultVars, mainVars, powerVars, Terminate, Processed, Processing
<1>15. QED
  BY <1>1, <1>2, <1>3, <1>4, <1>5, <1>6, <1>7, <1>8, <1>9, <1>10, <1>11, <1>12, <1>13, <1>14

\* The launch that fails.
LEMMA LaunchFailsTypes ==
    ASSUME TypeOK, EmptiesCounted, LaunchFails
    PROVE  TypesNext
<1>1. cur.kind = "task" /\ Request \in Callers
  BY InHandIs DEF LaunchFails, Processing
<1>2. PICK s \in Launchable(Request), i \in 0 .. job[Request].kids :
        LET before == IF i = 0 THEN 1 .. job[Request].kids ELSE 1 .. i - 1 IN
        /\ Send(<<Request, i>>, "error")
        /\ slot' = Launched(s, before)
        /\ todo' = {ChildSlot(s, k) : k \in before}
        /\ empties' = IF before = {} THEN empties ELSE 0
  BY DEF LaunchFails
<1> DEFINE before == IF i = 0 THEN 1 .. job[Request].kids ELSE 1 .. i - 1
<1>3. job[Request].kids \in Nat /\ before \in SUBSET (1 .. job[Request].kids)
  BY <1>1, JobsAre
<1>4. s \in IdleSlots /\ Cardinality(IdleSlots) > job[Request].kids
  BY <1>2 DEF Launchable, Candidates
<1>5. \A k \in before : ChildSlot(s, k) \in Slots
  BY <1>3, <1>4, ChildSlotIs DEF IdleSlots
<1>6. todo' \subseteq Slots
  BY <1>2, <1>5
<1>7. slot' \in [Slots -> SlotRecords]
  BY <1>1, <1>2, <1>3, LaunchedType
<1>8. results' \in Seq(Results)
  BY <1>2, SendType
<1>9. empties' \in 0 .. MaxEmpty + 1 /\ EmptiesCounted'
  <2>1. empties \in 0 .. MaxEmpty + 1 /\ empties <= MaxEmpty /\ MaxEmpty \in Nat
    BY MaxEmptyAssumption DEF TypeOK, EmptiesCounted, LaunchFails, Processing
  <2>2. empties' = empties \/ empties' = 0
    BY <1>2
  <2>3. QED
    BY <2>1, <2>2 DEF EmptiesCounted
<1>10. pc' \in {"tasks", "undo"} /\ cur' = Nothing
  BY DEF LaunchFails
<1>11. UNCHANGED <<httpVars, queueVars, waiting, batch, powerVars>>
  BY DEF LaunchFails
<1>12. QED
  BY <1>6, <1>7, <1>8, <1>9, <1>10, <1>11 DEF TypeOK, TypesNext, Results, SlotRecords, httpVars, queueVars, powerVars

\* The visits to slots.
LEMMA VisitTypes ==
    ASSUME TypeOK, EmptiesCounted, PassVisitsBusy, NEW s \in Slots,
           \/ Undo(s) \/ Join(s) \/ Skip(s) \/ EndEarly(s) \/ Fail(s) \/ SampleLast(s) \/ SampleMore(s)
    PROVE  TypesNext
<1>1. /\ todo' \subseteq Slots /\ pc # "aborted"
      /\ pc' \in {"undo", "tasks", "fill", "decode", "fail", "sample", "rest"}
  BY DEF Undo, Join, Skip, EndEarly, Fail, SampleLast, SampleMore, FillsNext, Visit, TypeOK
<1>2. UNCHANGED <<httpVars, waiting, cur, empties, powerVars>>
  BY DEF Undo, Join, Skip, EndEarly, Fail, SampleLast, SampleMore, resultVars
<1>3. EmptiesCounted' /\ empties' \in 0 .. MaxEmpty + 1
  BY <1>1, <1>2 DEF EmptiesCounted, TypeOK
<1>4. batch' \subseteq Slots
  BY DEF Undo, Join, Skip, EndEarly, Fail, SampleLast, SampleMore, TypeOK
<1>5. results' \in Seq(Results)
  <2>1. results' = results \/ \E t : \E kind \in {"partial", "final", "error"} : Send(t, kind)
    BY DEF Undo, Join, Skip, EndEarly, Fail, SampleLast, SampleMore, Sampled, resultVars
  <2>2. QED
    BY <2>1, SendType DEF TypeOK, Results
<1>6. \/ Release(s)
      \/ /\ UNCHANGED queueVars
         /\ slot' = slot \/ \E state \in SlotStates, made \in Nat :
                /\ Busy(s)
                /\ \/ slot' = [slot EXCEPT ![s].state = state]
                   \/ slot' = [slot EXCEPT ![s].state = state, ![s].made = made]
  <2>1. CASE Undo(s) \/ EndEarly(s) \/ Fail(s) \/ SampleLast(s)
    BY <2>1 DEF Undo, EndEarly, Fail, SampleLast, Sampled
  <2>2. CASE Skip(s)
    BY <2>2 DEF Skip
  <2>3. CASE Join(s)
    <3>1. Busy(s)
      BY <2>3 DEF Join, FillsNext, Visit, PassVisitsBusy
    <3>2. \E state \in SlotStates : slot' = [slot EXCEPT ![s].state = state]
      BY <2>3 DEF Join, SlotStates
    <3>3. QED
      BY <2>3, <3>1, <3>2 DEF Join
  <2>4. CASE SampleMore(s)
    <3>1. Busy(s)
      BY <2>4 DEF SampleMore, Visit, PassVisitsBusy
    <3>2. slot[s].made + 1 \in Nat /\ "generating" \in SlotStates
      BY <3>1, SlotsAre DEF SlotStates
    <3>3. slot' = [slot EXCEPT ![s].state = "generating", ![s].made = slot[s].made + 1]
      BY <2>4 DEF SampleMore
    <3>4. QED
      BY <2>4, <3>1, <3>2, <3>3 DEF SampleMore
  <2>5. QED
    BY <2>1, <2>2, <2>3, <2>4
<1>7. queue' \in Seq(QueueEntries) /\ deferred' \in Seq(Callers)
  BY <1>6, ReleaseType DEF TypeOK, queueVars
<1>8. slot' \in [Slots -> SlotRecords]
  <2>1. slot \in [Slots -> SlotRecords]
    BY DEF TypeOK, SlotRecords
  <2>2. CASE Release(s)
    BY <2>2, ReleaseType
  <2>3. ASSUME NEW state \in SlotStates, NEW made \in Nat, Busy(s),
               \/ slot' = [slot EXCEPT ![s].state = state]
               \/ slot' = [slot EXCEPT ![s].state = state, ![s].made = made]
        PROVE  slot' \in [Slots -> SlotRecords]
    <3>1. [slot[s] EXCEPT !.state = state] \in SlotRecords
          /\ [slot[s] EXCEPT !.state = state, !.made = made] \in SlotRecords
      BY <2>3, SlotRecord
    <3>2. QED
      BY <2>1, <2>3, <3>1
  <2>4. QED
    BY <1>6, <2>1, <2>2, <2>3
<1>9. QED
  BY <1>1, <1>2, <1>3, <1>4, <1>5, <1>7, <1>8 DEF TypeOK, TypesNext, Results, SlotRecords, httpVars, powerVars

\* Every step keeps the types.
LEMMA TypeStep ==
    ASSUME TypeOK, EmptiesCounted, PassVisitsBusy, Next
    PROVE  TypesNext /\ TypeOK' /\ EmptiesCounted'
<1>1. TypesNext
  BY HttpTypes, MainTypes, LaunchFailsTypes, VisitTypes DEF Next, MainLoop
<1>2. QED
  BY <1>1, TypesNextOK

-----------------------------------------------------------------------------
(* Where tasks go.                                                         *)

\* A step that, as far as places are concerned, only takes tasks out of them
\* or launches those of a request that was held.
Moves ==
    /\ Once(queue', deferred', cur')
    /\ \A r \in Callers : Held(queue', deferred', cur', r) => Held(queue, deferred, cur, r)
    /\ \A s \in Slots :
        \/ slot'[s].task \in {slot[s].task, NoTask}
        \/ /\ slot'[s].task \in Tasks
           /\ Held(queue, deferred, cur, slot'[s].task[1])
           /\ ~Held(queue', deferred', cur', slot'[s].task[1])
    /\ \A p, q \in Slots : slot'[p].task # NoTask /\ slot'[p].task = slot'[q].task => p = q

\* Held is Unlaunched, of sequences that are given.
LEMMA UnlaunchedIs ==
    ASSUME TypeOK, NEW r
    PROVE  Unlaunched(r) <=> Held(queue, deferred, cur, r)
<1>1. DOMAIN queue = 1 .. Len(queue) /\ DOMAIN deferred = 1 .. Len(deferred)
  BY DEF TypeOK
<1>2. QED
  BY <1>1 DEF Unlaunched, Held, Queued, Entries, Deferrals, InHand

\* The same of the next state.
LEMMA UnlaunchedNext ==
    ASSUME TypeOK', NEW r
    PROVE  Unlaunched(r)' <=> Held(queue', deferred', cur', r)
<1>1. DOMAIN queue' = 1 .. Len(queue') /\ DOMAIN deferred' = 1 .. Len(deferred')
  BY DEF TypeOK
<1>2. QED
  BY <1>1 DEF Unlaunched, Held, Queued, Entries, Deferrals, InHand

\* What is there to say of a place before and after a step.
LEMMA PlacedIs ==
    ASSUME TypeOK, TypesNext, NEW t \in Tasks
    PROVE  /\ Placed(t) <=> \/ \E s \in Slots : slot[s].task = t
                            \/ Held(queue, deferred, cur, t[1])
           /\ Placed(t)' <=> \/ \E s \in Slots : slot'[s].task = t
                             \/ Held(queue', deferred', cur', t[1])
<1>1. TypeOK'
  BY TypesNextOK
<1>2. SlotsOf(t) # {} <=> \E s \in Slots : slot[s].task = t
  BY DEF SlotsOf
<1>3. SlotsOf(t)' # {} <=> \E s \in Slots : slot'[s].task = t
  BY DEF SlotsOf
<1>4. /\ Unlaunched(t[1]) <=> Held(queue, deferred, cur, t[1])
      /\ Unlaunched(t[1])' <=> Held(queue', deferred', cur', t[1])
  BY <1>1, UnlaunchedIs, UnlaunchedNext
<1>5. QED
  BY <1>2, <1>3, <1>4 DEF Placed

\* A step that moves tasks puts none where it was not, and no task in two
\* places.
LEMMA MovesPlace ==
    ASSUME TypeOK, TypesNext, PlacedOnce, Moves
    PROVE  /\ PlacedOnce'
           /\ \A t \in Tasks : Placed(t)' => Placed(t)
<1>1. TypeOK'
  BY TypesNextOK
<1>2. /\ \A r : Unlaunched(r) <=> Held(queue, deferred, cur, r)
      /\ \A r : Unlaunched(r)' <=> Held(queue', deferred', cur', r)
  BY <1>1, UnlaunchedIs, UnlaunchedNext
<1>3. Callers' = Callers /\ \A r \in Callers : TasksOf(r)' = TasksOf(r)
  BY DEF TypesNext, Callers, TasksOf
<1>4. /\ \A t \in Tasks : t # NoTask /\ t[1] \in Callers /\ t \in TasksOf(t[1])
      /\ \A r \in Callers : \A t \in TasksOf(r) : t \in Tasks /\ t[1] = r
  BY TasksAre
<1>5. ASSUME NEW r \in Callers, Unlaunched(r)', NEW t \in TasksOf(r)
      PROVE  SlotsOf(t)' = {}
  <2>1. Unlaunched(r) /\ t \in Tasks /\ t[1] = r /\ t # NoTask
    BY <1>2, <1>4, <1>5 DEF Moves
  <2>2. \A s \in Slots : slot[s].task # t
    BY <2>1 DEF PlacedOnce, SlotsOf
  <2>3. ASSUME NEW s \in Slots PROVE slot'[s].task # t
    BY <2>1, <2>2, <1>2, <1>5 DEF Moves
  <2>4. QED
    BY <2>3 DEF SlotsOf
<1>6. ASSUME NEW p \in Slots, NEW q \in Slots, Busy(p)', slot'[p].task = slot'[q].task
      PROVE  p = q
  <2>1. slot'[p] \in [state : SlotStates, task : Tasks, made : Nat]
    BY <1>6 DEF TypesNext, SlotRecords, Busy, Idle
  <2>2. slot'[p].task # NoTask
    BY <2>1, <1>4
  <2>3. QED
    BY <1>6, <2>2 DEF Moves
<1>7. Once(queue, deferred, cur)'
  BY DEF Moves
<1>8. PlacedOnce'
  BY <1>3, <1>5, <1>6, <1>7 DEF PlacedOnce
<1>9. ASSUME NEW t \in Tasks, Placed(t)' PROVE Placed(t)
  <2>1. CASE Held(queue', deferred', cur', t[1])
    BY <2>1, <1>4, PlacedIs DEF Moves
  <2>2. CASE \E s \in Slots : slot'[s].task = t
    <3>1. PICK s \in Slots : slot'[s].task = t
      BY <2>2
    <3>2. slot[s].task = t \/ Held(queue, deferred, cur, t[1])
      BY <3>1, <1>4 DEF Moves
    <3>3. QED
      BY <3>2, PlacedIs
  <2>3. QED
    BY <1>9, <2>1, <2>2, PlacedIs
<1>10. QED
  BY <1>8, <1>9

\* A step that launches nothing.
LEMMA Settles ==
    ASSUME TypeOK, PlacedOnce, Once(queue', deferred', cur'),
           \A r : Held(queue', deferred', cur', r) => Held(queue, deferred, cur, r),
           \A s \in Slots : slot'[s].task \in {slot[s].task, NoTask}
    PROVE  Moves
<1>1. ASSUME NEW p \in Slots, NEW q \in Slots,
             slot'[p].task # NoTask, slot'[p].task = slot'[q].task
      PROVE  p = q
  <2>1. slot[p].task # NoTask /\ slot[p].task = slot[q].task
    BY <1>1
  <2>2. Busy(p)
    BY <2>1, SlotsAre
  <2>3. QED
    BY <2>1, <2>2 DEF PlacedOnce
<1>2. QED
  BY <1>1 DEF Moves

\* A released slot takes one deferred task back to the queue.
LEMMA PopDeferredOnce ==
    ASSUME TypeOK, NEW s, PopDeferred(s), NEW c, Once(queue, deferred, c)
    PROVE  /\ Once(queue', deferred', c)
           /\ \A r : Held(queue', deferred', c, r) => Held(queue, deferred, c, r)
<1>1. queue \in Seq(QueueEntries) /\ deferred \in Seq(Callers)
  BY DEF TypeOK
<1>2. CASE UNCHANGED queueVars
  BY <1>2 DEF queueVars
<1>3. ASSUME NEW n \in DOMAIN deferred,
             queue' = <<Entry("task", <<deferred[n], 0>>)>> \o queue,
             deferred' = RemoveAt(deferred, n)
      PROVE  /\ Once(queue', deferred', c)
             /\ \A r : Held(queue', deferred', c, r) => Held(queue, deferred, c, r)
  <2> DEFINE o == <<Entry("task", <<deferred[n], 0>>)>>
  <2>1. n \in 1 .. Len(deferred) /\ deferred[n] \in Callers
    BY <1>1
  <2>2. RemoveAt(deferred, n) \in Seq(Callers) /\ Thins(RemoveAt(deferred, n), deferred, {n})
    BY <1>1, <2>1, RemoveAtThins
  <2>3. Thins(queue, queue, {})
    BY <1>1, ThinsSelf
  <2>4. /\ Once(queue, RemoveAt(deferred, n), c)
        /\ \A r : Held(queue, RemoveAt(deferred, n), c, r) => Held(queue, deferred, c, r)
        /\ ~Held(queue, RemoveAt(deferred, n), c, deferred[n])
    BY <1>1, <2>1, <2>2, <2>3, OnceThinned
  <2>5. /\ o \in Seq(QueueEntries) /\ Len(o) = 1
        /\ o[1] = Entry("task", <<deferred[n], 0>>)
    BY <2>1, EntriesAre
  <2>6. o[1].id[1] = deferred[n]
    BY <2>5 DEF Entry
  <2> HIDE DEF o
  <2>7. /\ Once(o \o queue, RemoveAt(deferred, n), c)
        /\ \A r : Held(o \o queue, RemoveAt(deferred, n), c, r)
                  => Held(queue, RemoveAt(deferred, n), c, r) \/ r = deferred[n]
    BY <1>1, <2>2, <2>4, <2>5, <2>6, OncePrepended
  <2>8. Held(queue, deferred, c, deferred[n])
    BY <2>1 DEF Held
  <2>9. QED
    BY <1>3, <2>4, <2>7, <2>8 DEF o
<1>4. QED
  BY <1>2, <1>3 DEF PopDeferred

\* A slot that is released moves a task from the deferred ones to the queue.
LEMMA ReleaseMoves ==
    ASSUME TypeOK, PlacedOnce, NEW s \in Slots, Release(s), cur' = cur \/ cur' = Nothing
    PROVE  Moves
<1>1. /\ Once(queue, deferred, cur')
      /\ \A r : Held(queue, deferred, cur', r) => Held(queue, deferred, cur, r)
  BY OnceLetGo DEF PlacedOnce
<1>2. /\ Once(queue', deferred', cur')
      /\ \A r : Held(queue', deferred', cur', r) => Held(queue, deferred, cur', r)
  BY <1>1, PopDeferredOnce DEF Release
<1>3. \A q \in Slots : slot'[q].task \in {slot[q].task, NoTask}
  BY ReleaseType DEF Idle
<1>4. QED
  BY <1>1, <1>2, <1>3, Settles

\* Nothing but the hand changes, and the states of the slots.
LEMMA LetGoMoves ==
    ASSUME TypeOK, PlacedOnce, UNCHANGED queueVars, cur' = cur \/ cur' = Nothing,
           \A s \in Slots : slot'[s].task = slot[s].task
    PROVE  Moves
<1>1. /\ Once(queue', deferred', cur')
      /\ \A r : Held(queue', deferred', cur', r) => Held(queue, deferred, cur, r)
  BY OnceLetGo DEF PlacedOnce, queueVars
<1>2. QED
  BY <1>1, Settles

\* A launch takes the task from the hand to slots.
LEMMA LaunchMoves ==
    ASSUME TypeOK, PlacedOnce, cur.kind = "task", cur' = Nothing, UNCHANGED queueVars,
           NEW s, NEW kids \in SUBSET (1 .. job[Request].kids),
           \/ slot' = Launched(s, kids)
           \/ slot' = [Launched(s, kids) EXCEPT
                          ![s] = [state |-> "started", task |-> cur.id, made |-> 0]]
    PROVE  /\ Moves
           /\ ~Held(queue', deferred', cur', Request)
           /\ \A q \in Slots : \/ slot'[q].task = slot[q].task
                               \/ slot'[q].task = cur.id /\ slot' # Launched(s, kids)
                               \/ \E i \in kids : slot'[q].task = <<Request, i>>
<1>1. /\ Request \in Callers /\ cur.id = <<Request, 0>> /\ cur.id \in Tasks
      /\ Held(queue, deferred, cur, Request)
  BY InHandIs DEF Held, Request
<1>2. /\ Once(queue', deferred', cur')
      /\ \A r : Held(queue', deferred', cur', r) => Held(queue, deferred, cur, r)
      /\ ~Held(queue', deferred', cur', Request)
  BY OnceLetGo DEF PlacedOnce, queueVars, Request
<1>3. \A i \in kids : <<Request, i>> \in Tasks
  <2>1. job[Request].kids \in Nat
    BY <1>1, JobsAre
  <2>2. \A i \in 1 .. job[Request].kids : i \in 0 .. job[Request].kids
    BY <2>1
  <2>3. QED
    BY <1>1, <2>2 DEF Tasks, TasksOf
\* Each slot keeps its task, or gets the parent or the child it is chosen for.
<1> DEFINE Parent(q) == q = s /\ slot'[q].task = cur.id /\ slot' # Launched(s, kids)
           Child(q, i) == q = ChildSlot(s, i) /\ slot'[q].task = <<Request, i>>
           Other(q) == slot'[q].task = slot[q].task
<1>4. ASSUME NEW q \in Slots PROVE Parent(q) \/ Other(q) \/ \E i \in kids : Child(q, i)
  <2>1. Launched(s, kids) \in [Slots -> SlotRecords]
    BY LaunchedType
  <2>2. \/ slot'[q] = Launched(s, kids)[q]
        \/ /\ q = s /\ slot'[q] = [state |-> "started", task |-> cur.id, made |-> 0]
           /\ slot' # Launched(s, kids)
    BY <2>1
  <2>3. CASE slot'[q] = Launched(s, kids)[q]
    <3>1. CASE \E i \in kids : q = ChildSlot(s, i)
      <4>1. PICK i \in kids : i = CHOOSE k \in kids : q = ChildSlot(s, k)
        BY <3>1
      <4>2. q = ChildSlot(s, i)
        BY <3>1, <4>1
      <4>3. slot'[q].task = <<Request, i>>
        BY <2>3, <3>1, <4>1 DEF Launched
      <4>4. QED
        BY <4>2, <4>3
    <3>2. CASE ~\E i \in kids : q = ChildSlot(s, i)
      BY <2>3, <3>2 DEF Launched
    <3>3. QED
      BY <3>1, <3>2
  <2>4. QED
    BY <2>2, <2>3
<1>5. \A q \in Slots : slot[q].task # NoTask =>
          slot[q].task \in Tasks /\ Busy(q) /\ slot[q].task[1] # Request
  <2>1. TAKE q \in Slots
  <2>2. HAVE slot[q].task # NoTask
  <2>3. slot[q].task \in Tasks /\ Busy(q)
    BY <2>2, SlotsAre
  <2>4. \A t \in TasksOf(Request) : SlotsOf(t) = {}
    BY <1>1, UnlaunchedIs DEF PlacedOnce
  <2>5. slot[q].task[1] # Request
    BY <2>3, <2>4, TasksAre DEF SlotsOf
  <2>6. QED
    BY <2>3, <2>5
<1>6. \A i : <<Request, i>>[1] = Request /\ <<Request, i>>[2] = i
  OBVIOUS
<1>7. ASSUME NEW p \in Slots, NEW q \in Slots,
             slot'[p].task # NoTask, slot'[p].task = slot'[q].task
      PROVE  p = q
  <2>1. CASE Other(p) /\ Other(q)
    BY <1>5, <1>7, <2>1 DEF PlacedOnce
  <2>2. CASE slot'[p].task[1] = Request /\ slot'[q].task[1] = Request
    <3>1. ~Other(p) /\ ~Other(q)
      BY <1>5, <1>7, <2>2
    <3>2. \A i \in kids : i # 0
      <4>1. job[Request].kids \in Nat
        BY <1>1, JobsAre
      <4>2. QED
        BY <4>1
    <3>3. QED
      BY <1>1, <1>4, <1>6, <1>7, <3>1, <3>2
  <2>3. CASE slot'[p].task[1] # Request
    BY <1>1, <1>4, <1>6, <1>7, <2>1, <2>3
  <2>4. QED
    BY <1>7, <2>2, <2>3
<1>8. \A q \in Slots :
        \/ slot'[q].task \in {slot[q].task, NoTask}
        \/ slot'[q].task \in Tasks /\ slot'[q].task[1] = Request
  BY <1>1, <1>3, <1>4, <1>6
<1>9. Moves
  BY <1>1, <1>2, <1>7, <1>8 DEF Moves
<1>10. QED
  BY <1>2, <1>4, <1>9

\* Every step of the main thread and every one of the clients but Post moves tasks.
LEMMA MainMoves ==
    ASSUME TypeOK, PlacedOnce,
           \/ NextEntry \/ ProcessNext \/ ProcessCancel \/ Defer \/ Reply \/ Launch \/ LaunchFails
           \/ UpdateSlots \/ Decode \/ DecodeNothing \/ DecodeFails \/ LeaveRest \/ Wake
           \/ Sleep \/ Terminate
    PROVE  Moves
<1>1. queue \in Seq(QueueEntries) /\ deferred \in Seq(Callers)
  BY DEF TypeOK
<1>2. CASE NextEntry
  <2>1. CASE UNCHANGED <<queue, cur>>
    BY <1>2, <2>1, LetGoMoves DEF NextEntry, queueVars
  <2>2. CASE queue # <<>> /\ cur' = Head(queue) /\ queue' = Tail(queue)
    <3>1. UNCHANGED <<deferred, slot>>
      BY <1>2 DEF NextEntry
    <3>2. /\ Once(queue', deferred', cur')
          /\ \A r : Held(queue', deferred', cur', r) => Held(queue, deferred, cur, r)
      BY <1>1, <2>2, <3>1, OnceTaken DEF PlacedOnce
    <3>3. QED
      BY <3>1, <3>2, Settles
  <2>3. QED
    BY <1>2, <2>1, <2>2 DEF NextEntry
<1>3. CASE ProcessCancel
  <2>1. CASE \E s \in Slots : Release(s)
    BY <1>3, <2>1, ReleaseMoves DEF ProcessCancel, Processed
  <2>2. CASE UNCHANGED <<slot, queueVars>>
    BY <1>3, <2>2, LetGoMoves DEF ProcessCancel, Processed
  <2>3. QED
    BY <1>3, <2>1, <2>2 DEF ProcessCancel
<1>4. CASE Defer
  <2>1. cur.kind = "task" /\ cur.id[1] \in Callers
    BY <1>4, InHandIs DEF Defer, Processing, Request
  <2>2. deferred' = Append(deferred, cur.id[1]) /\ cur' = Nothing /\ UNCHANGED <<queue, slot>>
    BY <1>4 DEF Defer, Processed, Request
  <2>3. /\ Once(queue', deferred', cur')
        /\ \A r : Held(queue', deferred', cur', r) => Held(queue, deferred, cur, r)
    BY <1>1, <2>1, <2>2, OnceDeferred DEF PlacedOnce
  <2>4. QED
    BY <2>2, <2>3, Settles
<1>5. CASE Launch
  <2>1. job[Request].kids \in Nat /\ cur.kind = "task"
    BY <1>5, InHandIs, JobsAre DEF Launch, Processing
  <2>2. QED
    BY <1>5, <2>1, LaunchMoves DEF Launch, Processed
<1>6. CASE LaunchFails
  <2>1. job[Request].kids \in Nat /\ cur.kind = "task"
    BY <1>6, InHandIs, JobsAre DEF LaunchFails, Processing
  <2>2. PICK s \in Launchable(Request), i \in 0 .. job[Request].kids :
          slot' = Launched(s, IF i = 0 THEN 1 .. job[Request].kids ELSE 1 .. i - 1)
    BY <1>6 DEF LaunchFails
  <2>3. (IF i = 0 THEN 1 .. job[Request].kids ELSE 1 .. i - 1) \in SUBSET (1 .. job[Request].kids)
    BY <2>1
  <2>4. QED
    BY <1>6, <2>1, <2>2, <2>3, LaunchMoves DEF LaunchFails
<1>7. CASE UpdateSlots
  <2>1. CASE UNCHANGED queue
    BY <1>7, <2>1, LetGoMoves DEF UpdateSlots, queueVars
  <2>2. CASE queue' = Append(queue, Entry("next", NoTask))
    <3>1. Entry("next", NoTask) \in QueueEntries /\ Entry("next", NoTask).kind # "task"
      BY EntriesAre DEF Entry
    <3>2. UNCHANGED <<deferred, slot, cur>>
      BY <1>7 DEF UpdateSlots
    <3>3. /\ Once(queue', deferred, cur)
          /\ \A r : Held(queue', deferred, cur, r) => Held(queue, deferred, cur, r)
      BY <1>1, <2>2, <3>1, OnceAppended DEF PlacedOnce
    <3>4. QED
      BY <3>2, <3>3, Settles
  <2>3. QED
    BY <1>7, <2>1, <2>2 DEF UpdateSlots
<1>8. CASE Decode
  <2>1. \A s \in Slots : slot'[s].task = slot[s].task
    <3>1. TAKE s \in Slots
    <3>2. slot'[s] = slot[s] \/ slot'[s] = [slot[s] EXCEPT !.state = "done"]
      BY <1>8 DEF Decode
    <3>3. slot[s] \in SlotRecords
      BY DEF TypeOK, SlotRecords
    <3>4. [slot[s] EXCEPT !.state = "done"].task = slot[s].task
      BY <3>3 DEF SlotRecords, Idle
    <3>5. QED
      BY <3>2, <3>4
  <2>2. QED
    BY <1>8, <2>1, LetGoMoves DEF Decode
<1>9. CASE ProcessNext \/ Reply \/ DecodeNothing \/ DecodeFails \/ LeaveRest \/ Wake \/ Sleep \/ Terminate
  <2>1. UNCHANGED <<queueVars, slot>> /\ (cur' = cur \/ cur' = Nothing)
    BY <1>9 DEF ProcessNext, Reply, DecodeNothing, DecodeFails, LeaveRest, Wake, Sleep, Terminate, Processed, mainVars
  <2>2. QED
    BY <2>1, LetGoMoves
<1>10. QED
  BY <1>2, <1>3, <1>4, <1>5, <1>6, <1>7, <1>8, <1>9

\* A visit releases its slot or leaves its task there.
LEMMA VisitMoves ==
    ASSUME TypeOK, PlacedOnce, PassVisitsBusy, NEW s \in Slots,
           \/ Undo(s) \/ Join(s) \/ Skip(s) \/ EndEarly(s) \/ Fail(s) \/ SampleLast(s) \/ SampleMore(s)
    PROVE  Moves
<1>1. UNCHANGED cur
  BY DEF Undo, Join, Skip, EndEarly, Fail, SampleLast, SampleMore
<1>2. CASE Undo(s) \/ EndEarly(s) \/ Fail(s) \/ SampleLast(s)
  BY <1>1, <1>2, ReleaseMoves DEF Undo, EndEarly, Fail, SampleLast, Sampled
<1>3. CASE Join(s) \/ Skip(s) \/ SampleMore(s)
  <2>1. slot \in [Slots -> SlotRecords]
    BY DEF TypeOK, SlotRecords
  <2>2. \A state, made : /\ [slot[s] EXCEPT !.state = state].task = slot[s].task
                         /\ [slot[s] EXCEPT !.state = state, !.made = made].task = slot[s].task
    BY <2>1 DEF SlotRecords, Idle
  <2>3. \A q \in Slots : slot'[q].task = slot[q].task
    <3>1. \/ slot' = slot
          \/ \E state : slot' = [slot EXCEPT ![s].state = state]
          \/ \E state, made : slot' = [slot EXCEPT ![s].state = state, ![s].made = made]
      BY <1>3 DEF Join, Skip, SampleMore
    <3>2. TAKE q \in Slots
    <3>3. CASE slot' = slot
      BY <3>3
    <3>4. ASSUME NEW state, slot' = [slot EXCEPT ![s].state = state]
          PROVE  slot'[q].task = slot[q].task
      <4>1. slot'[q] = IF q = s THEN [slot[s] EXCEPT !.state = state] ELSE slot[q]
        BY <2>1, <3>4
      <4>2. QED
        BY <2>2, <4>1
    <3>5. ASSUME NEW state, NEW made, slot' = [slot EXCEPT ![s].state = state, ![s].made = made]
          PROVE  slot'[q].task = slot[q].task
      <4>1. slot'[q] = IF q = s THEN [slot[s] EXCEPT !.state = state, !.made = made] ELSE slot[q]
        BY <2>1, <3>5
      <4>2. QED
        BY <2>2, <4>1
    <3>6. QED
      BY <3>1, <3>3, <3>4, <3>5
  <2>4. UNCHANGED queueVars
    BY <1>3 DEF Join, Skip, SampleMore
  <2>5. QED
    BY <1>1, <2>3, <2>4, LetGoMoves
<1>4. QED
  BY <1>2, <1>3

\* The clients' steps but Post.
LEMMA HttpMoves ==
    ASSUME TypeOK, PlacedOnce, NEW r \in Callers,
           Arrive(r) \/ Enter(r) \/ Receive(r) \/ GiveUp(r) \/ PostCancels(r) \/ Finish(r)
    PROVE  Moves
<1>1. CASE Arrive(r) \/ Enter(r) \/ Receive(r) \/ GiveUp(r) \/ Finish(r)
  <2>1. UNCHANGED <<queueVars, slot, cur>>
    BY <1>1 DEF Arrive, Enter, Receive, GiveUp, Finish, mainVars
  <2>2. QED
    BY <2>1, LetGoMoves
<1>2. CASE PostCancels(r)
  <2>1. PICK order \in SetToSeqs(TasksOf(r)) :
           queue' = [i \in DOMAIN order |-> Entry("cancel", order[i])] \o Without(queue, Entries(r))
    BY <1>2 DEF PostCancels
  <2> DEFINE o == [i \in DOMAIN order |-> Entry("cancel", order[i])]
             q == Without(queue, Entries(r))
  <2>2. o \in Seq(QueueEntries) /\ \A i \in 1 .. Len(o) : o[i].kind # "task"
    BY CancelsAre
  <2>3. q \in Seq(QueueEntries) /\ Thins(q, queue, Entries(r))
    BY WithoutThins DEF TypeOK
  <2>4. deferred' \in Seq(Callers) /\ Thins(deferred', deferred, Deferrals(r))
    BY <1>2, WithoutThins DEF PostCancels, TypeOK
  <2>5. UNCHANGED <<cur, slot>>
    BY <1>2 DEF PostCancels, mainVars
  <2> HIDE DEF o, q
  <2>6. queue' = o \o q
    BY <2>1 DEF o, q
  <2>7. /\ Once(q, deferred', cur)
        /\ \A x : Held(q, deferred', cur, x) => Held(queue, deferred, cur, x)
    BY <2>3, <2>4, OnceThinned DEF PlacedOnce, TypeOK
  <2>8. /\ Once(o \o q, deferred', cur)
        /\ \A x : Held(o \o q, deferred', cur, x) => Held(q, deferred', cur, x)
    BY <2>2, <2>3, <2>4, <2>7, OnceCancelled
  <2>9. QED
    BY <2>5, <2>6, <2>7, <2>8, Settles
<1>3. QED
  BY <1>1, <1>2

-----------------------------------------------------------------------------
(* What has been answered.                                                 *)

Answers == NoTrace /\ WaitingIsOpen /\ ResultsHaveReaders /\ EndsLast /\ NothingAfterFinal
           /\ AnsweredIsGone

\* The entries of w are entries of s, in order.
Picks(w, s) ==
    \E from \in [1 .. Len(w) -> 1 .. Len(s)] :
        /\ \A i, j \in 1 .. Len(w) : i < j => from[i] < from[j]
        /\ \A i \in 1 .. Len(w) : w[i] = s[from[i]]

\* What is left is picked in order.
LEMMA ThinsPicks ==
    ASSUME NEW w, NEW s, NEW positions, Thins(w, s, positions)
    PROVE  Picks(w, s)
<1>1. PICK from \in [1 .. Len(w) -> 1 .. Len(s)] :
          /\ \A i, j \in 1 .. Len(w) : i < j => from[i] < from[j]
          /\ \A i \in 1 .. Len(w) : from[i] \notin positions /\ w[i] = s[from[i]]
  BY Zenon DEF Thins
<1>2. QED
  BY <1>1, Zenon DEF Picks

\* What is picked of what was picked is picked.
LEMMA PicksTransitive ==
    ASSUME NEW u, NEW w, NEW s, Picks(u, w), Picks(w, s)
    PROVE  Picks(u, s)
<1>1. PICK f \in [1 .. Len(u) -> 1 .. Len(w)] :
          /\ \A i, j \in 1 .. Len(u) : i < j => f[i] < f[j]
          /\ \A i \in 1 .. Len(u) : u[i] = w[f[i]]
  BY Zenon DEF Picks
<1>2. PICK g \in [1 .. Len(w) -> 1 .. Len(s)] :
          /\ \A i, j \in 1 .. Len(w) : i < j => g[i] < g[j]
          /\ \A i \in 1 .. Len(w) : w[i] = s[g[i]]
  BY Zenon DEF Picks
<1> DEFINE from == [i \in 1 .. Len(u) |-> g[f[i]]]
<1>3. \A i \in 1 .. Len(u) : f[i] \in 1 .. Len(w) /\ from[i] = g[f[i]]
  BY <1>1
<1>4. \A i \in 1 .. Len(u) : from[i] \in 1 .. Len(s) /\ u[i] = s[from[i]]
  BY <1>1, <1>2, <1>3
<1>5. from \in [1 .. Len(u) -> 1 .. Len(s)]
  BY <1>4
<1> HIDE DEF from
<1>6. \A i, j \in 1 .. Len(u) : i < j => from[i] < from[j]
  BY <1>1, <1>2, <1>3
<1>7. QED
  BY <1>4, <1>5, <1>6, Zenon DEF Picks

\* The parts of Answers that are about the results, for results that are some
\* of the old ones.
LEMMA PickedResults ==
    ASSUME TypeOK, TypesNext, EndsLast, Picks(results', results)
    PROVE  /\ EndsLast'
           /\ \A m \in DOMAIN results' : \E n \in DOMAIN results : results'[m] = results[n]
           /\ \A t : Ends(t)' # {} => Ends(t) # {}
<1>1. PICK f \in [1 .. Len(results') -> 1 .. Len(results)] :
          /\ \A i, j \in 1 .. Len(results') : i < j => f[i] < f[j]
          /\ \A i \in 1 .. Len(results') : results'[i] = results[f[i]]
  BY Zenon DEF Picks
<1>2. /\ DOMAIN results = 1 .. Len(results) /\ Len(results) \in Nat
      /\ DOMAIN results' = 1 .. Len(results') /\ Len(results') \in Nat
  BY DEF TypeOK, TypesNext
<1>3. ASSUME NEW m \in DOMAIN results', NEW n \in DOMAIN results',
             results'[m].id = results'[n].id, results'[m].kind # "partial"
      PROVE  n <= m
  <2>1. f[m] \in 1 .. Len(results) /\ f[n] \in 1 .. Len(results)
    BY <1>1, <1>2
  <2>2. f[n] <= f[m]
    BY <1>1, <1>2, <1>3, <2>1 DEF EndsLast
  <2>3. m < n => f[m] < f[n]
    BY <1>1, <1>2
  <2>4. QED
    BY <1>2, <2>1, <2>2, <2>3
<1>4. \A m \in DOMAIN results' : \E n \in DOMAIN results : results'[m] = results[n]
  BY <1>1, <1>2
<1>5. \A t : Ends(t)' # {} => Ends(t) # {}
  BY <1>4 DEF Ends
<1>6. QED
  BY <1>3, <1>4, <1>5 DEF EndsLast

\* The jobs stay the same.
LEMMA SameTasks ==
    ASSUME TypesNext
    PROVE  Callers' = Callers /\ Tasks' = Tasks /\ \A r \in Callers : TasksOf(r)' = TasksOf(r)
<1>1. Callers' = Callers /\ \A r \in Callers : TasksOf(r)' = TasksOf(r)
  BY DEF TypesNext, Callers, TasksOf
<1>2. QED
  BY <1>1 DEF Tasks

\* Results are of tasks.
LEMMA ResultIds ==
    ASSUME TypeOK
    PROVE  \A n \in DOMAIN results : results[n] \in Results /\ results[n].id \in Tasks
                                     /\ results[n].id[1] \in Callers
<1>1. results \in Seq(Results)
  BY DEF TypeOK, Results
<1>2. \A n \in DOMAIN results : results[n] \in Results
  BY <1>1
<1>3. \A m \in Results : m.id \in Tasks
  BY DEF Results
<1>4. QED
  BY <1>2, <1>3, TasksAre

\* Nobody posts, receives or stops reading, and at most one result is added, of
\* a task that was in some place and, if that ends it, is in none any more.
LEMMA AnswersKept ==
    ASSUME TypeOK, TypesNext, PlacedOnce, Answers, Moves, UNCHANGED <<got, waiting>>,
           \A q \in Callers : /\ rd'[q] = "open" <=> rd[q] = "open"
                              /\ Unposted(q)' => Unposted(q),
           \/ results' = results
           \/ \E t \in Tasks, kind \in {"partial", "final", "error"} :
                /\ t \in waiting /\ results' = Append(results, Entry(kind, t))
                /\ Placed(t) /\ (kind # "partial" => ~Placed(t)')
    PROVE  Answers'
<1>1. \A t \in Tasks : Placed(t)' => Placed(t)
  BY MovesPlace
<1>2. Callers' = Callers /\ Tasks' = Tasks /\ \A r \in Callers : TasksOf(r)' = TasksOf(r)
  BY SameTasks
<1>3. /\ \A t \in Tasks : t[1] \in Callers /\ t \in TasksOf(t[1])
      /\ \A r \in Callers : \A t \in TasksOf(r) : t \in Tasks
  BY TasksAre
<1>4. NoTrace'
  BY <1>1, <1>2, <1>3 DEF Answers, NoTrace
<1>5. WaitingIsOpen'
  BY <1>2 DEF Answers, WaitingIsOpen
<1>6. \A n \in DOMAIN results : results[n] \in Results /\ results[n].id \in Tasks
                                /\ results[n].id[1] \in Callers
  BY ResultIds
<1>7. CASE results' = results
  <2>1. ResultsHaveReaders' /\ EndsLast' /\ NothingAfterFinal'
    BY <1>6, <1>7 DEF Answers, ResultsHaveReaders, EndsLast, NothingAfterFinal
  <2>2. \A t : Answered(t)' <=> Answered(t)
    BY <1>7 DEF Answered, Ends
  <2>3. AnsweredIsGone'
    BY <1>1, <1>2, <2>2 DEF Answers, AnsweredIsGone
  <2>4. QED
    BY <1>4, <1>5, <2>1, <2>3 DEF Answers
<1>8. ASSUME NEW t \in Tasks, NEW kind \in {"partial", "final", "error"},
             t \in waiting, results' = Append(results, Entry(kind, t)),
             Placed(t), kind # "partial" => ~Placed(t)'
      PROVE  Answers'
  <2>1. t[2] \notin got[t[1]] /\ Ends(t) = {}
    BY <1>8 DEF Answers, AnsweredIsGone, Answered
  <2>2. PICK k \in Nat : k = Len(results)
    BY DEF TypeOK
  <2>3. /\ DOMAIN results = 1 .. k /\ DOMAIN results' = 1 .. k + 1
        /\ \A n \in 1 .. k : results'[n] = results[n]
        /\ results'[k + 1] = Entry(kind, t)
    BY <1>8, <2>2, AppendIs DEF TypeOK
  <2>4. results'[k + 1].id = t /\ results'[k + 1].kind = kind
    BY <2>3 DEF Entry
  <2>5. \A n \in 1 .. k + 1 : n \in 1 .. k \/ n = k + 1
    OBVIOUS
  <2>6. rd[t[1]] = "open"
    BY <1>3, <1>8 DEF Answers, WaitingIsOpen
  <2>7. ResultsHaveReaders'
    <3>1. ASSUME NEW n \in 1 .. k + 1
          PROVE  results'[n].id \in waiting' /\ rd'[results'[n].id[1]] = "open"
      <4>1. CASE n = k + 1
        BY <1>3, <1>8, <2>4, <2>6, <4>1
      <4>2. CASE n \in 1 .. k
        BY <1>6, <2>3, <4>2 DEF Answers, ResultsHaveReaders
      <4>3. QED
        BY <2>5, <4>1, <4>2
    <3>2. QED
      BY <2>3, <3>1 DEF ResultsHaveReaders
  <2>8. EndsLast'
    <3>1. ASSUME NEW m \in 1 .. k + 1, NEW n \in 1 .. k + 1,
                 results'[m].id = results'[n].id, results'[m].kind # "partial"
          PROVE  n <= m
      <4>1. CASE m = k + 1
        BY <4>1
      <4>2. CASE m \in 1 .. k /\ n \in 1 .. k
        BY <2>3, <3>1, <4>2 DEF Answers, EndsLast
      <4>3. CASE m \in 1 .. k /\ n = k + 1
        <5>1. m \in Ends(t)
          BY <2>3, <2>4, <3>1, <4>3 DEF Ends
        <5>2. QED
          BY <2>1, <5>1
      <4>4. QED
        BY <2>5, <4>1, <4>2, <4>3
    <3>2. QED
      BY <2>3, <3>1 DEF EndsLast
  <2>9. NothingAfterFinal'
    <3>1. ASSUME NEW n \in 1 .. k + 1 PROVE results'[n].id[2] \notin got'[results'[n].id[1]]
      <4>1. CASE n = k + 1
        BY <2>1, <2>4, <4>1
      <4>2. CASE n \in 1 .. k
        BY <2>3, <4>2 DEF Answers, NothingAfterFinal
      <4>3. QED
        BY <2>5, <4>1, <4>2
    <3>2. QED
      BY <2>3, <3>1 DEF NothingAfterFinal
  <2>10. ASSUME NEW u \in Tasks, Answered(u)' PROVE ~Placed(u)'
    <3>1. CASE u[2] \in got'[u[1]]
      BY <1>1, <3>1 DEF Answers, AnsweredIsGone, Answered
    <3>2. CASE Ends(u)' # {}
      <4>1. PICK n \in 1 .. k + 1 : results'[n].id = u /\ results'[n].kind # "partial"
        BY <2>3, <3>2 DEF Ends
      <4>2. CASE n = k + 1
        BY <1>8, <2>4, <4>1, <4>2
      <4>3. CASE n \in 1 .. k
        <5>1. n \in Ends(u)
          BY <2>3, <4>1, <4>3 DEF Ends
        <5>2. QED
          BY <1>1, <5>1 DEF Answers, AnsweredIsGone, Answered
      <4>4. QED
        BY <2>5, <4>2, <4>3
    <3>3. QED
      BY <2>10, <3>1, <3>2 DEF Answered
  <2>11. AnsweredIsGone'
    BY <1>2, <2>10 DEF AnsweredIsGone
  <2>12. QED
    BY <1>4, <1>5, <2>7, <2>8, <2>9, <2>11 DEF Answers
<1>9. QED
  BY <1>7, <1>8

\* A reader closes, and none of its results is left.
LEMMA AnswersClose ==
    ASSUME TypeOK, TypesNext, PlacedOnce, Answers, Moves, UNCHANGED got, NEW r \in Callers,
           NEW step \in {"closing", "closed"}, rd' = [rd EXCEPT ![r] = step],
           waiting' = waiting \ TasksOf(r), Picks(results', results),
           \A n \in DOMAIN results' : results'[n].id \notin TasksOf(r)
    PROVE  Answers'
<1>1. \A t \in Tasks : Placed(t)' => Placed(t)
  BY MovesPlace
<1>2. Callers' = Callers /\ Tasks' = Tasks /\ \A q \in Callers : TasksOf(q)' = TasksOf(q)
  BY SameTasks
<1>3. /\ \A t \in Tasks : t[1] \in Callers /\ t \in TasksOf(t[1])
      /\ \A q \in Callers : \A t \in TasksOf(q) : t \in Tasks /\ t[1] = q
  BY TasksAre
<1>4. \A q \in Callers : rd'[q] = IF q = r THEN step ELSE rd[q]
  BY JobsAre DEF TypeOK
<1>5. NoTrace'
  BY <1>1, <1>2, <1>3, <1>4 DEF Answers, NoTrace, Unposted
<1>6. WaitingIsOpen'
  BY <1>2, <1>3, <1>4 DEF Answers, WaitingIsOpen
<1>7. /\ EndsLast'
      /\ \A m \in DOMAIN results' : \E n \in DOMAIN results : results'[m] = results[n]
      /\ \A t : Ends(t)' # {} => Ends(t) # {}
  BY PickedResults DEF Answers
<1>8. \A n \in DOMAIN results : results[n].id \in Tasks
  BY ResultIds
<1>9. ASSUME NEW m \in DOMAIN results'
      PROVE  /\ results'[m].id \in waiting' /\ rd'[results'[m].id[1]] = "open"
             /\ results'[m].id[2] \notin got'[results'[m].id[1]]
  <2>1. PICK n \in DOMAIN results : results'[m] = results[n]
    BY <1>7
  <2>2. results[n].id \notin TasksOf(r) /\ results[n].id \in Tasks /\ results[n].id[1] \in Callers
    BY <1>3, <1>8, <2>1
  <2>3. results[n].id[1] # r
    BY <1>3, <2>2
  <2>4. QED
    BY <1>4, <2>1, <2>2, <2>3 DEF Answers, ResultsHaveReaders, NothingAfterFinal
<1>10. \A t : Answered(t)' => Answered(t)
  BY <1>7 DEF Answered
<1>11. AnsweredIsGone'
  BY <1>1, <1>2, <1>10 DEF Answers, AnsweredIsGone
<1>12. ResultsHaveReaders' /\ NothingAfterFinal'
  BY <1>9 DEF ResultsHaveReaders, NothingAfterFinal
<1>13. QED
  BY <1>5, <1>6, <1>7, <1>11, <1>12 DEF Answers

\* The first result of a reader is received.
LEMMA AnswersReceived ==
    ASSUME TypeOK, TypesNext, PlacedOnce, Answers, Moves, NEW r \in Callers, rd[r] = "open",
           NEW n \in DOMAIN results, results[n].id \in TasksOf(r),
           \A k \in 1 .. n - 1 : results[k].id \notin TasksOf(r),
           results[n].kind # "error", results' = RemoveAt(results, n),
           got' = [got EXCEPT ![r] = IF results[n].kind = "final"
                                     THEN @ \cup {results[n].id[2]} ELSE @],
           UNCHANGED <<rd, waiting>>
    PROVE  Answers'
<1>1. \A t \in Tasks : Placed(t)' => Placed(t)
  BY MovesPlace
<1>2. Callers' = Callers /\ Tasks' = Tasks /\ \A q \in Callers : TasksOf(q)' = TasksOf(q)
  BY SameTasks
<1>3. /\ \A t \in Tasks : t[1] \in Callers /\ t = <<t[1], t[2]>>
      /\ \A q \in Callers : \A t \in TasksOf(q) : t \in Tasks /\ t[1] = q
  BY TasksAre
<1>4. results \in Seq(Results) /\ n \in 1 .. Len(results) /\ DOMAIN results = 1 .. Len(results)
  BY DEF TypeOK, Results
<1>5. Thins(results', results, {n})
  BY <1>4, RemoveAtThins
<1>6. /\ EndsLast'
      /\ \A m \in DOMAIN results' : \E k \in DOMAIN results : results'[m] = results[k]
      /\ \A t : Ends(t)' # {} => Ends(t) # {}
  BY <1>5, ThinsPicks, PickedResults DEF Answers
<1>7. \A k \in DOMAIN results : results[k].id \in Tasks
  BY ResultIds
<1>8. \A q \in Callers : got'[q] =
          IF q = r /\ results[n].kind = "final" THEN got[q] \cup {results[n].id[2]} ELSE got[q]
  BY JobsAre DEF TypeOK
<1>9. ~Unposted(r)
  BY DEF Unposted
<1>10. NoTrace'
  BY <1>1, <1>2, <1>3, <1>8, <1>9 DEF Answers, NoTrace, Unposted
<1>11. WaitingIsOpen'
  BY <1>2 DEF Answers, WaitingIsOpen
<1>12. ResultsHaveReaders'
  BY <1>6 DEF Answers, ResultsHaveReaders
<1>13. ASSUME NEW m \in DOMAIN results'
       PROVE  results'[m].id[2] \notin got'[results'[m].id[1]]
  <2>1. PICK k \in 1 .. Len(results) : k # n /\ results'[m] = results[k]
    <3>1. PICK f \in [1 .. Len(results') -> 1 .. Len(results)] :
             \A i \in 1 .. Len(results') : f[i] \notin {n} /\ results'[i] = results[f[i]]
      BY <1>5, Zenon DEF Thins
    <3>2. m \in 1 .. Len(results')
      BY DEF TypesNext
    <3>3. QED
      BY <3>1, <3>2
  <2>2. results[k].id \in Tasks /\ results[k].id[1] \in Callers
    BY <1>3, <1>4, <1>7, <2>1
  <2>3. results[k].id[2] \notin got[results[k].id[1]]
    BY <1>4, <2>1 DEF Answers, NothingAfterFinal
  <2>4. CASE results[k].id[1] = r /\ results[n].kind = "final" /\ results[k].id[2] = results[n].id[2]
    <3>1. results[k].id = results[n].id
      BY <1>3, <1>4, <1>7, <2>2, <2>4
    <3>2. k <= n
      BY <1>4, <2>1, <2>4, <3>1 DEF Answers, EndsLast
    <3>3. k \in 1 .. n - 1
      BY <1>4, <2>1, <3>2
    <3>4. QED
      BY <3>1, <3>3
  <2>5. QED
    BY <1>8, <2>1, <2>2, <2>3, <2>4
<1>14. ASSUME NEW t \in Tasks, Answered(t)' PROVE Answered(t)
  <2>1. CASE Ends(t)' # {}
    BY <1>6, <2>1 DEF Answered
  <2>2. CASE t[2] \in got'[t[1]] /\ t[2] \notin got[t[1]]
    <3>1. t[1] = r /\ results[n].kind = "final" /\ t[2] = results[n].id[2]
      BY <1>3, <1>8, <2>2
    <3>2. t = results[n].id
      BY <1>3, <1>7, <3>1
    <3>3. n \in Ends(t)
      BY <3>1, <3>2 DEF Ends
    <3>4. QED
      BY <3>3 DEF Answered
  <2>3. QED
    BY <1>14, <2>1, <2>2 DEF Answered
<1>15. AnsweredIsGone'
  BY <1>1, <1>2, <1>14 DEF Answers, AnsweredIsGone
<1>16. NothingAfterFinal'
  BY <1>13 DEF NothingAfterFinal
<1>17. QED
  BY <1>6, <1>10, <1>11, <1>12, <1>15, <1>16 DEF Answers

-----------------------------------------------------------------------------
(* Each step keeps the places and the answers.                             *)

\* What Send means for a task that is in its place when it is answered.
LEMMA Sent ==
    ASSUME NEW t \in Tasks, NEW kind \in {"partial", "final", "error"}, Send(t, kind),
           Placed(t), kind # "partial" => ~Placed(t)'
    PROVE  \/ results' = results
           \/ \E u \in Tasks, k \in {"partial", "final", "error"} :
                /\ u \in waiting /\ results' = Append(results, Entry(k, u))
                /\ Placed(u) /\ (k # "partial" => ~Placed(u)')
BY DEF Send

\* Reply and LaunchFails answer a task the main thread lets go of.
LEMMA MainAnswers ==
    ASSUME TypeOK, EmptiesCounted, PassVisitsBusy, PlacedOnce, Answers, TypesNext,
           \/ NextEntry \/ ProcessNext \/ ProcessCancel \/ Defer \/ Reply \/ Launch \/ LaunchFails
           \/ UpdateSlots \/ Decode \/ DecodeNothing \/ DecodeFails \/ LeaveRest \/ Wake
           \/ Sleep \/ Terminate
    PROVE  PlacedOnce' /\ Answers'
<1>1. Moves
  BY MainMoves
<1>2. PlacedOnce'
  BY <1>1, MovesPlace
<1>3. UNCHANGED <<rd, got, waiting>>
  BY DEF NextEntry, ProcessNext, ProcessCancel, Defer, Reply, Launch, LaunchFails, UpdateSlots,
         Decode, DecodeNothing, DecodeFails, LeaveRest, Wake, Sleep, Terminate, httpVars, resultVars
<1>4. \A q \in Callers : /\ rd'[q] = "open" <=> rd[q] = "open"
                         /\ Unposted(q)' => Unposted(q)
  BY <1>3 DEF Unposted
<1>5. CASE Reply
  <2>1. /\ cur.id \in Tasks /\ Request \in Callers
        /\ cur.kind = "task" /\ InHand(Request)
    BY <1>5, InHandIs DEF Reply, Processing, Request
  <2>2. PICK t \in Tasks : t = cur.id
    BY <2>1
  <2>3. t[1] = Request /\ Unlaunched(t[1]) /\ Placed(t) /\ t \in TasksOf(t[1])
    BY <2>1, <2>2, TasksAre DEF Unlaunched, Placed, Request
  <2>4. ~Held(queue', deferred', cur', t[1])
    <3>1. queue' = queue /\ deferred' = deferred /\ cur' = Nothing
      BY <1>5 DEF Reply, Processed, queueVars
    <3>2. ~Held(queue, deferred, Nothing, cur.id[1])
      BY <2>1, OnceLetGo DEF PlacedOnce
    <3>3. QED
      BY <2>2, <3>1, <3>2
  <2>5. \A s \in Slots : slot'[s].task # t
    <3>1. SlotsOf(t) = {}
      BY <2>1, <2>3 DEF PlacedOnce
    <3>2. QED
      BY <1>5, <3>1 DEF Reply, SlotsOf
  <2>6. ~Placed(t)'
    BY <2>4, <2>5, PlacedIs
  <2>7. PICK kind \in {"final", "error"} : Send(t, kind)
    BY <1>5, <2>2 DEF Reply
  <2>8. QED
    BY <1>1, <1>2, <1>3, <1>4, <2>3, <2>6, <2>7, Sent, AnswersKept
<1>6. CASE LaunchFails
  <2>1. /\ Request \in Callers /\ cur.kind = "task" /\ InHand(Request)
        /\ job[Request].kids \in Nat
    BY <1>6, InHandIs, JobsAre DEF LaunchFails, Processing
  <2>2. PICK s \in Launchable(Request), i \in 0 .. job[Request].kids :
          LET before == IF i = 0 THEN 1 .. job[Request].kids ELSE 1 .. i - 1 IN
          Send(<<Request, i>>, "error") /\ slot' = Launched(s, before)
    BY <1>6 DEF LaunchFails
  <2> DEFINE before == IF i = 0 THEN 1 .. job[Request].kids ELSE 1 .. i - 1
  <2>3. before \in SUBSET (1 .. job[Request].kids) /\ i \notin before
    BY <2>1
  <2>4. /\ Send(<<Request, i>>, "error") /\ slot' = Launched(s, before)
        /\ cur' = Nothing /\ UNCHANGED queueVars
    BY <1>6, <2>2 DEF LaunchFails
  <2> HIDE DEF before
  <2>5. /\ ~Held(queue', deferred', cur', Request)
        /\ \A q \in Slots : \/ slot'[q].task = slot[q].task
                            \/ \E k \in before : slot'[q].task = <<Request, k>>
    BY <2>1, <2>3, <2>4, LaunchMoves
  <2>6. PICK t \in Tasks : t = <<Request, i>> /\ t \in TasksOf(Request)
    BY <2>1, <2>2 DEF Tasks, TasksOf
  <2>7. t[1] = Request /\ Unlaunched(Request) /\ Placed(t)
    BY <2>1, <2>6 DEF Unlaunched, Placed
  <2>8. \A q \in Slots : slot'[q].task # t
    <3>1. \A q \in Slots : slot[q].task # t
      BY <2>1, <2>6, <2>7 DEF PlacedOnce, SlotsOf
    <3>2. \A k \in before : <<Request, k>> # t
      BY <2>3, <2>6
    <3>3. QED
      BY <2>5, <3>1, <3>2
  <2>9. ~Placed(t)'
    BY <2>5, <2>7, <2>8, PlacedIs
  <2>10. QED
    BY <1>1, <1>2, <1>3, <1>4, <2>4, <2>6, <2>7, <2>9, Sent, AnswersKept
<1>7. CASE ~(Reply \/ LaunchFails)
  <2>1. results' = results
    BY <1>7 DEF NextEntry, ProcessNext, ProcessCancel, Defer, Launch, UpdateSlots,
         Decode, DecodeNothing, DecodeFails, LeaveRest, Wake, Sleep, Terminate, resultVars
  <2>2. QED
    BY <1>1, <1>2, <1>3, <1>4, <2>1, AnswersKept
<1>8. QED
  BY <1>5, <1>6, <1>7

\* A slot that ends its task is released.
LEMMA VisitAnswers ==
    ASSUME TypeOK, EmptiesCounted, PassVisitsBusy, PlacedOnce, Answers, TypesNext, NEW s \in Slots,
           \/ Undo(s) \/ Join(s) \/ Skip(s) \/ EndEarly(s) \/ Fail(s) \/ SampleLast(s) \/ SampleMore(s)
    PROVE  PlacedOnce' /\ Answers'
<1>1. Moves
  BY VisitMoves
<1>2. PlacedOnce'
  BY <1>1, MovesPlace
<1>3. UNCHANGED <<rd, got, waiting>>
  BY DEF Undo, Join, Skip, EndEarly, Fail, SampleLast, SampleMore, httpVars, resultVars
<1>4. \A q \in Callers : /\ rd'[q] = "open" <=> rd[q] = "open"
                         /\ Unposted(q)' => Unposted(q)
  BY <1>3 DEF Unposted
<1>5. CASE results' = results
  BY <1>1, <1>2, <1>3, <1>4, <1>5, AnswersKept
<1>6. CASE EndEarly(s) \/ Fail(s) \/ SampleLast(s) \/ SampleMore(s)
  <2>1. Busy(s)
    BY <1>6 DEF EndEarly, Fail, SampleLast, SampleMore, FillsNext, Visit, PassVisitsBusy
  <2>2. PICK t \in Tasks : t = slot[s].task
    BY <2>1, SlotsAre
  <2>3. t # NoTask /\ t[1] \in Callers /\ t \in TasksOf(t[1])
    BY TasksAre
  <2>4. Placed(t)
    BY <2>2, PlacedIs
  <2>5. CASE SampleMore(s)
    <3>1. results' = results \/ Send(t, "partial")
      BY <2>2, <2>5 DEF SampleMore
    <3>2. QED
      BY <1>1, <1>2, <1>3, <1>4, <1>5, <2>4, <3>1, Sent, AnswersKept
  <2>6. CASE EndEarly(s) \/ Fail(s) \/ SampleLast(s)
    <3>1. Release(s)
      BY <2>6 DEF EndEarly, Fail, SampleLast, Sampled
    <3>2. PICK kind \in {"final", "error"} : Send(t, kind)
      BY <2>2, <2>6 DEF EndEarly, Fail, SampleLast, Sampled
    <3>3. \A q \in Slots : slot'[q].task # t
      <4>1. TAKE q \in Slots
      <4>2. slot'[q] = IF q = s THEN Idle ELSE slot[q]
        BY <3>1, ReleaseType
      <4>3. q # s => slot[q].task # t
        BY <2>1, <2>2 DEF PlacedOnce
      <4>4. QED
        BY <2>3, <4>2, <4>3 DEF Idle
    <3>4. ~Held(queue', deferred', cur', t[1])
      <4>1. SlotsOf(t) # {}
        BY <2>2 DEF SlotsOf
      <4>2. ~Unlaunched(t[1])
        BY <2>3, <4>1 DEF PlacedOnce
      <4>3. QED
        BY <1>1, <2>3, <4>2, UnlaunchedIs DEF Moves
    <3>5. ~Placed(t)'
      BY <3>3, <3>4, PlacedIs
    <3>6. QED
      BY <1>1, <1>2, <1>3, <1>4, <2>4, <3>2, <3>5, Sent, AnswersKept
  <2>7. QED
    BY <1>6, <2>5, <2>6
<1>7. QED
  BY <1>5, <1>6 DEF Undo, Join, Skip, resultVars

\* A request is posted that left no trace before.
LEMMA PostAnswers ==
    ASSUME TypeOK, PlacedOnce, Answers, TypesNext, NEW r \in Callers, Post(r)
    PROVE  PlacedOnce' /\ Answers'
<1>1. queue \in Seq(QueueEntries) /\ deferred \in Seq(Callers) /\ TypeOK'
  BY TypesNextOK DEF TypeOK
<1>2. UNCHANGED <<got, deferred, results, slot, cur>> /\ rd' = [rd EXCEPT ![r] = "open"]
      /\ waiting' = waiting \cup TasksOf(r) /\ rd[r] = "tokenizing"
  BY DEF Post, At, mainVars
<1>3. /\ \A t \in Tasks : t[1] \in Callers /\ t \in TasksOf(t[1])
      /\ \A q \in Callers : \A t \in TasksOf(q) : t \in Tasks /\ t[1] = q
  BY TasksAre
<1>4. Callers' = Callers /\ Tasks' = Tasks /\ \A q \in Callers : TasksOf(q)' = TasksOf(q)
  BY SameTasks
<1>5. \A q \in Callers : rd'[q] = IF q = r THEN "open" ELSE rd[q]
  BY <1>2, JobsAre DEF TypeOK
<1>6. got[r] = {} /\ \A t \in TasksOf(r) : ~Placed(t)
  BY <1>2 DEF Answers, NoTrace, Unposted
<1>7. ~Held(queue, deferred, cur, r)
  <2>1. <<r, 0>> \in TasksOf(r) /\ <<r, 0>>[1] = r
    BY JobsAre DEF TasksOf
  <2>2. ~Unlaunched(r)
    BY <1>6, <2>1 DEF Placed
  <2>3. QED
    BY <2>2, UnlaunchedIs
<1>8. /\ Once(queue', deferred', cur')
      /\ \A q : Held(queue', deferred', cur', q) => q = r \/ Held(queue, deferred, cur, q)
  <2> DEFINE e == Entry("task", <<r, 0>>)
  <2>1. e \in QueueEntries /\ e.kind = "task" /\ e.id[1] = r
    BY EntriesAre DEF Entry
  <2>2. queue' = <<e>> \o queue \/ queue' = Append(queue, e)
    BY DEF Post
  <2> HIDE DEF e
  <2>3. <<e>> \in Seq(QueueEntries) /\ Len(<<e>>) = 1 /\ <<e>>[1] = e
    BY <2>1
  <2>4. CASE queue' = <<e>> \o queue
    <3>1. /\ Once(<<e>> \o queue, deferred, cur)
          /\ \A q : Held(<<e>> \o queue, deferred, cur, q) =>
                 \/ Held(queue, deferred, cur, q)
                 \/ q = r /\ \E n \in 1 .. Len(<<e>>) : <<e>>[n].kind = "task"
      <4> DEFINE o == <<e>>
      <4>1. o \in Seq(QueueEntries) /\ Len(o) = 1 /\ o[1].id[1] = r /\ Once(queue, deferred, cur)
        BY <2>1, <2>3 DEF PlacedOnce
      <4> HIDE DEF o
      <4>2. /\ Once(o \o queue, deferred, cur)
            /\ \A q : Held(o \o queue, deferred, cur, q) =>
                   \/ Held(queue, deferred, cur, q)
                   \/ q = r /\ \E n \in 1 .. Len(o) : o[n].kind = "task"
        BY <1>1, <1>7, <4>1, OncePrepended
      <4>3. QED
        BY <4>2 DEF o
    <3>2. QED
      BY <1>2, <2>4, <3>1
  <2>5. CASE queue' = Append(queue, e)
    BY <1>1, <1>2, <1>7, <2>1, <2>5, OnceAppended DEF PlacedOnce
  <2>6. QED
    BY <2>2, <2>4, <2>5
<1>9. \A q : Unlaunched(q)' => q = r \/ Unlaunched(q)
  BY <1>1, <1>8, UnlaunchedIs, UnlaunchedNext
<1>10. \A t : SlotsOf(t)' = SlotsOf(t)
  BY <1>2 DEF SlotsOf
<1>11. PlacedOnce'
  <2>1. \A q \in Callers : Unlaunched(q)' => \A t \in TasksOf(q) : SlotsOf(t)' = {}
    BY <1>6, <1>9, <1>10 DEF PlacedOnce, Placed
  <2>2. \A p, q \in Slots : Busy(p)' /\ slot'[p].task = slot'[q].task => p = q
    BY <1>2 DEF PlacedOnce, Busy
  <2>3. QED
    BY <1>4, <1>8, <2>1, <2>2 DEF PlacedOnce
<1>12. \A t \in Tasks : Placed(t)' => t[1] = r \/ Placed(t)
  BY <1>9, <1>10 DEF Placed
<1>13. NoTrace'
  <2>1. ASSUME NEW q \in Callers, Unposted(q)'
        PROVE  got'[q] = {} /\ \A t \in TasksOf(q) : ~Placed(t)'
    <3>1. q # r /\ Unposted(q)
      BY <1>5, <2>1 DEF Unposted
    <3>2. QED
      BY <1>2, <1>3, <1>12, <3>1 DEF Answers, NoTrace
  <2>2. QED
    BY <1>4, <2>1 DEF NoTrace
<1>14. WaitingIsOpen'
  <2>1. ASSUME NEW q \in Callers, NEW t \in TasksOf(q)
        PROVE  t \in waiting' <=> rd'[q] = "open"
    <3>1. t \in TasksOf(r) <=> q = r
      BY <1>3, <2>1
    <3>2. t \in waiting <=> rd[q] = "open"
      BY <2>1 DEF Answers, WaitingIsOpen
    <3>3. QED
      BY <1>2, <1>5, <3>1, <3>2
  <2>2. QED
    BY <1>4, <2>1 DEF WaitingIsOpen
<1>15. \A n \in DOMAIN results : results[n].id \in Tasks /\ results[n].id[1] \in Callers
  BY ResultIds
<1>16. ResultsHaveReaders'
  BY <1>2, <1>5, <1>15 DEF Answers, ResultsHaveReaders
<1>17. EndsLast' /\ NothingAfterFinal'
  BY <1>2 DEF Answers, EndsLast, NothingAfterFinal
<1>18. ASSUME NEW t \in Tasks, Answered(t)' PROVE ~Placed(t)'
  <2>1. Answered(t)
    BY <1>2, <1>18 DEF Answered, Ends
  <2>2. t[1] # r
    <3>1. SUFFICES ASSUME t[1] = r PROVE FALSE
      OBVIOUS
    <3>2. PICK n \in DOMAIN results : results[n].id = t
      BY <1>6, <2>1, <3>1 DEF Answered, Ends
    <3>3. rd[t[1]] = "open"
      BY <3>2 DEF Answers, ResultsHaveReaders
    <3>4. QED
      BY <1>2, <3>1, <3>3
  <2>3. QED
    BY <1>12, <2>1, <2>2 DEF Answers, AnsweredIsGone
<1>19. AnsweredIsGone'
  BY <1>4, <1>18 DEF AnsweredIsGone
<1>20. QED
  BY <1>11, <1>13, <1>14, <1>16, <1>17, <1>19 DEF Answers

\* The readers take results, give up and finish.
LEMMA HttpAnswers ==
    ASSUME TypeOK, PlacedOnce, Answers, TypesNext, NEW r \in Callers, Handler(r) \/ GiveUp(r)
    PROVE  PlacedOnce' /\ Answers'
<1>1. CASE Post(r)
  BY <1>1, PostAnswers
<1>2. CASE ~Post(r)
  <2>1. Moves
    BY <1>2, HttpMoves DEF Handler
  <2>2. PlacedOnce'
    BY <2>1, MovesPlace
  <2>3. DOMAIN rd = Requests /\ r \in Requests
    BY JobsAre DEF TypeOK
  <2>4. CASE Arrive(r) \/ Enter(r) \/ PostCancels(r)
    <3>1. UNCHANGED <<got, waiting, results>>
      BY <2>4 DEF Arrive, Enter, PostCancels, resultVars
    <3>2. \E step : rd' = [rd EXCEPT ![r] = step]
      BY <2>4 DEF Arrive, Enter, PostCancels
    <3>3. /\ rd'[r] = "open" <=> rd[r] = "open"
          /\ Unposted(r)' => Unposted(r)
      BY <2>3, <2>4 DEF Arrive, Enter, PostCancels, At, Unposted
    <3>4. \A q \in Callers : /\ rd'[q] = "open" <=> rd[q] = "open"
                             /\ Unposted(q)' => Unposted(q)
      BY <2>3, <3>2, <3>3, JobsAre DEF Unposted
    <3>5. QED
      BY <2>1, <2>2, <3>1, <3>4, AnswersKept
  <2>5. CASE Finish(r)
    <3>1. /\ rd' = [rd EXCEPT ![r] = "closed"] /\ waiting' = waiting \ TasksOf(r)
          /\ UNCHANGED <<got, results>> /\ got[r] = 0 .. job[r].kids
      BY <2>5 DEF Finish, HasNext, At
    <3>2. Picks(results', results)
      BY <3>1, ThinsSelf, ThinsPicks DEF TypeOK
    <3>3. \A n \in DOMAIN results' : results'[n].id \notin TasksOf(r)
      <4>1. ASSUME NEW n \in DOMAIN results, results[n].id \in TasksOf(r) PROVE FALSE
        <5>1. results[n].id[1] = r /\ results[n].id[2] \in 0 .. job[r].kids
          BY <4>1 DEF TasksOf
        <5>2. QED
          BY <3>1, <5>1 DEF Answers, NothingAfterFinal
      <4>2. QED
        BY <3>1, <4>1
    <3>4. QED
      BY <2>1, <2>2, <3>1, <3>2, <3>3, AnswersClose
  <2>6. ASSUME NEW left, StopReading(r, left), UNCHANGED got,
               left \in Seq(Results), Picks(left, results)
        PROVE  Answers'
    <3> DEFINE own == {n \in DOMAIN left : left[n].id \in TasksOf(r)}
    <3>1. /\ waiting' = waiting \ TasksOf(r) /\ rd' = [rd EXCEPT ![r] = "closing"]
          /\ results' = Without(left, own)
      BY <2>6 DEF StopReading
    <3>2. results' \in Seq(Results) /\ Thins(results', left, own)
      BY <2>6, <3>1, WithoutThins
    <3>3. Picks(results', results)
      BY <2>6, <3>2, ThinsPicks, PicksTransitive
    <3>4. \A n \in DOMAIN results' : results'[n].id \notin TasksOf(r)
      <4>1. PICK f \in [1 .. Len(results') -> 1 .. Len(left)] :
               \A i \in 1 .. Len(results') : f[i] \notin own /\ results'[i] = left[f[i]]
        BY <3>2, Zenon DEF Thins
      <4>2. DOMAIN results' = 1 .. Len(results') /\ DOMAIN left = 1 .. Len(left)
        BY <2>6, <3>2
      <4>3. QED
        BY <4>1, <4>2
    <3>5. QED
      BY <2>1, <2>6, <3>1, <3>3, <3>4, AnswersClose
  <2>7. CASE GiveUp(r)
    <3>1. results \in Seq(Results) /\ Picks(results, results)
      BY ThinsSelf, ThinsPicks DEF TypeOK, Results
    <3>2. QED
      BY <2>2, <2>6, <2>7, <3>1 DEF GiveUp
  <2>8. CASE Receive(r)
    <3>1. PICK n \in DOMAIN results :
            /\ results[n].id \in TasksOf(r)
            /\ \A k \in 1 .. n - 1 : results[k].id \notin TasksOf(r)
            /\ \/ StopReading(r, RemoveAt(results, n)) /\ UNCHANGED got
               \/ /\ results[n].kind # "error" /\ results' = RemoveAt(results, n)
                  /\ got' = [got EXCEPT ![r] = IF results[n].kind = "final"
                                               THEN @ \cup {results[n].id[2]} ELSE @]
                  /\ UNCHANGED <<rd, waiting>>
      BY <2>8 DEF Receive
    <3>2. rd[r] = "open"
      BY <2>8 DEF Receive, HasNext, At
    <3>3. results \in Seq(Results) /\ n \in 1 .. Len(results)
      BY DEF TypeOK, Results
    <3>4. RemoveAt(results, n) \in Seq(Results) /\ Picks(RemoveAt(results, n), results)
      BY <3>3, RemoveAtThins, ThinsPicks
    <3>5. QED
      BY <2>1, <2>2, <2>6, <3>1, <3>2, <3>4, AnswersReceived
  <2>9. QED
    BY <1>2, <2>4, <2>5, <2>7, <2>8 DEF Handler
<1>3. QED
  BY <1>1, <1>2

-----------------------------------------------------------------------------
(* The next pass stays on its way.                                         *)

Coming(q) == \E n \in 1 .. Len(q) : q[n].kind = "next"

\* Nothing but the main thread takes a next pass from the queue.
LEMMA ComingKept ==
    ASSUME NEW S, NEW q \in Seq(S), Coming(q)
    PROVE  /\ \A o \in Seq(S) : Coming(o \o q)
           /\ \A e \in S : Coming(Append(q, e))
           /\ \A P : (\A n \in P : q[n].kind # "next") => Coming(Without(q, P))
<1>1. PICK n \in 1 .. Len(q) : q[n].kind = "next"
  BY DEF Coming
<1>2. ASSUME NEW o \in Seq(S) PROVE Coming(o \o q)
  <2>1. /\ Len(o \o q) = Len(o) + Len(q) /\ (o \o q)[n + Len(o)] = q[n]
        /\ Len(o) \in Nat /\ Len(q) \in Nat
    BY ConcatIs
  <2>2. n + Len(o) \in 1 .. Len(o \o q)
    BY <2>1
  <2>3. QED
    BY <1>1, <2>1, <2>2 DEF Coming
<1>3. ASSUME NEW e \in S PROVE Coming(Append(q, e))
  <2>1. Len(Append(q, e)) = Len(q) + 1 /\ Append(q, e)[n] = q[n] /\ Len(q) \in Nat
    BY AppendIs
  <2>2. n \in 1 .. Len(Append(q, e))
    BY <2>1
  <2>3. QED
    BY <1>1, <2>1, <2>2 DEF Coming
<1>4. ASSUME NEW P, \A m \in P : q[m].kind # "next" PROVE Coming(Without(q, P))
  <2> DEFINE w == Without(q, P)
  <2>1. Thins(w, q, P)
    BY WithoutThins
  <2> HIDE DEF w
  <2>2. PICK from \in [1 .. Len(w) -> 1 .. Len(q)] :
          /\ \A i \in 1 .. Len(w) : from[i] \notin P /\ w[i] = q[from[i]]
          /\ \A k \in 1 .. Len(q) : k \in P \/ \E i \in 1 .. Len(w) : from[i] = k
    <3>1. PICK from \in [1 .. Len(w) -> 1 .. Len(q)] :
            /\ \A i, j \in 1 .. Len(w) : i < j => from[i] < from[j]
            /\ \A i \in 1 .. Len(w) : from[i] \notin P /\ w[i] = q[from[i]]
            /\ \A k \in 1 .. Len(q) : k \in P \/ \E i \in 1 .. Len(w) : from[i] = k
      BY <2>1, Zenon DEF Thins
    <3>2. QED
      BY <3>1
  <2>3. PICK i \in 1 .. Len(w) : from[i] = n
    BY <1>1, <1>4, <2>2
  <2>4. Coming(w)
    BY <1>1, <2>2, <2>3 DEF Coming
  <2>5. QED
    BY <2>4 DEF w
<1>5. QED
  BY <1>2, <1>3, <1>4

\* PassIsComing is Coming, of a sequence that is given.
LEMMA PassIsComingIs ==
    /\ TypeOK => (PassIsComing <=> Coming(queue))
    /\ TypeOK' => (PassIsComing' <=> Coming(queue'))
<1>1. TypeOK => DOMAIN queue = 1 .. Len(queue)
  BY DEF TypeOK
<1>2. TypeOK' => DOMAIN queue' = 1 .. Len(queue')
  BY DEF TypeOK
<1>3. QED
  BY <1>1, <1>2 DEF PassIsComing, Coming

\* The clients take no pass from the queue, and no slot.
LEMMA HttpAwake ==
    ASSUME TypeOK, TypesNext, Awake, PassVisitsBusy, NEW r \in Callers, Handler(r) \/ GiveUp(r)
    PROVE  Awake' /\ PassVisitsBusy'
<1>1. /\ UNCHANGED <<pc, slot, todo, running, sleeping>>
      /\ UNCHANGED queue \/ Post(r) \/ PostCancels(r)
  BY DEF Handler, GiveUp, Arrive, Enter, Post, Receive, PostCancels, Finish, queueVars, mainVars,
         powerVars
<1>2. queue \in Seq(QueueEntries) /\ TypeOK'
  BY TypesNextOK DEF TypeOK
<1>3. ASSUME Coming(queue) PROVE Coming(queue')
  <2>1. CASE Post(r)
    <3> DEFINE e == Entry("task", <<r, 0>>)
    <3>1. e \in QueueEntries
      BY EntriesAre
    <3>2. queue' = <<e>> \o queue \/ queue' = Append(queue, e)
      BY <2>1 DEF Post
    <3> HIDE DEF e
    <3>3. <<e>> \in Seq(QueueEntries)
      BY <3>1
    <3>4. QED
      BY <1>2, <1>3, <3>1, <3>2, <3>3, ComingKept
  <2>2. CASE PostCancels(r)
    <3>1. PICK order \in SetToSeqs(TasksOf(r)) :
            queue' = [i \in DOMAIN order |-> Entry("cancel", order[i])] \o Without(queue, Entries(r))
      BY <2>2 DEF PostCancels
    <3> DEFINE cancels == [i \in DOMAIN order |-> Entry("cancel", order[i])]
               left == Without(queue, Entries(r))
    <3>2. cancels \in Seq(QueueEntries)
      BY CancelsAre
    <3>3. left \in Seq(QueueEntries)
      BY <1>2, WithoutThins
    <3>4. \A n \in Entries(r) : queue[n].kind # "next"
      BY DEF Entries
    <3>5. Coming(left)
      BY <1>2, <1>3, <3>4, ComingKept
    <3>6. queue' = cancels \o left
      BY <3>1
    <3> HIDE DEF cancels, left
    <3>7. QED
      BY <3>2, <3>3, <3>5, <3>6, ComingKept
  <2>3. QED
    BY <1>1, <1>3, <2>1, <2>2
<1>4. PassIsComing => PassIsComing'
  BY <1>2, <1>3, PassIsComingIs DEF TypeOK
<1>5. \A s \in Slots : Busy(s)' <=> Busy(s)
  BY <1>1 DEF Busy
<1>6. QED
  <2>1. IdleSlots' = IdleSlots
    BY <1>5 DEF IdleSlots
  <2>2. todo \subseteq Slots
    BY DEF TypeOK
  <2>3. QED
    BY <1>1, <1>4, <1>5, <2>1, <2>2 DEF Awake, PassVisitsBusy

\* A visit ends or goes on in a pass that was announced, since the slot works.
LEMMA VisitAwake ==
    ASSUME TypeOK, TypesNext, Awake, PassVisitsBusy, NEW s \in Slots,
           \/ Undo(s) \/ Join(s) \/ Skip(s) \/ EndEarly(s) \/ Fail(s) \/ SampleLast(s) \/ SampleMore(s)
    PROVE  Awake' /\ PassVisitsBusy'
<1>1. PICK pass \in {"undo", "fill", "fail", "sample"} :
        /\ pc = pass /\ s \in todo /\ todo' = todo \ {s}
        /\ pass = "undo" => pc' \in {"undo", "tasks"}
        /\ pc' = pc \/ pc' \in {"tasks", "decode", "rest"}
        /\ UNCHANGED <<running, sleeping>>
  BY DEF Undo, Join, Skip, EndEarly, Fail, SampleLast, SampleMore, FillsNext, Visit, powerVars
<1>2. \A q \in Slots : q # s => slot'[q] = slot[q]
  BY ReleaseType DEF Undo, Join, Skip, EndEarly, Fail, SampleLast, Sampled, SampleMore, TypeOK
<1>3. PassVisitsBusy'
  <2>1. todo' \subseteq Slots /\ \A q \in todo' : q # s /\ q \in todo
    BY <1>1 DEF TypeOK
  <2>2. pc' \in {"fill", "sample", "fail"} => pc \in {"fill", "sample", "fail"}
    BY <1>1
  <2>3. QED
    BY <1>2, <2>1, <2>2 DEF PassVisitsBusy, Busy
<1>4. ~sleeping /\ ~sleeping'
  BY <1>1 DEF Awake, TypeOK
<1>5. CASE pc = "undo"
  BY <1>1, <1>3, <1>4, <1>5 DEF Awake
<1>6. CASE pc # "undo"
  <2>1. Busy(s) /\ pc \in {"fill", "fail", "sample"}
    BY <1>1, <1>6 DEF PassVisitsBusy
  <2>2. PassIsComing
    BY <2>1 DEF Awake, IdleSlots
  <2>3. UNCHANGED queue \/ Release(s)
    BY DEF Undo, Join, Skip, EndEarly, Fail, SampleLast, Sampled, SampleMore, queueVars
  <2>4. queue \in Seq(QueueEntries) /\ deferred \in Seq(Callers) /\ TypeOK'
    BY TypesNextOK DEF TypeOK
  <2>5. Coming(queue)
    BY <2>2, PassIsComingIs
  <2>6. CASE Release(s) /\ queue' # queue
    <3>1. PICK n \in DOMAIN deferred : queue' = <<Entry("task", <<deferred[n], 0>>)>> \o queue
      BY <2>6 DEF Release, PopDeferred, queueVars
    <3> DEFINE e == Entry("task", <<deferred[n], 0>>)
    <3>2. e \in QueueEntries
      BY <2>4, EntriesAre
    <3> HIDE DEF e
    <3>3. <<e>> \in Seq(QueueEntries)
      BY <3>2
    <3>4. queue' = <<e>> \o queue
      BY <3>1 DEF e
    <3>5. Coming(queue')
      BY <2>4, <2>5, <3>3, <3>4, ComingKept
    <3>6. QED
      BY <1>3, <1>4, <2>4, <3>5, PassIsComingIs DEF Awake
  <2>7. CASE queue' = queue
    BY <1>3, <1>4, <2>4, <2>5, <2>7, PassIsComingIs DEF Awake
  <2>8. QED
    BY <2>3, <2>6, <2>7
<1>7. QED
  BY <1>5, <1>6

\* The server falls asleep, or ends a pass, with its slots idle or the next pass
\* in the queue.
LEMMA MainAwake ==
    ASSUME TypeOK, TypesNext, Awake, PassVisitsBusy,
           \/ NextEntry \/ ProcessNext \/ ProcessCancel \/ Defer \/ Reply \/ Launch \/ LaunchFails
           \/ UpdateSlots \/ Decode \/ DecodeNothing \/ DecodeFails \/ LeaveRest \/ Wake
           \/ Sleep \/ Terminate
    PROVE  Awake' /\ PassVisitsBusy'
<1>1. queue \in Seq(QueueEntries) /\ TypeOK' /\ todo \subseteq Slots /\ batch \subseteq Slots
      /\ running \in BOOLEAN /\ sleeping \in BOOLEAN
  BY TypesNextOK DEF TypeOK
<1>2. CASE NextEntry
  <2>1. pc = "tasks" /\ pc' \in {"stopped", "slots", "process"} /\ (~running => pc' = "stopped")
        /\ UNCHANGED <<slot, running, sleeping>>
    BY <1>2 DEF NextEntry, powerVars
  <2>2. sleeping => ~running /\ IdleSlots = Slots
    BY <2>1 DEF Awake
  <2>3. IdleSlots' = IdleSlots
    BY <2>1 DEF IdleSlots, Busy
  <2>4. QED
    BY <2>1, <2>2, <2>3 DEF Awake, PassVisitsBusy
<1>3. CASE ProcessNext \/ ProcessCancel \/ Defer \/ Reply \/ Launch \/ LaunchFails
  <2>1. pc = "process" /\ pc' \in {"tasks", "undo"} /\ UNCHANGED sleeping
    BY <1>3 DEF ProcessNext, ProcessCancel, Defer, Reply, Launch, LaunchFails, Processing,
                Processed, powerVars
  <2>2. ~sleeping
    BY <2>1 DEF Awake
  <2>3. QED
    BY <2>1, <2>2 DEF Awake, PassVisitsBusy
<1>4. CASE UpdateSlots
  <2>1. pc = "slots" /\ UNCHANGED <<slot, sleeping>> /\ ~sleeping
    BY <1>4 DEF UpdateSlots, powerVars, Awake
  <2>2. IdleSlots' = IdleSlots /\ \A s \in Slots : Busy(s)' <=> Busy(s)
    BY <2>1 DEF IdleSlots, Busy
  <2>3. CASE IdleSlots = Slots
    <3>1. pc' = "rest"
      BY <1>4, <2>3 DEF UpdateSlots
    <3>2. QED
      BY <2>1, <2>2, <2>3, <3>1 DEF Awake, PassVisitsBusy
  <2>4. CASE IdleSlots # Slots
    <3>1. /\ queue' = Append(queue, Entry("next", NoTask))
          /\ todo' = {s \in Slots : slot[s].state \in {"started", "processing", "generating"}}
      BY <1>4, <2>4 DEF UpdateSlots
    <3>2. Entry("next", NoTask) \in QueueEntries /\ Entry("next", NoTask).kind = "next"
      BY EntriesAre DEF Entry
    <3>3. /\ Len(queue') = Len(queue) + 1 /\ Len(queue) \in Nat
          /\ queue'[Len(queue) + 1] = Entry("next", NoTask)
      BY <1>1, <3>1, <3>2, AppendIs
    <3>4. Len(queue) + 1 \in 1 .. Len(queue')
      BY <3>3
    <3>5. PassIsComing'
      BY <1>1, <3>2, <3>3, <3>4, PassIsComingIs DEF Coming
    <3>6. \A s \in todo' : Busy(s)'
      BY <2>1, <3>1 DEF Busy
    <3>7. QED
      BY <2>1, <3>5, <3>6 DEF Awake, PassVisitsBusy
  <2>5. QED
    BY <2>3, <2>4
<1>5. CASE Decode
  <2>1. pc = "decode" /\ UNCHANGED <<queue, sleeping>> /\ ~sleeping /\ pc' \in {"rest", "sample"}
    BY <1>5 DEF Decode, queueVars, powerVars, Awake
  <2>2. /\ slot' = [s \in Slots |-> IF s \in Copies THEN [slot[s] EXCEPT !.state = "done"] ELSE slot[s]]
        /\ todo' = {s \in batch : slot[s].state \in {"done", "generating"}} \cup Copies
    BY <1>5 DEF Decode
  <2>3. Copies \subseteq Slots /\ \A s \in Copies : slot[s].state = "waiting"
    BY DEF Copies
  <2>4. \A s \in Slots : slot'[s].state = (IF s \in Copies THEN "done" ELSE slot[s].state)
    <3>1. TAKE s \in Slots
    <3>2. CASE s \in Copies
      <4>1. Busy(s)
        BY <2>3, <3>2 DEF Busy
      <4>2. slot[s] \in [state : SlotStates, task : Tasks, made : Nat]
        BY <4>1 DEF TypeOK, Busy, Idle
      <4>3. QED
        BY <2>2, <3>2, <4>2
    <3>3. CASE s \notin Copies
      BY <2>2, <3>3
    <3>4. QED
      BY <3>2, <3>3
  <2>5. \A s \in todo' : Busy(s)'
    <3>1. ASSUME NEW s \in todo' PROVE Busy(s)'
      <4>1. s \in Slots /\ (s \in Copies \/ slot[s].state \in {"done", "generating"})
        BY <1>1, <2>2, <2>3, <3>1
      <4>2. QED
        BY <2>4, <4>1 DEF Busy
    <3>2. QED
      BY <3>1
  <2>6. IdleSlots = Slots => IdleSlots' = Slots
    BY <2>3, <2>4 DEF IdleSlots, Busy
  <2>7. PassIsComing' <=> PassIsComing
    BY <2>1 DEF PassIsComing
  <2>8. QED
    BY <2>1, <2>5, <2>6, <2>7 DEF Awake, PassVisitsBusy
<1>6. CASE DecodeNothing \/ DecodeFails
  <2>1. /\ pc = "decode" /\ UNCHANGED <<queue, slot, sleeping>> /\ ~sleeping
        /\ pc' \in {"rest", "aborted"} \/ (pc' = "fail" /\ todo' = Slots \ IdleSlots)
    BY <1>6 DEF DecodeNothing, DecodeFails, queueVars, powerVars, Awake
  <2>2. IdleSlots' = IdleSlots /\ \A s \in Slots : Busy(s)' <=> Busy(s)
    BY <2>1 DEF IdleSlots, Busy
  <2>3. PassIsComing' <=> PassIsComing
    BY <2>1 DEF PassIsComing
  <2>4. \A s \in Slots \ IdleSlots : Busy(s)
    BY DEF IdleSlots
  <2>5. QED
    BY <2>1, <2>2, <2>3, <2>4 DEF Awake, PassVisitsBusy
<1>7. CASE LeaveRest \/ Wake
  <2>1. /\ pc \in {"rest", "asleep"} /\ pc' = "tasks" /\ UNCHANGED <<slot, running>>
        /\ sleeping' => sleeping /\ (~running \/ pc = "rest")
    BY <1>7 DEF LeaveRest, Wake, powerVars
  <2>2. IdleSlots' = IdleSlots
    BY <2>1 DEF IdleSlots, Busy
  <2>3. QED
    BY <2>1, <2>2 DEF Awake, PassVisitsBusy
<1>8. CASE Sleep
  <2>1. pc = "rest" /\ queue = <<>> /\ pc' = "asleep" /\ UNCHANGED slot
    BY <1>8 DEF Sleep, MayLeaveRest
  <2>2. ~PassIsComing
    BY <2>1 DEF PassIsComing
  <2>3. IdleSlots' = Slots
    BY <2>1, <2>2 DEF Awake, IdleSlots, Busy
  <2>4. QED
    BY <2>1, <2>3 DEF Awake, PassVisitsBusy
<1>9. CASE Terminate
  <2>1. UNCHANGED <<pc, queue, slot, todo, sleeping>> /\ ~running' /\ running
    BY <1>9 DEF Terminate, queueVars, mainVars
  <2>2. IdleSlots' = IdleSlots /\ (PassIsComing' <=> PassIsComing)
        /\ \A s \in Slots : Busy(s)' <=> Busy(s)
    BY <2>1 DEF IdleSlots, Busy, PassIsComing
  <2>3. QED
    BY <1>1, <2>1, <2>2 DEF Awake, PassVisitsBusy
<1>10. QED
  BY <1>2, <1>3, <1>4, <1>5, <1>6, <1>7, <1>8, <1>9

-----------------------------------------------------------------------------
(* The theorems.                                                           *)

\* At first nothing is anywhere.
LEMMA InitInvariant ==
    ASSUME Init
    PROVE  IInv
<1>1. \A r \in Callers : r \in Requests
  BY MixesAssumption DEF Init, Callers
<1>2. TypeOK
  <2>1. queue \in Seq(QueueEntries) /\ deferred \in Seq(Callers) /\ results \in Seq(Results)
    BY DEF Init
  <2>2. slot \in [Slots -> SlotRecords]
    BY DEF Init, SlotRecords
  <2>3. got \in [Requests -> SUBSET (0 .. NumSlots - 1)] /\ \A r \in Callers : got[r] = {}
    BY <1>1 DEF Init
  <2>4. empties \in 0 .. MaxEmpty + 1
    BY MaxEmptyAssumption DEF Init
  <2>5. QED
    BY <2>1, <2>2, <2>3, <2>4 DEF Init, TypeOK, Results, SlotRecords
<1>3. Len(queue) = 0 /\ Len(deferred) = 0 /\ cur.kind # "task"
  BY DEF Init, Nothing
<1>4. \A s \in Slots : slot[s].task = NoTask /\ ~Busy(s)
  BY DEF Init, Idle, Busy
<1>5. \A r : ~Held(queue, deferred, cur, r)
  BY <1>3 DEF Held
<1>6. \A r : ~Unlaunched(r)
  BY <1>2, <1>5, UnlaunchedIs
<1>7. \A t \in Tasks : ~Placed(t)
  BY <1>4, <1>6, TasksAre DEF Placed, SlotsOf
<1>8. PlacedOnce
  BY <1>3, <1>4, <1>6 DEF PlacedOnce, Once
<1>9. NoTrace /\ AnsweredIsGone
  BY <1>1, <1>7, TasksAre DEF NoTrace, AnsweredIsGone, Init
<1>10. WaitingIsOpen /\ ResultsHaveReaders /\ EndsLast /\ NothingAfterFinal
  BY <1>1 DEF Init, WaitingIsOpen, ResultsHaveReaders, EndsLast, NothingAfterFinal
<1>11. Awake /\ PassVisitsBusy /\ EmptiesCounted
  BY MaxEmptyAssumption DEF Init, Awake, PassVisitsBusy, EmptiesCounted
<1>12. QED
  BY <1>2, <1>8, <1>9, <1>10, <1>11 DEF IInv

\* Every step keeps the invariant.
LEMMA StepInvariant ==
    ASSUME IInv, Next
    PROVE  IInv'
<1>1. TypeOK /\ PlacedOnce /\ Answers /\ Awake /\ PassVisitsBusy /\ EmptiesCounted
  BY DEF IInv, Answers
<1>2. TypesNext /\ TypeOK' /\ EmptiesCounted'
  BY <1>1, TypeStep
<1>3. PlacedOnce' /\ Answers' /\ Awake' /\ PassVisitsBusy'
  <2>1. CASE \E s \in Slots : \/ Undo(s) \/ Join(s) \/ Skip(s) \/ EndEarly(s)
                              \/ Fail(s) \/ SampleLast(s) \/ SampleMore(s)
    BY <1>1, <1>2, <2>1, VisitAnswers, VisitAwake
  <2>2. CASE \E r \in Callers : Handler(r) \/ GiveUp(r)
    BY <1>1, <1>2, <2>2, HttpAnswers, HttpAwake
  <2>3. CASE \/ NextEntry \/ ProcessNext \/ ProcessCancel \/ Defer \/ Reply \/ Launch \/ LaunchFails
             \/ UpdateSlots \/ Decode \/ DecodeNothing \/ DecodeFails \/ LeaveRest \/ Wake
             \/ Sleep \/ Terminate
    BY <1>1, <1>2, <2>3, MainAnswers, MainAwake
  <2>4. QED
    BY <2>1, <2>2, <2>3 DEF Next, MainLoop
<1>4. QED
  BY <1>2, <1>3 DEF IInv, Answers

\* What does not change stays true.
LEMMA StutterInvariant ==
    ASSUME IInv, UNCHANGED vars
    PROVE  IInv'
<1>1. /\ job' = job /\ rd' = rd /\ got' = got /\ queue' = queue /\ deferred' = deferred
      /\ waiting' = waiting /\ results' = results /\ slot' = slot /\ pc' = pc /\ cur' = cur
      /\ todo' = todo /\ batch' = batch /\ empties' = empties /\ running' = running
      /\ sleeping' = sleeping /\ wakeup' = wakeup
  BY DEF vars
<1>2. Callers' = Callers /\ (\A r : TasksOf(r)' = TasksOf(r)) /\ Tasks' = Tasks
  BY <1>1 DEF Callers, TasksOf, Tasks
<1>3. QueueEntries' = QueueEntries
  BY <1>2 DEF QueueEntries
<1>4. TypeOK'
  BY <1>1, <1>2, <1>3 DEF IInv, TypeOK
<1>5. /\ \A r : Unlaunched(r)' <=> Unlaunched(r)
      /\ \A t : SlotsOf(t)' = SlotsOf(t) /\ Ends(t)' = Ends(t)
      /\ \A s : Busy(s)' <=> Busy(s)
      /\ \A r : Unposted(r)' <=> Unposted(r)
  BY <1>1 DEF Unlaunched, Entries, Deferrals, InHand, SlotsOf, Ends, Busy, Unposted
<1>6. \A t : (Placed(t)' <=> Placed(t)) /\ (Answered(t)' <=> Answered(t))
  BY <1>1, <1>5 DEF Placed, Answered
<1>7. PlacedOnce'
  BY <1>1, <1>2, <1>5 DEF IInv, PlacedOnce
<1>8. NoTrace' /\ WaitingIsOpen' /\ AnsweredIsGone'
  BY <1>1, <1>2, <1>5, <1>6 DEF IInv, NoTrace, WaitingIsOpen, AnsweredIsGone
<1>9. ResultsHaveReaders' /\ EndsLast' /\ NothingAfterFinal'
  BY <1>1 DEF IInv, ResultsHaveReaders, EndsLast, NothingAfterFinal
<1>10. Awake' /\ PassVisitsBusy' /\ EmptiesCounted'
  BY <1>1, <1>5 DEF IInv, Awake, PassIsComing, IdleSlots, PassVisitsBusy, EmptiesCounted
<1>11. QED
  BY <1>4, <1>7, <1>8, <1>9, <1>10 DEF IInv

\* The scheduler keeps its books, whatever its clients do and in whatever order
\* its threads run.
THEOREM Invariance == Spec => []IInv
<1>1. Init => IInv
  BY InitInvariant
<1>2. IInv /\ [Next]_vars => IInv'
  BY StepInvariant, StutterInvariant
<1>3. QED
  BY <1>1, <1>2, PTL DEF Spec

\* A set any two elements of which are the same has at most one.
LEMMA AtMostOne ==
    ASSUME NEW S, \A a, b \in S : a = b
    PROVE  Cardinality(S) \in {0, 1} /\ (Cardinality(S) = 0 <=> S = {})
<1>1. CASE S = {}
  BY <1>1, FS_EmptySet
<1>2. CASE S # {}
  <2>1. PICK a \in S : TRUE
    BY <1>2
  <2>2. S = {a}
    BY <2>1
  <2>3. Cardinality(S) = 1
    BY <2>2, FS_Singleton
  <2>4. QED
    BY <1>2, <2>3
<1>3. QED
  BY <1>1, <1>2

\* A set of positions in which any two are the same counts one at most.
LEMMA InOnePlace ==
    ASSUME IInv
    PROVE  OnePlace
<1>1. TypeOK /\ PlacedOnce /\ Awake
  BY DEF IInv
<1>2. DOMAIN queue = 1 .. Len(queue) /\ DOMAIN deferred = 1 .. Len(deferred)
  BY <1>1 DEF TypeOK
<1>3. ASSUME NEW r \in Callers
      PROVE  Cardinality(Entries(r)) + Cardinality(Deferrals(r)) + (IF InHand(r) THEN 1 ELSE 0) <= 1
  <2>1. \A m, n \in Entries(r) : m = n
    BY <1>1, <1>2 DEF PlacedOnce, Once, Queued, Entries
  <2>2. \A m, n \in Deferrals(r) : m = n
    BY <1>1, <1>2 DEF PlacedOnce, Once, Deferrals
  <2>3. Entries(r) = {} \/ Deferrals(r) = {}
    BY <1>1, <1>2 DEF PlacedOnce, Once, Queued, Entries, Deferrals
  <2>4. InHand(r) => Entries(r) = {} /\ Deferrals(r) = {}
    BY <1>1, <1>2 DEF PlacedOnce, Once, Queued, Entries, Deferrals, InHand
  <2>5. /\ Cardinality(Entries(r)) \in {0, 1} /\ (Cardinality(Entries(r)) = 0 <=> Entries(r) = {})
        /\ Cardinality(Deferrals(r)) \in {0, 1} /\ (Cardinality(Deferrals(r)) = 0 <=> Deferrals(r) = {})
    BY <2>1, <2>2, AtMostOne
  <2>6. QED
    BY <2>3, <2>4, <2>5
<1>4. ASSUME NEW r \in Callers, NEW t \in TasksOf(r) PROVE Cardinality(SlotsOf(t)) <= 1
  <2>1. t \in Tasks
    BY TasksAre
  <2>2. ASSUME NEW p \in SlotsOf(t), NEW q \in SlotsOf(t) PROVE p = q
    <3>1. p \in Slots /\ q \in Slots /\ slot[p].task = t /\ slot[q].task = t
      BY DEF SlotsOf
    <3>2. Busy(p)
      BY <1>1, <2>1, <3>1, SlotsAre
    <3>3. QED
      BY <1>1, <3>1, <3>2 DEF PlacedOnce
  <2>3. Cardinality(SlotsOf(t)) \in {0, 1}
    BY <2>2, AtMostOne
  <2>4. QED
    BY <2>3
<1>5. QED
  BY <1>1, <1>3, <1>4 DEF OnePlace, PlacedOnce, Awake

\* A result that ends a task is the last one of it.
LEMMA IsAnsweredOnce ==
    ASSUME IInv
    PROVE  AnsweredOnce
<1>1. SUFFICES ASSUME NEW r \in Callers, NEW t \in TasksOf(r)
               PROVE  /\ Cardinality(Ends(t)) <= 1
                      /\ t[2] \in got[r] => \A n \in DOMAIN results : results[n].id # t
                      /\ (t[2] \in got[r] \/ Ends(t) # {}) => SlotsOf(t) = {} /\ ~Unlaunched(r)
  BY DEF AnsweredOnce
<1>2. t \in Tasks /\ t[1] = r
  BY TasksAre
<1>3. Cardinality(Ends(t)) <= 1
  <2>1. results \in Seq(Results)
    BY DEF IInv, TypeOK, Results
  <2>2. DOMAIN results \subseteq Nat
    BY <2>1
  <2>3. \A m, n \in Ends(t) : m <= n /\ n <= m /\ m \in Nat /\ n \in Nat
    BY <2>2 DEF IInv, EndsLast, Ends
  <2>4. \A m, n \in Ends(t) : m = n
    BY <2>3
  <2>5. Cardinality(Ends(t)) \in {0, 1}
    BY <2>4, AtMostOne
  <2>6. QED
    BY <2>5
<1>4. t[2] \in got[r] => \A n \in DOMAIN results : results[n].id # t
  BY <1>2 DEF IInv, NothingAfterFinal
<1>5. (t[2] \in got[r] \/ Ends(t) # {}) => SlotsOf(t) = {} /\ ~Unlaunched(r)
  BY <1>2 DEF IInv, AnsweredIsGone, Answered, Placed
<1>6. QED
  BY <1>3, <1>4, <1>5

\* server-queue.cpp, server-context.cpp: for any number of slots and clients, a
\* task is queued once, deferred once, in the main thread's hand or in one slot,
\* and a server that sleeps has no slot at work.
THEOREM OnePlaceHolds == Spec => []OnePlace
<1>1. IInv => OnePlace
  BY InOnePlace
<1>2. QED
  BY <1>1, Invariance, PTL

\* server_response: no result stays behind that no reader will fetch.
THEOREM ResultsHaveReadersHolds == Spec => []ResultsHaveReaders
<1>1. IInv => ResultsHaveReaders
  BY DEF IInv
<1>2. QED
  BY <1>1, Invariance, PTL

\* wait_for_all's assertion "duplicate result received" cannot fail: a task is
\* answered once, and then it is in no slot, queue or hand.
THEOREM AnsweredOnceHolds == Spec => []AnsweredOnce
<1>1. IInv => AnsweredOnce
  BY IsAnsweredOnce
<1>2. QED
  BY <1>1, Invariance, PTL
=============================================================================
