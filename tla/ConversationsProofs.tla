-------------------------- MODULE ConversationsProofs --------------------------
(***************************************************************************)
(* The two stores of a conversation, for any conversations and bounds.     *)
(*                                                                         *)
(* The rows need that the ids of turns grow, so that what is recorded      *)
(* after a fork is in neither of the two conversations yet.  The log needs *)
(* that the entries of a file grow too: then its last entry is its latest  *)
(* leaf, an entry swallowed by an unfinished line is never written again,  *)
(* and each torn write is paid for by one file that ends in an unfinished  *)
(* line or by one lost entry.                                              *)
(***************************************************************************)
EXTENDS Conversations, SequenceTheorems, FiniteSetTheorems, WellFoundedInduction, TLAPS

-----------------------------------------------------------------------------
(* The rows of the conversations.                                          *)

Rows ==
    /\ known \subseteq Convs /\ last \in 0..MaxTurns
    /\ rows \in [Convs -> Seq(1..last)]
    /\ forks \in [Convs -> [from : Convs, n : Nat]]
    /\ \A t \in Convs : rows[t] # <<>> => t \in known
    /\ \A t \in Convs : forks[t].from # t => t \in known /\ forks[t].from \in known

\* The turns a fork was made of are still the first ones of both, and no later
\* turn is in both.
SnapshotOf(mine, theirs, n, other) ==
    /\ n <= Len(mine) /\ n <= Len(theirs)
    /\ \A i \in 1..n : mine[i] = theirs[i]
    /\ other => \A i \in n + 1..Len(mine), j \in 1..Len(theirs) : theirs[j] # mine[i]

Snapshots ==
    \A t \in Convs : SnapshotOf(rows[t], rows[forks[t].from], forks[t].n, forks[t].from # t)

LEMMA InitRows == Init => Rows /\ Snapshots
<1> SUFFICES ASSUME Init PROVE Rows /\ Snapshots
  OBVIOUS
<1> USE DEF Init
<1>1. Rows
  <2>1. MaxTurns \in Nat
    BY BoundsAssumption
  <2>2. rows \in [Convs -> Seq(1..last)] /\ forks \in [Convs -> [from : Convs, n : Nat]]
    OBVIOUS
  <2>3. QED
    BY <2>1, <2>2 DEF Rows
<1>2. Snapshots
  BY DEF Snapshots, SnapshotOf
<1>3. QED
  BY <1>1, <1>2

\* A new turn has an id of its own.
LEMMA AppendKeepsSnapshot ==
    ASSUME NEW m \in Nat, NEW mine \in Seq(1..m), NEW theirs \in Seq(1..m), NEW n \in Nat,
           NEW other \in BOOLEAN, SnapshotOf(mine, theirs, n, other)
    PROVE  /\ SnapshotOf(Append(mine, m + 1), theirs, n, other)
           /\ SnapshotOf(mine, Append(theirs, m + 1), n, other)
           /\ ~other => SnapshotOf(Append(mine, m + 1), Append(theirs, m + 1), n, other)
<1>1. PICK a : a = Append(mine, m + 1)
  OBVIOUS
<1>2. PICK b : b = Append(theirs, m + 1)
  OBVIOUS
<1>3. /\ Len(a) = Len(mine) + 1 /\ a[Len(mine) + 1] = m + 1
      /\ \A i \in 1..Len(mine) : a[i] = mine[i]
  BY <1>1
<1>4. /\ Len(b) = Len(theirs) + 1 /\ b[Len(theirs) + 1] = m + 1
      /\ \A i \in 1..Len(theirs) : b[i] = theirs[i]
  BY <1>2
<1>5. n <= Len(mine) /\ n <= Len(theirs) /\ Len(mine) \in Nat /\ Len(theirs) \in Nat
  BY DEF SnapshotOf
<1>6. \A i \in 1..n : mine[i] = theirs[i] /\ a[i] = mine[i] /\ b[i] = theirs[i]
  <2>1. \A i \in 1..n : i \in 1..Len(mine) /\ i \in 1..Len(theirs)
    BY <1>5
  <2>2. \A i \in 1..n : mine[i] = theirs[i]
    BY DEF SnapshotOf
  <2>3. QED
    BY <2>1, <2>2, <1>3, <1>4
<1>7. ASSUME other, NEW i \in n + 1..Len(a), NEW j \in 1..Len(theirs) PROVE theirs[j] # a[i]
  <2>1. CASE i \in n + 1..Len(mine)
    <3>1. theirs[j] # mine[i]
      BY <2>1, <1>7 DEF SnapshotOf
    <3>2. i \in 1..Len(mine)
      BY <2>1, <1>5
    <3>3. QED
      BY <3>1, <3>2, <1>3
  <2>2. CASE i = Len(mine) + 1
    <3>1. theirs[j] \in 1..m
      OBVIOUS
    <3>2. a[i] = m + 1
      BY <2>2, <1>3
    <3>3. QED
      BY ONLY <3>1, <3>2, m \in Nat
  <2>3. i \in n + 1..Len(mine) \/ i = Len(mine) + 1
    <3>1. PICK k \in Nat : k = Len(mine)
      BY <1>5
    <3>2. i \in n + 1..k + 1
      BY <3>1, <1>3, <1>7
    <3>3. i \in n + 1..k \/ i = k + 1
      BY ONLY <3>2, k \in Nat, n \in Nat
    <3>4. QED
      BY <3>1, <3>3
  <2>4. QED
    BY <2>1, <2>2, <2>3
<1>8. ASSUME other, NEW i \in n + 1..Len(mine), NEW j \in 1..Len(b) PROVE b[j] # mine[i]
  <2>1. CASE j \in 1..Len(theirs)
    BY <2>1, <1>4, <1>5, <1>8 DEF SnapshotOf
  <2>2. CASE j = Len(theirs) + 1
    <3>1. i \in 1..Len(mine)
      BY <1>5, <1>8
    <3>2. mine[i] \in 1..m
      BY <3>1
    <3>3. QED
      BY <3>2, <2>2, <1>4
  <2>3. QED
    BY <2>1, <2>2, <1>4, <1>5, <1>8
<1>9. SnapshotOf(a, theirs, n, other)
  BY <1>3, <1>5, <1>6, <1>7 DEF SnapshotOf
<1>10. SnapshotOf(mine, b, n, other)
  BY <1>4, <1>5, <1>6, <1>8 DEF SnapshotOf
<1>11. ~other => SnapshotOf(a, b, n, other)
  BY <1>3, <1>4, <1>5, <1>6 DEF SnapshotOf
<1>12. QED
  BY <1>1, <1>2, <1>9, <1>10, <1>11

LEMMA RecordKeepsRows ==
    ASSUME Rows, Snapshots, NEW c \in Convs, RecordTurn(c)
    PROVE  Rows' /\ Snapshots'
<1>1. /\ last \in 0..MaxTurns /\ last \in Nat /\ last < MaxTurns /\ last' = last + 1 /\ MaxTurns \in Nat
      /\ rows \in [Convs -> Seq(1..last)] /\ forks \in [Convs -> [from : Convs, n : Nat]]
      /\ rows' = [rows EXCEPT ![c] = Append(@, last + 1)]
      /\ known' = known \cup {c} /\ forks' = forks
  BY BoundsAssumption DEF Rows, RecordTurn
<1>2. \A s \in Convs : rows[s] \in Seq(1..last)
  BY <1>1
<1>3. rows' \in [Convs -> Seq(1..last')]
  <2>1. 1..last \subseteq 1..last'
    BY <1>1
  <2>2. \A s \in Convs : rows[s] \in Seq(1..last')
    BY <2>1, <1>2, SeqMonotonic
  <2>3. last + 1 \in 1..last'
    BY <1>1
  <2>4. Append(rows[c], last + 1) \in Seq(1..last')
    BY <2>2, <2>3
  <2>5. QED
    BY <1>1, <2>2, <2>4
<1>4. \A s \in Convs : rows'[s] = IF s = c THEN Append(rows[s], last + 1) ELSE rows[s]
  BY <1>1
<1>5. Rows'
  <2>1. last' \in 0..MaxTurns
    BY <1>1
  <2>2. QED
    BY <2>1, <1>1, <1>3, <1>4 DEF Rows
<1>6. ASSUME NEW t \in Convs
      PROVE  SnapshotOf(rows'[t], rows'[forks'[t].from], forks'[t].n, forks'[t].from # t)
  <2>1. PICK s \in Convs, n \in Nat : s = forks[t].from /\ n = forks[t].n
    BY <1>1
  <2>2. PICK other \in BOOLEAN : other <=> s # t
    OBVIOUS
  <2>3. SnapshotOf(rows[t], rows[s], n, other)
    BY <2>1, <2>2 DEF Snapshots
  <2>4. /\ SnapshotOf(Append(rows[t], last + 1), rows[s], n, other)
        /\ SnapshotOf(rows[t], Append(rows[s], last + 1), n, other)
        /\ ~other => SnapshotOf(Append(rows[t], last + 1), Append(rows[s], last + 1), n, other)
    BY <2>3, <1>1, <1>2, AppendKeepsSnapshot
  <2>5. SnapshotOf(rows'[t], rows'[s], n, other)
    BY <2>2, <2>3, <2>4, <1>4
  <2>6. QED
    BY <2>1, <2>2, <2>5, <1>1
<1>7. QED
  BY <1>5, <1>6 DEF Snapshots

LEMMA ForkKeepsRows ==
    ASSUME Rows, Snapshots, NEW s \in Convs, NEW t \in Convs, ForkRows(s, t)
    PROVE  Rows' /\ Snapshots'
<1>1. /\ s \in known /\ t \notin known /\ s # t /\ last' = last
      /\ rows \in [Convs -> Seq(1..last)] /\ forks \in [Convs -> [from : Convs, n : Nat]]
      /\ rows' = [rows EXCEPT ![t] = rows[s]]
      /\ known' = known \cup {t} /\ forks' = [forks EXCEPT ![t] = [from |-> s, n |-> Len(rows[s])]]
  BY DEF Rows, ForkRows
<1>2. rows[s] \in Seq(1..last) /\ Len(rows[s]) \in Nat
  BY <1>1
<1>3. \A u \in Convs : /\ rows'[u] = IF u = t THEN rows[s] ELSE rows[u]
                       /\ forks'[u] = IF u = t THEN [from |-> s, n |-> Len(rows[s])] ELSE forks[u]
  BY <1>1
<1>4. Rows'
  BY <1>1, <1>2, <1>3 DEF Rows
<1>5. ASSUME NEW u \in Convs
      PROVE  SnapshotOf(rows'[u], rows'[forks'[u].from], forks'[u].n, forks'[u].from # u)
  <2>1. CASE u = t
    <3>1. SnapshotOf(rows[s], rows[s], Len(rows[s]), s # t)
      BY <1>2 DEF SnapshotOf
    <3>2. QED
      BY <3>1, <2>1, <1>1, <1>3
  <2>2. CASE u # t /\ forks[u].from # t
    <3>1. forks[u].from \in Convs
      BY <1>1
    <3>2. QED
      BY <3>1, <2>2, <1>3 DEF Snapshots
  <2>3. CASE u # t /\ forks[u].from = t
    BY <2>3, <1>1 DEF Rows
  <2>4. QED
    BY <2>1, <2>2, <2>3
<1>6. QED
  BY <1>4, <1>5 DEF Snapshots

\* Every other step leaves the turns as they are.
LEMMA NextRows ==
    ASSUME Rows, Snapshots, [Next]_vars
    PROVE  Rows' /\ Snapshots'
<1>1. \/ \E c \in Convs : RecordTurn(c)
      \/ \E s, t \in Convs : ForkRows(s, t)
      \/ \E c \in Convs : known' = known \cup {c} /\ UNCHANGED <<rows, last, forks>>
      \/ UNCHANGED dbVars
  BY DEF Next, EnsureConversation, AppendUser, AppendAssistant, Crash, StartCopy, CopyEntry,
         OfferFork, vars, dbVars
<1>2. ASSUME NEW c \in Convs, known' = known \cup {c}, UNCHANGED <<rows, last, forks>>
      PROVE  Rows' /\ Snapshots'
  BY <1>2 DEF Rows, Snapshots
<1>3. CASE UNCHANGED dbVars
  BY <1>3 DEF Rows, Snapshots, dbVars
<1>4. QED
  BY <1>1, <1>2, <1>3, RecordKeepsRows, ForkKeepsRows

\* Two sequences that agree up to n: the first n of one are a prefix of the other.
LEMMA PrefixTaken ==
    ASSUME NEW S, NEW a \in Seq(S), NEW b \in Seq(S), NEW n \in Nat, n <= Len(a), n <= Len(b),
           \A i \in 1..n : b[i] = a[i]
    PROVE  IsPrefix(SubSeq(a, 1, n), b)
<1>1. PICK p : p = SubSeq(a, 1, n)
  OBVIOUS
<1>2. p \in Seq(S) /\ Len(p) = n /\ \A i \in 1..n : p[i] = a[i]
  <2>1. \A i \in 1..n : a[i] \in S
    OBVIOUS
  <2>2. QED
    BY <2>1, <1>1, SubSeqProperties
<1>3. \A i \in 1..n : p[i] \in S /\ b[i] \in S
  BY <1>2
<1>4. SubSeq(p, 1, n) \in Seq(S) /\ Len(SubSeq(p, 1, n)) = n
      /\ \A i \in 1..n : SubSeq(p, 1, n)[i] = p[i]
  BY <1>2, <1>3, SubSeqProperties
<1>5. SubSeq(b, 1, n) \in Seq(S) /\ Len(SubSeq(b, 1, n)) = n
      /\ \A i \in 1..n : SubSeq(b, 1, n)[i] = b[i]
  BY <1>3, SubSeqProperties
<1>6. SubSeq(p, 1, n) = SubSeq(b, 1, n)
  <2>1. \A i \in 1..n : SubSeq(p, 1, n)[i] = SubSeq(b, 1, n)[i]
    BY <1>2, <1>4, <1>5
  <2>2. QED
    BY <2>1, <1>4, <1>5, SeqEqual
<1>7. QED
  BY <1>1, <1>2, <1>6 DEF IsPrefix

LEMMA SnapshotsHold ==
    ASSUME Rows, Snapshots
    PROVE  ForkIsSnapshot
<1> SUFFICES ASSUME NEW t \in Convs
             PROVE  LET f == forks[t]
                    IN  /\ IsPrefix(SubSeq(rows[f.from], 1, f.n), rows[t])
                        /\ \A i \in f.n + 1..Len(rows[t]) :
                              f.from # t => rows[t][i] \notin ToSet(rows[f.from])
                        /\ rows[t] # <<>> => t \in known
  BY DEF ForkIsSnapshot
<1>1. PICK s \in Convs, n \in Nat : s = forks[t].from /\ n = forks[t].n
  BY DEF Rows
<1>2. rows[t] \in Seq(1..last) /\ rows[s] \in Seq(1..last)
  BY DEF Rows
<1>3. SnapshotOf(rows[t], rows[s], n, s # t)
  BY <1>1 DEF Snapshots
<1>4. IsPrefix(SubSeq(rows[s], 1, n), rows[t])
  <2>1. n <= Len(rows[t]) /\ n <= Len(rows[s])
    BY <1>3 DEF SnapshotOf
  <2>2. \A i \in 1..n : rows[t][i] = rows[s][i]
    BY <1>3 DEF SnapshotOf
  <2>3. QED
    BY <2>1, <2>2, <1>2, PrefixTaken
<1>5. ASSUME NEW i \in n + 1..Len(rows[t]), s # t PROVE rows[t][i] \notin ToSet(rows[s])
  BY <1>2, <1>3, <1>5 DEF SnapshotOf, ToSet
<1>6. rows[t] # <<>> => t \in known
  BY DEF Rows
<1>7. QED
  BY <1>1, <1>4, <1>5, <1>6
-----------------------------------------------------------------------------
(* Induction over an interval.                                             *)

LEMMA Least ==
    ASSUME NEW T \in SUBSET Nat, T # {}
    PROVE  \E m \in T : \A k \in T : m <= k
<1>1. PICK n \in T : TRUE
  OBVIOUS
<1> DEFINE Below == {0 .. k : k \in {j \in T : j <= n}}
<1>2. IsWellFoundedOn(StrictSubsetOrdering(0 .. n), FiniteSubsetsOf(0 .. n))
  BY FS_StrictSubsetOrderingWellFounded
<1>3. Below \subseteq FiniteSubsetsOf(0 .. n) /\ Below # {}
  <2>1. \A k \in Nat : k <= n => 0 .. k \subseteq 0 .. n /\ IsFiniteSet(0 .. k)
    BY FS_Interval
  <2>2. 0 .. n \in Below
    OBVIOUS
  <2>3. QED
    BY <2>1, <2>2 DEF FiniteSubsetsOf
<1>4. PICK b \in Below : \A c \in Below : <<c, b>> \notin StrictSubsetOrdering(0 .. n)
  BY <1>2, <1>3, WFMin
<1>5. PICK m \in T : m <= n /\ b = 0 .. m
  OBVIOUS
<1>6. ASSUME NEW k \in T, k < m PROVE FALSE
  <2>1. 0 .. k \in Below
    BY <1>6, <1>5
  <2>2. 0 .. k \subseteq 0 .. m /\ m \in 0 .. m /\ m \notin 0 .. k /\ 0 .. m \subseteq 0 .. n
    BY <1>5, <1>6
  <2>3. <<0 .. k, 0 .. m>> \in StrictSubsetOrdering(0 .. n)
    BY <2>2 DEF StrictSubsetOrdering
  <2>4. QED
    BY <2>1, <2>3, <1>4, <1>5
<1>7. QED
  BY <1>6

\* A set that holds 0 and, with each number, the next one holds all of 0 .. n.
LEMMA Induction ==
    ASSUME NEW n \in Nat, NEW S, 0 \in S, \A i \in 1 .. n : i - 1 \in S => i \in S
    PROVE  \A i \in 0 .. n : i \in S
<1> DEFINE T == {i \in 0 .. n : i \notin S}
<1>1. ASSUME T # {} PROVE FALSE
  <2>1. PICK m \in T : \A k \in T : m <= k
    <3>1. T \in SUBSET Nat /\ T # {}
      BY <1>1
    <3> HIDE DEF T
    <3>2. QED
      BY <3>1, Least
  <2>2. m \in 1 .. n /\ m - 1 \in 0 .. n /\ ~(m <= m - 1)
    BY <2>1
  <2>3. m - 1 \in S
    BY <2>1, <2>2
  <2>4. QED
    BY <2>1, <2>2, <2>3
<1>2. QED
  BY <1>1


-----------------------------------------------------------------------------
(* What _load finds in a file.                                             *)

Lines(n) == Seq([entry : 0..n, nl : BOOLEAN])

LEMMA LinesType ==
    ASSUME NEW n \in Nat, NEW lines \in Lines(n)
    PROVE  /\ Len(lines) \in Nat
           /\ \A i \in 1..Len(lines) : lines[i].entry \in 0..n /\ lines[i].entry \in Nat
           /\ \A i \in 1..Len(lines) : lines[i].nl \in BOOLEAN
<1>1. Len(lines) \in Nat /\ \A i \in 1..Len(lines) : lines[i] \in [entry : 0..n, nl : BOOLEAN]
  <2>1. lines \in Seq([entry : 0..n, nl : BOOLEAN])
    BY DEF Lines
  <2>2. QED
    BY <2>1, LenProperties, ElementOfSeq
<1>2. \A i \in 1..Len(lines) : lines[i].entry \in 0..n /\ lines[i].nl \in BOOLEAN
  BY <1>1
<1>3. 0..n \subseteq Nat
  OBVIOUS
<1>4. QED
  BY <1>1, <1>2, <1>3

Climbs(seq) == \A i, j \in 1..Len(seq) : i < j => seq[i] < seq[j]

\* upTo[i] is what the first i lines hold.
Parses(upTo, lines, n) ==
    upTo = [i \in 0..n |->
               IF i = 0 THEN <<>>
               ELSE IF lines[i].entry = 0 THEN upTo[i - 1]
               ELSE Append(upTo[i - 1], lines[i].entry)]

LEMMA ParseExists ==
    ASSUME NEW lines, NEW n \in Nat
    PROVE  \E upTo : Parses(upTo, lines, n)
<1> DEFINE S == {i \in 0..n : \E upTo : Parses(upTo, lines, i)}
<1>1. 0 \in S
  <2>1. Parses([i \in 0..0 |-> <<>>], lines, 0)
    BY DEF Parses
  <2>2. QED
    BY <2>1
<1>2. ASSUME NEW i \in 1..n, i - 1 \in S PROVE i \in S
  <2>1. PICK upTo : Parses(upTo, lines, i - 1)
    BY <1>2
  <2> DEFINE more == IF lines[i].entry = 0 THEN upTo[i - 1] ELSE Append(upTo[i - 1], lines[i].entry)
             next == [j \in 0..i |-> IF j = i THEN more ELSE upTo[j]]
  <2>2. ASSUME NEW j \in 0..i
        PROVE  next[j] = IF j = 0 THEN <<>>
                         ELSE IF lines[j].entry = 0 THEN next[j - 1]
                         ELSE Append(next[j - 1], lines[j].entry)
    <3>1. CASE j = i
      <4>1. next[i] = more /\ next[i - 1] = upTo[i - 1] /\ i # 0
        OBVIOUS
      <4>2. QED
        BY <3>1, <4>1
    <3>2. CASE j # i
      <4>1. j \in 0..i - 1 /\ next[j] = upTo[j] /\ (j # 0 => next[j - 1] = upTo[j - 1])
        BY <3>2
      <4>2. QED
        BY <4>1, <2>1 DEF Parses
    <3>3. QED
      BY <3>1, <3>2
  <2>3. Parses(next, lines, i)
    BY <2>2 DEF Parses
  <2>4. QED
    BY <2>3
<1>3. n \in S
  <2>1. n \in 0..n
    OBVIOUS
  <2> HIDE DEF S
  <2>2. QED
    BY <1>1, <1>2, <2>1, Induction
<1>4. QED
  BY <1>3

\* Parsed is the last value of the loop.
ParsedBy(upTo, lines) ==
    /\ Parsed(lines) = upTo[Len(lines)]
    /\ upTo[0] = <<>>
    /\ \A i \in 1..Len(lines) :
          upTo[i] = IF lines[i].entry = 0 THEN upTo[i - 1]
                    ELSE Append(upTo[i - 1], lines[i].entry)

LEMMA ParsedParses ==
    ASSUME NEW lines, Len(lines) \in Nat
    PROVE  \E upTo : ParsedBy(upTo, lines)
<1> DEFINE upTo == CHOOSE upTo : Parses(upTo, lines, Len(lines))
<1>1. Parses(upTo, lines, Len(lines))
  BY ParseExists
<1>2. Parsed(lines) = upTo[Len(lines)]
  BY DEF Parsed, Parses
<1> HIDE DEF upTo
<1>3. upTo[0] = <<>>
  BY <1>1 DEF Parses
<1>4. \A i \in 1..Len(lines) :
         upTo[i] = IF lines[i].entry = 0 THEN upTo[i - 1] ELSE Append(upTo[i - 1], lines[i].entry)
  <2> TAKE i \in 1..Len(lines)
  <2>1. i \in 0..Len(lines) /\ i # 0
    OBVIOUS
  <2>2. QED
    BY <1>1, <2>1, Zenon DEF Parses
<1>5. QED
  BY <1>2, <1>3, <1>4 DEF ParsedBy

LEMMA AppendToSet ==
    ASSUME NEW S, NEW seq \in Seq(S), NEW e
    PROVE  ToSet(Append(seq, e)) = ToSet(seq) \cup {e}
<1>1. /\ DOMAIN Append(seq, e) = 1..Len(seq) + 1 /\ DOMAIN seq = 1..Len(seq) /\ Len(seq) \in Nat
      /\ Append(seq, e)[Len(seq) + 1] = e /\ \A i \in 1..Len(seq) : Append(seq, e)[i] = seq[i]
  OBVIOUS
<1>2. 1..Len(seq) + 1 = (1..Len(seq)) \cup {Len(seq) + 1}
  BY <1>1
<1>3. QED
  BY <1>1, <1>2 DEF ToSet

\* Its entries are those of the lines that parse.
LEMMA ParsedSet ==
    ASSUME NEW n \in Nat, NEW lines \in Lines(n)
    PROVE  /\ Parsed(lines) \in Seq(1..n)
           /\ ToSet(Parsed(lines)) = {lines[i].entry : i \in 1..Len(lines)} \ {0}
<1>1. Len(lines) \in Nat /\ \A i \in 1..Len(lines) : lines[i].entry \in 0..n
  BY LinesType
<1>2. PICK upTo : ParsedBy(upTo, lines)
  BY <1>1, ParsedParses
<1> DEFINE Found(i) == {lines[j].entry : j \in 1..i} \ {0}
           Good == {i \in 0..Len(lines) : upTo[i] \in Seq(1..n) /\ ToSet(upTo[i]) = Found(i)}
<1>3. 0 \in Good
  <2>1. upTo[0] = <<>> /\ <<>> \in Seq(1..n) /\ ToSet(<<>>) = {}
    BY <1>2 DEF ParsedBy, ToSet
  <2>2. Found(0) = {} /\ 0 \in 0..Len(lines)
    BY <1>1
  <2>3. QED
    BY <2>1, <2>2
<1>4. ASSUME NEW i \in 1..Len(lines), i - 1 \in Good PROVE i \in Good
  <2>1. upTo[i - 1] \in Seq(1..n) /\ ToSet(upTo[i - 1]) = Found(i - 1)
    BY <1>4
  <2>2. Found(i) = Found(i - 1) \cup ({lines[i].entry} \ {0})
    <3>1. 1..i = (1..i - 1) \cup {i}
      OBVIOUS
    <3>2. QED
      BY <3>1
  <2>3. i \in 0..Len(lines)
    OBVIOUS
  <2>4. CASE lines[i].entry = 0
    <3>1. upTo[i] = upTo[i - 1]
      BY <1>2, <2>4 DEF ParsedBy
    <3>2. QED
      BY <2>1, <2>2, <2>3, <2>4, <3>1
  <2>5. CASE lines[i].entry # 0
    <3>1. upTo[i] = Append(upTo[i - 1], lines[i].entry)
      BY <1>2, <2>5 DEF ParsedBy
    <3>2. lines[i].entry \in 1..n
      BY <1>1, <2>5
    <3>3. upTo[i] \in Seq(1..n)
      BY <2>1, <3>1, <3>2
    <3>4. ToSet(upTo[i]) = ToSet(upTo[i - 1]) \cup {lines[i].entry}
      BY <2>1, <3>1, AppendToSet
    <3>5. QED
      BY <2>1, <2>2, <2>3, <2>5, <3>3, <3>4
  <2>6. QED
    BY <2>4, <2>5
<1>5. Len(lines) \in Good
  <2>1. Len(lines) \in 0..Len(lines)
    BY <1>1
  <2> HIDE DEF Good
  <2>2. QED
    BY <1>1, <1>3, <1>4, <2>1, Induction
<1>6. Parsed(lines) = upTo[Len(lines)]
  BY <1>2 DEF ParsedBy
<1>7. QED
  BY <1>5, <1>6

\* Entries that grow from line to line grow from entry to entry.
Grows(lines) ==
    \A i, j \in 1..Len(lines) :
        i < j /\ lines[i].entry # 0 /\ lines[j].entry # 0 => lines[i].entry < lines[j].entry

LEMMA AppendClimbs ==
    ASSUME NEW seq \in Seq(Nat), NEW e \in Nat, Climbs(seq), \A x \in ToSet(seq) : x < e
    PROVE  Climbs(Append(seq, e))
<1>1. PICK more : more = Append(seq, e)
  OBVIOUS
<1>2. Len(seq) \in Nat /\ Len(more) = Len(seq) + 1 /\ more[Len(seq) + 1] = e
      /\ \A i \in 1..Len(seq) : more[i] = seq[i]
  BY <1>1
<1>3. \A i \in 1..Len(seq) : seq[i] < e
  BY DEF ToSet
<1>4. ASSUME NEW i \in 1..Len(more), NEW j \in 1..Len(more), i < j PROVE more[i] < more[j]
  <2>1. i \in 1..Len(seq)
    BY <1>2, <1>4
  <2>2. CASE j = Len(more)
    BY <2>1, <2>2, <1>2, <1>3
  <2>3. CASE j # Len(more)
    <3>1. j \in 1..Len(seq)
      BY <2>3, <1>2
    <3>2. seq[i] < seq[j]
      BY <2>1, <3>1, <1>4 DEF Climbs
    <3>3. QED
      BY <2>1, <3>1, <3>2, <1>2
  <2>4. QED
    BY <2>2, <2>3
<1>5. QED
  BY <1>1, <1>4 DEF Climbs

LEMMA ParsedClimbs ==
    ASSUME NEW n \in Nat, NEW lines \in Lines(n), Grows(lines)
    PROVE  Climbs(Parsed(lines))
<1>1. Len(lines) \in Nat /\ \A i \in 1..Len(lines) : lines[i].entry \in 0..n
  BY LinesType
<1>2. PICK upTo : ParsedBy(upTo, lines)
  BY <1>1, ParsedParses
<1> DEFINE Good == {i \in 0..Len(lines) :
                      /\ upTo[i] \in Seq(Nat) /\ Climbs(upTo[i])
                      /\ \A x \in ToSet(upTo[i]) : \E j \in 1..i : x # 0 /\ x = lines[j].entry}
<1>3. 0 \in Good
  <2>1. upTo[0] = <<>> /\ <<>> \in Seq(Nat) /\ ToSet(<<>>) = {} /\ Climbs(<<>>)
    BY <1>2 DEF ParsedBy, ToSet, Climbs
  <2>2. upTo[0] \in Seq(Nat) /\ Climbs(upTo[0]) /\ ToSet(upTo[0]) = {} /\ 0 \in 0..Len(lines)
    BY <2>1, <1>1
  <2>3. QED
    BY <2>2
<1>4. ASSUME NEW i \in 1..Len(lines), i - 1 \in Good PROVE i \in Good
  <2>1. /\ upTo[i - 1] \in Seq(Nat) /\ Climbs(upTo[i - 1])
        /\ \A x \in ToSet(upTo[i - 1]) : \E j \in 1..i - 1 : x # 0 /\ x = lines[j].entry
    BY <1>4
  <2>2. i \in 0..Len(lines) /\ \A j \in 1..i - 1 : j \in 1..i /\ j < i /\ j \in 1..Len(lines)
    OBVIOUS
  <2>3. CASE lines[i].entry = 0
    <3>1. upTo[i] = upTo[i - 1]
      BY <1>2, <2>3 DEF ParsedBy
    <3>2. \A x \in ToSet(upTo[i]) : \E j \in 1..i : x # 0 /\ x = lines[j].entry
      BY <2>1, <2>2, <3>1
    <3>3. QED
      BY <2>1, <2>2, <3>1, <3>2
  <2>4. CASE lines[i].entry # 0
    <3>1. upTo[i] = Append(upTo[i - 1], lines[i].entry)
      BY <1>2, <2>4 DEF ParsedBy
    <3>2. lines[i].entry \in Nat
      BY <1>1
    <3>3. \A x \in ToSet(upTo[i - 1]) : x < lines[i].entry
      BY <2>1, <2>2, <2>4 DEF Grows
    <3>4. upTo[i] \in Seq(Nat) /\ Climbs(upTo[i])
      BY <2>1, <3>1, <3>2, <3>3, AppendClimbs
    <3>5. ToSet(upTo[i]) = ToSet(upTo[i - 1]) \cup {lines[i].entry}
      BY <2>1, <3>1, AppendToSet
    <3>6. ASSUME NEW x \in ToSet(upTo[i]) PROVE \E j \in 1..i : x # 0 /\ x = lines[j].entry
      <4>1. CASE x \in ToSet(upTo[i - 1])
        BY <4>1, <2>1, <2>2
      <4>2. CASE x = lines[i].entry
        BY <4>2, <2>4
      <4>3. QED
        BY <3>5, <4>1, <4>2
    <3>7. QED
      BY <2>2, <3>4, <3>6
  <2>5. QED
    BY <2>3, <2>4
<1>5. Len(lines) \in Good
  <2>1. Len(lines) \in 0..Len(lines)
    BY <1>1
  <2> HIDE DEF Good
  <2>2. QED
    BY <1>1, <1>3, <1>4, <2>1, Induction
<1>6. Parsed(lines) = upTo[Len(lines)]
  BY <1>2 DEF ParsedBy
<1>7. QED
  BY <1>5, <1>6

\* If all lines parse, the entries are those of the lines, one by one.
LEMMA ParsedAll ==
    ASSUME NEW n \in Nat, NEW lines \in Lines(n), \A i \in 1..Len(lines) : lines[i].entry # 0
    PROVE  /\ Len(Parsed(lines)) = Len(lines)
           /\ \A i \in 1..Len(lines) : Parsed(lines)[i] = lines[i].entry
<1>1. Len(lines) \in Nat /\ \A i \in 1..Len(lines) : lines[i].entry \in Nat
  BY LinesType
<1>2. PICK upTo : ParsedBy(upTo, lines)
  BY <1>1, ParsedParses
<1> DEFINE Good == {i \in 0..Len(lines) :
                      /\ upTo[i] \in Seq(Nat) /\ Len(upTo[i]) = i
                      /\ \A j \in 1..i : upTo[i][j] = lines[j].entry}
<1>3. 0 \in Good
  <2>1. upTo[0] = <<>> /\ <<>> \in Seq(Nat) /\ Len(<<>>) = 0
    BY <1>2 DEF ParsedBy
  <2>2. upTo[0] \in Seq(Nat) /\ Len(upTo[0]) = 0 /\ 0 \in 0..Len(lines)
    BY <2>1, <1>1
  <2>3. \A j \in 1..0 : upTo[0][j] = lines[j].entry
    OBVIOUS
  <2>4. QED
    BY <2>2, <2>3
<1>4. ASSUME NEW i \in 1..Len(lines), i - 1 \in Good PROVE i \in Good
  <2>1. /\ upTo[i - 1] \in Seq(Nat) /\ Len(upTo[i - 1]) = i - 1
        /\ \A j \in 1..i - 1 : upTo[i - 1][j] = lines[j].entry
    BY <1>4
  <2>2. upTo[i] = Append(upTo[i - 1], lines[i].entry) /\ lines[i].entry \in Nat
    BY <1>1, <1>2 DEF ParsedBy
  <2>3. PICK s \in Seq(Nat) : s = upTo[i - 1]
    BY <2>1
  <2>4. PICK e \in Nat : e = lines[i].entry
    BY <2>2
  <2>5. PICK more : more = Append(s, e)
    OBVIOUS
  <2>6. /\ more \in Seq(Nat) /\ Len(more) = i /\ more[i] = e
        /\ \A j \in 1..i - 1 : more[j] = s[j]
    BY <2>1, <2>3, <2>5
  <2>7. \A j \in 1..i : more[j] = lines[j].entry
    BY <2>1, <2>3, <2>4, <2>6
  <2>8. upTo[i] = more /\ i \in 0..Len(lines)
    BY <2>2, <2>3, <2>4, <2>5
  <2>9. QED
    BY <2>6, <2>7, <2>8
<1>5. Len(lines) \in Good
  <2>1. Len(lines) \in 0..Len(lines)
    BY <1>1
  <2> HIDE DEF Good
  <2>2. QED
    BY <1>1, <1>3, <1>4, <2>1, Induction
<1>6. Parsed(lines) = upTo[Len(lines)]
  BY <1>2 DEF ParsedBy
<1>7. QED
  BY <1>5, <1>6

-----------------------------------------------------------------------------
(* Leaves and paths.                                                       *)

\* Entries 1 .. n, each below an earlier one or a root.
Parents(n) == n \in Nat /\ \A e \in 1..n : entries[e] \in 0..e - 1

LEMMA SeqFacts ==
    ASSUME NEW n \in Nat, NEW seq \in Seq(1..n)
    PROVE  /\ Len(seq) \in Nat /\ DOMAIN seq = 1..Len(seq)
           /\ \A i \in 1..Len(seq) : seq[i] \in 1..n /\ seq[i] \in Nat
           /\ \A e \in ToSet(seq) : \E i \in 1..Len(seq) : e = seq[i]
           /\ \A i \in 1..Len(seq) : seq[i] \in ToSet(seq)
           /\ ToSet(seq) \subseteq 1..n /\ 0 \notin ToSet(seq)
<1>1. Len(seq) \in Nat /\ DOMAIN seq = 1..Len(seq) /\ \A i \in 1..Len(seq) : seq[i] \in 1..n
  OBVIOUS
<1>2. 1..n \subseteq Nat /\ 0 \notin 1..n
  OBVIOUS
<1>3. ToSet(seq) = {seq[i] : i \in 1..Len(seq)}
  BY <1>1 DEF ToSet
<1>4. /\ \A e \in ToSet(seq) : \E i \in 1..Len(seq) : e = seq[i]
      /\ \A i \in 1..Len(seq) : seq[i] \in ToSet(seq)
  BY <1>3
<1>5. ToSet(seq) \subseteq 1..n /\ 0 \notin ToSet(seq)
  BY <1>1, <1>2, <1>3
<1>6. QED
  BY <1>1, <1>2, <1>4, <1>5

\* The last entry of a log is a leaf: what is below another entry is younger.
LEMMA LastIsLeaf ==
    ASSUME NEW n, Parents(n), NEW loaded \in Seq(1..n), Climbs(loaded), loaded # <<>>
    PROVE  /\ Len(loaded) \in 1..Len(loaded)
           /\ loaded[Len(loaded)] \in Leaves(loaded)
           /\ \A e \in Leaves(loaded) : e \in Nat /\ e <= loaded[Len(loaded)]
<1>1. Len(loaded) \in 1..Len(loaded)
  OBVIOUS
<1>2. n \in Nat /\ \A e \in 1..n : entries[e] \in 0..e - 1
  BY DEF Parents
<1>3. PICK top : top = loaded[Len(loaded)]
  OBVIOUS
<1>4. ASSUME NEW e \in ToSet(loaded) PROVE e \in Nat /\ e <= top /\ e \in 1..n
  <2>1. PICK i \in 1..Len(loaded) : e = loaded[i]
    BY <1>2, SeqFacts
  <2>2. loaded[i] \in 1..n /\ loaded[i] \in Nat
    BY <1>2, SeqFacts
  <2>3. CASE i = Len(loaded)
    BY <2>1, <2>2, <2>3, <1>3
  <2>4. CASE i # Len(loaded)
    <3>1. i < Len(loaded)
      BY <2>4
    <3>2. loaded[i] < loaded[Len(loaded)]
      BY <1>1, <3>1 DEF Climbs
    <3>3. top \in Nat
      BY <1>1, <1>2, <1>3, SeqFacts
    <3>4. QED
      BY <2>1, <2>2, <3>2, <3>3, <1>3
  <2>5. QED
    BY <2>3, <2>4
<1>5. top \in ToSet(loaded) /\ top \in Nat
  BY <1>1, <1>2, <1>3, SeqFacts
<1>6. ASSUME NEW x \in ToSet(loaded) PROVE entries[x] # top
  <2>1. x \in Nat /\ x <= top /\ entries[x] \in 0..x - 1
    BY <1>2, <1>4
  <2>2. QED
    BY <2>1, <1>5
<1>7. top \in Leaves(loaded)
  BY <1>5, <1>6 DEF Leaves
<1>8. QED
  BY <1>1, <1>3, <1>4, <1>7 DEF Leaves

LEMMA LastLeafIs ==
    ASSUME NEW n, Parents(n), NEW loaded \in Seq(1..n), Climbs(loaded)
    PROVE  /\ loaded = <<>> => LastLeaf(loaded) = 0
           /\ loaded # <<>> => LastLeaf(loaded) = loaded[Len(loaded)]
           /\ LastLeaf(loaded) \in 0..n
<1> DEFINE leaves == {i \in DOMAIN loaded : loaded[i] \in Leaves(loaded)}
<1>0. n \in Nat /\ DOMAIN loaded = 1..Len(loaded) /\ Len(loaded) \in Nat
      /\ \A i \in 1..Len(loaded) : loaded[i] \in 1..n
  BY SeqFacts DEF Parents
<1>1. LastLeaf(loaded) = IF leaves = {} THEN 0 ELSE loaded[Max(leaves)]
  BY DEF LastLeaf
<1>2. CASE loaded = <<>>
  <2>1. leaves = {}
    BY <1>2
  <2>2. QED
    BY <2>1, <1>0, <1>1, <1>2
<1>3. CASE loaded # <<>>
  <2>1. Len(loaded) \in 1..Len(loaded) /\ Len(loaded) \in leaves
    BY <1>0, <1>3, LastIsLeaf
  <2>2. \A i \in leaves : i \in Nat /\ i <= Len(loaded)
    BY <1>0
  <2> HIDE DEF leaves
  <2>3. Max(leaves) = Len(loaded)
    BY <2>1, <2>2 DEF Max
  <2>4. LastLeaf(loaded) = loaded[Len(loaded)]
    BY <1>1, <2>1, <2>3
  <2>5. loaded[Len(loaded)] \in 1..n
    BY <1>0, <2>1
  <2>6. loaded[Len(loaded)] \in 0..n
    BY <1>0, <2>5
  <2>7. QED
    BY <1>3, <2>4, <2>6
<1>4. QED
  BY <1>2, <1>3

\* path[e] is the path from the root, or from an orphan, to e.
Walks(path, loaded, n) ==
    path = [e \in 0..n |-> IF e \notin ToSet(loaded) THEN <<>> ELSE Append(path[entries[e]], e)]

LEMMA WalkExists ==
    ASSUME NEW n, Parents(n), NEW loaded \in Seq(1..n)
    PROVE  \E path : Walks(path, loaded, n)
<1>0. n \in Nat /\ \A e \in 1..n : entries[e] \in 0..e - 1
  BY DEF Parents
<1>1. 0 \notin ToSet(loaded)
  <2>1. n \in Nat
    BY <1>0
  <2>2. QED
    BY <2>1, SeqFacts
<1> DEFINE S == {i \in 0..n : \E path : Walks(path, loaded, i)}
<1>2. 0 \in S
  <2>1. Walks([e \in 0..0 |-> <<>>], loaded, 0)
    BY <1>1 DEF Walks
  <2>2. QED
    BY <2>1, <1>0
<1>3. ASSUME NEW i \in 1..n, i - 1 \in S PROVE i \in S
  <2>1. PICK path : Walks(path, loaded, i - 1)
    BY <1>3
  <2> DEFINE more == IF i \notin ToSet(loaded) THEN <<>> ELSE Append(path[entries[i]], i)
             next == [e \in 0..i |-> IF e = i THEN more ELSE path[e]]
  <2>2. ASSUME NEW e \in 0..i
        PROVE  next[e] = IF e \notin ToSet(loaded) THEN <<>> ELSE Append(next[entries[e]], e)
    <3>1. CASE e = i
      <4>1. entries[i] \in 0..i - 1
        BY <1>0
      <4>2. entries[i] \in 0..i /\ entries[i] # i
        BY <4>1
      <4>3. next[i] = more /\ next[entries[i]] = path[entries[i]]
        BY <4>2
      <4>4. QED
        BY <3>1, <4>3
    <3>2. CASE e # i
      <4>1. e \in 0..i - 1 /\ next[e] = path[e]
        BY <3>2
      <4>2. path[e] = IF e \notin ToSet(loaded) THEN <<>> ELSE Append(path[entries[e]], e)
        BY <4>1, <2>1, Zenon DEF Walks
      <4>3. CASE e = 0
        BY <4>1, <4>2, <4>3, <1>1
      <4>4. CASE e # 0
        <5>1. entries[e] \in 0..e - 1
          BY <4>1, <4>4, <1>0
        <5>2. entries[e] \in 0..i /\ entries[e] # i
          BY <4>1, <5>1
        <5>3. next[entries[e]] = path[entries[e]]
          BY <5>2
        <5>4. QED
          BY <4>1, <4>2, <5>3
      <4>5. QED
        BY <4>3, <4>4
    <3>3. QED
      BY <3>1, <3>2
  <2>3. Walks(next, loaded, i)
    BY <2>2 DEF Walks
  <2>4. QED
    BY <2>3
<1>4. n \in S
  <2>1. n \in 0..n
    BY <1>0
  <2> HIDE DEF S
  <2>2. QED
    BY <1>0, <1>2, <1>3, <2>1, Induction
<1>5. QED
  BY <1>4

Walked(path, loaded, n) ==
    /\ \A leaf : Path(loaded, leaf) = path[leaf]
    /\ \A e \in 0..n :
          path[e] = IF e \notin ToSet(loaded) THEN <<>> ELSE Append(path[entries[e]], e)

LEMMA PathWalks ==
    ASSUME NEW n, Parents(n), n = Len(entries), NEW loaded \in Seq(1..n)
    PROVE  \E path : Walked(path, loaded, n)
<1> DEFINE path == CHOOSE path : Walks(path, loaded, n)
<1>1. Walks(path, loaded, n)
  BY WalkExists
<1>2. \A leaf : Path(loaded, leaf) = path[leaf]
  BY DEF Path, Walks
<1> HIDE DEF path
<1>3. \A e \in 0..n :
         path[e] = IF e \notin ToSet(loaded) THEN <<>> ELSE Append(path[entries[e]], e)
  <2> TAKE e \in 0..n
  <2>1. QED
    BY <1>1, Zenon DEF Walks
<1>4. QED
  BY <1>2, <1>3 DEF Walked

\* Each entry is below the one before it.
IsChain(parents, seq) == \A i \in 2..Len(seq) : parents[seq[i]] = seq[i - 1]

\* A path to e in a tree of n entries.
Leads(path, e, n) ==
    /\ path \in Seq(1..n) /\ Climbs(path) /\ IsChain(entries, path)
    /\ \A x \in ToSet(path) : x <= e
    /\ path # <<>> => path[Len(path)] = e

LEMMA AppendLeads ==
    ASSUME NEW n \in Nat, NEW e \in 1..n, NEW p \in 0..e - 1, p = entries[e], NEW path, Leads(path, p, n)
    PROVE  Leads(Append(path, e), e, n)
<1>1. PICK more : more = Append(path, e)
  OBVIOUS
<1>2. path \in Seq(1..n) /\ path \in Seq(Nat) /\ Climbs(path) /\ IsChain(entries, path)
  <2>1. 1..n \subseteq Nat
    OBVIOUS
  <2>2. path \in Seq(1..n)
    BY DEF Leads
  <2>3. path \in Seq(Nat)
    BY <2>1, <2>2, SeqMonotonic
  <2>4. QED
    BY <2>2, <2>3 DEF Leads
<1>3. \A x \in ToSet(path) : x \in Nat /\ x <= p /\ x < e
  <2>1. \A x \in ToSet(path) : x \in 1..n
    BY <1>2, SeqFacts
  <2>2. \A x \in ToSet(path) : x <= p
    BY DEF Leads
  <2>3. QED
    BY <2>1, <2>2
<1>4. /\ more \in Seq(1..n) /\ Len(path) \in Nat /\ Len(more) = Len(path) + 1 /\ more[Len(path) + 1] = e
      /\ \A i \in 1..Len(path) : more[i] = path[i]
  BY <1>1, <1>2
<1>5. Climbs(more)
  BY <1>1, <1>2, <1>3, AppendClimbs
<1>6. ASSUME NEW i \in 2..Len(more) PROVE entries[more[i]] = more[i - 1]
  <2>1. i - 1 \in 1..Len(path) /\ more[i - 1] = path[i - 1]
    <3>1. i - 1 \in 1..Len(path)
      BY <1>4
    <3>2. QED
      BY <3>1, <1>4
  <2>2. CASE i = Len(more)
    <3>1. path # <<>> /\ i - 1 = Len(path) /\ path[Len(path)] = p
      BY <2>1, <2>2, <1>4 DEF Leads
    <3>2. more[i] = e
      BY <2>2, <1>4
    <3>3. QED
      BY <2>1, <3>1, <3>2
  <2>3. CASE i # Len(more)
    <3>1. i \in 2..Len(path) /\ i \in 1..Len(path)
      BY <2>3, <1>4
    <3>2. entries[path[i]] = path[i - 1]
      BY <1>2, <3>1 DEF IsChain
    <3>3. QED
      BY <2>1, <3>1, <3>2, <1>4
  <2>4. QED
    BY <2>2, <2>3
<1>7. ToSet(more) = ToSet(path) \cup {e}
  BY <1>1, <1>2, AppendToSet
<1>8. \A x \in ToSet(more) : x <= e
  BY <1>3, <1>7
<1>9. more[Len(more)] = e
  BY <1>4
<1>10. QED
  BY <1>1, <1>4, <1>5, <1>6, <1>8, <1>9 DEF Leads, IsChain

LEMMA PathLeads ==
    ASSUME NEW n, Parents(n), n = Len(entries), NEW loaded \in Seq(1..n), NEW leaf \in 0..n
    PROVE  Leads(Path(loaded, leaf), leaf, n)
<1>0. n \in Nat /\ \A e \in 1..n : entries[e] \in 0..e - 1
  BY DEF Parents
<1>1. PICK path : Walked(path, loaded, n)
  BY PathWalks
<1>2. ASSUME NEW e \in 0..n, \A x \in 0..e - 1 : Leads(path[x], x, n) PROVE Leads(path[e], e, n)
  <2>1. CASE e \notin ToSet(loaded)
    <3>1. path[e] = <<>>
      BY <1>1, <2>1 DEF Walked
    <3>2. Leads(<<>>, e, n)
      BY DEF Leads, Climbs, IsChain, ToSet
    <3>3. QED
      BY <3>1, <3>2
  <2>2. CASE e \in ToSet(loaded)
    <3>1. e \in 1..n
      BY <2>2, <1>0, SeqFacts
    <3>2. path[e] = Append(path[entries[e]], e)
      BY <1>1, <2>2 DEF Walked
    <3>3. PICK p \in 0..e - 1 : p = entries[e]
      BY <1>0, <3>1
    <3>4. Leads(path[p], p, n)
      BY <1>2
    <3>5. Leads(Append(path[p], e), e, n)
      BY <1>0, <3>1, <3>3, <3>4, AppendLeads
    <3>6. QED
      BY <3>2, <3>3, <3>5
  <2>3. QED
    BY <2>1, <2>2
<1> DEFINE S == {i \in 0..n : \A x \in 0..i : Leads(path[x], x, n)}
<1>3. 0 \in S
  <2>1. 0 \in 0..n /\ \A x \in 0..0 - 1 : Leads(path[x], x, n)
    BY <1>0
  <2>2. Leads(path[0], 0, n)
    BY <2>1, <1>2
  <2>3. \A x \in 0..0 : x = 0
    OBVIOUS
  <2>4. QED
    BY <2>1, <2>2, <2>3
<1>4. ASSUME NEW i \in 1..n, i - 1 \in S PROVE i \in S
  <2>1. \A x \in 0..i - 1 : Leads(path[x], x, n)
    BY <1>4
  <2>2. i \in 0..n /\ \A x \in 0..i : x \in 0..i - 1 \/ x = i
    OBVIOUS
  <2>3. Leads(path[i], i, n)
    BY <2>1, <2>2, <1>2
  <2>4. QED
    BY <2>1, <2>2, <2>3
<1>5. n \in S
  <2>1. n \in 0..n
    BY <1>0
  <2> HIDE DEF S
  <2>2. QED
    BY <1>0, <1>3, <1>4, <2>1, Induction
<1>6. Path(loaded, leaf) = path[leaf]
  BY <1>1 DEF Walked
<1>7. QED
  BY <1>5, <1>6

\* Of a log in which each entry is below the one before it, the path to the
\* last entry leaves nothing out.
LEMMA ChainIsPath ==
    ASSUME NEW n, Parents(n), n = Len(entries), NEW loaded \in Seq(1..n), Climbs(loaded),
           IsChain(entries, loaded)
    PROVE  Path(loaded, LastLeaf(loaded)) = loaded
<1>0. n \in Nat /\ \A e \in 1..n : entries[e] \in 0..e - 1
  BY DEF Parents
<1>1. PICK path : Walked(path, loaded, n)
  BY PathWalks
<1>2. \A e \in 0..n : path[e] = IF e \notin ToSet(loaded) THEN <<>> ELSE Append(path[entries[e]], e)
  BY <1>1 DEF Walked
<1>3. Len(loaded) \in Nat /\ \A i \in 1..Len(loaded) : loaded[i] \in 1..n /\ loaded[i] \in ToSet(loaded)
  BY <1>0, SeqFacts
<1> DEFINE Upto(p, i) == p \in Seq(1..n) /\ Len(p) = i /\ \A j \in 1..i : p[j] = loaded[j]
           S == {i \in 0..Len(loaded) : i # 0 => Upto(path[loaded[i]], i)}
<1>4. 0 \in S
  BY <1>3
<1>5. ASSUME NEW i \in 1..Len(loaded), i - 1 \in S PROVE i \in S
  <2>1. PICK e \in 1..n : e = loaded[i] /\ e \in ToSet(loaded)
    BY <1>3
  <2>2. PICK before : before = path[entries[e]]
    OBVIOUS
  <2>3. path[e] = Append(before, e)
    <3>1. e \in 0..n
      BY <1>0
    <3>2. QED
      BY <3>1, <1>2, <2>1, <2>2
  <2>4. Upto(before, i - 1)
    <3>1. CASE i = 1
      <4>1. entries[e] \notin ToSet(loaded)
        <5>1. ASSUME NEW x \in ToSet(loaded) PROVE x \in Nat /\ e <= x
          <6>1. PICK k \in 1..Len(loaded) : x = loaded[k]
            BY <1>0, SeqFacts
          <6>2. x \in Nat
            BY <6>1, <1>3
          <6>3. CASE k = 1
            BY <6>1, <6>2, <6>3, <3>1, <2>1
          <6>4. CASE k # 1
            <7>1. 1 \in 1..Len(loaded) /\ 1 < k
              BY <6>4
            <7>2. loaded[1] < loaded[k]
              BY <7>1 DEF Climbs
            <7>3. QED
              BY <7>2, <6>1, <6>2, <3>1, <2>1
          <6>5. QED
            BY <6>3, <6>4
        <5>2. entries[e] \in 0..e - 1
          BY <1>0
        <5>3. QED
          BY <5>1, <5>2
      <4>2. entries[e] \in 0..n
        BY <1>0
      <4>3. before = <<>>
        BY <1>2, <2>2, <4>1, <4>2
      <4>4. QED
        BY <3>1, <4>3
    <3>2. CASE i # 1
      <4>1. i \in 2..Len(loaded) /\ i - 1 # 0
        BY <3>2
      <4>2. entries[e] = loaded[i - 1]
        BY <2>1, <4>1 DEF IsChain
      <4>3. Upto(path[loaded[i - 1]], i - 1)
        BY <1>5, <4>1
      <4>4. QED
        BY <2>2, <4>2, <4>3
    <3>3. QED
      BY <3>1, <3>2
  <2>5. PICK more : more = Append(before, e)
    OBVIOUS
  <2>6. /\ more \in Seq(1..n) /\ Len(more) = i /\ more[i] = e
        /\ \A j \in 1..i - 1 : more[j] = before[j]
    BY <2>1, <2>4, <2>5
  <2>7. ASSUME NEW j \in 1..i PROVE more[j] = loaded[j]
    <3>1. CASE j = i
      BY <3>1, <2>1, <2>6
    <3>2. CASE j \in 1..i - 1
      BY <3>2, <2>4, <2>6
    <3>3. j = i \/ j \in 1..i - 1
      OBVIOUS
    <3>4. QED
      BY <3>1, <3>2, <3>3
  <2>8. Upto(path[loaded[i]], i) /\ i \in 0..Len(loaded)
    BY <2>1, <2>3, <2>5, <2>6, <2>7
  <2> HIDE DEF Upto
  <2>9. QED
    BY <2>8
<1>6. Len(loaded) \in S
  <2>1. Len(loaded) \in 0..Len(loaded)
    BY <1>3
  <2> HIDE DEF S
  <2>2. QED
    BY <1>3, <1>4, <1>5, <2>1, Induction
<1>7. CASE loaded = <<>>
  <2>1. LastLeaf(loaded) = 0 /\ 0 \in 0..n /\ 0 \notin ToSet(loaded)
    <3>1. LastLeaf(loaded) = 0
      BY <1>7, LastLeafIs
    <3>2. 0 \in 0..n
      BY <1>0
    <3>3. QED
      BY <1>0, <3>1, <3>2, SeqFacts
  <2>2. Path(loaded, 0) = path[0] /\ path[0] = <<>>
    BY <1>1, <1>2, <2>1 DEF Walked
  <2>3. QED
    BY <2>1, <2>2, <1>7
<1>8. CASE loaded # <<>>
  <2>1. LastLeaf(loaded) = loaded[Len(loaded)]
    BY <1>8, LastLeafIs
  <2>2. PICK p : p = path[loaded[Len(loaded)]]
    OBVIOUS
  <2>3. Len(loaded) # 0
    BY <1>8
  <2>4. Upto(p, Len(loaded))
    BY <1>6, <2>2, <2>3
  <2>5. p = loaded
    BY <2>4, SeqEqual
  <2>6. QED
    BY <2>1, <2>2, <2>5, <1>1 DEF Walked
<1>9. QED
  BY <1>7, <1>8

-----------------------------------------------------------------------------
(* What a write does to one file.                                          *)

IsOpen(lines) == lines # <<>> /\ ~Last(lines).nl

\* A file and the entries whose append() returned: entries grow, only the last
\* line can be unfinished, and the entry of that line has not returned.
Sound(lines, done) ==
    /\ Grows(lines)
    /\ lines = <<>> => done = <<>>
    /\ \A i \in 1..Len(lines) - 1 : lines[i].nl
    /\ IsOpen(lines) => \A k \in 1..Len(done) : done[k] # lines[Len(lines)].entry

\* e is younger than all that was written.
Above(e, lines, done) ==
    /\ \A i \in 1..Len(lines) : lines[i].entry < e
    /\ \A k \in 1..Len(done) : done[k] < e

\* new is lines with entry added.
Added(new, lines, entry, nl) ==
    /\ Len(new) = IF IsOpen(lines) THEN Len(lines) ELSE Len(lines) + 1
    /\ Len(new) \in 1..Len(lines) + 1
    /\ new[Len(new)] = [entry |-> IF IsOpen(lines) THEN 0 ELSE entry, nl |-> nl]
    /\ \A i \in 1..Len(new) - 1 : i \in 1..Len(lines) /\ new[i] = lines[i]

LEMMA AddLineAdds ==
    ASSUME NEW n \in Nat, NEW lines \in Lines(n), NEW entry \in 0..n, NEW nl \in BOOLEAN
    PROVE  /\ AddLine(lines, entry, nl) \in Lines(n)
           /\ Added(AddLine(lines, entry, nl), lines, entry, nl)
<1> DEFINE L == [entry : 0..n, nl : BOOLEAN]
<1>1. lines \in Seq(L) /\ Len(lines) \in Nat
  BY DEF Lines
<1>2. CASE IsOpen(lines)
  <2>1. PICK z : z = [entry |-> 0, nl |-> nl]
    OBVIOUS
  <2>2. z \in L
    BY <2>1
  <2>3. lines # <<>>
    BY <1>2 DEF IsOpen
  <2> HIDE DEF L
  <2>4. PICK front : front = Front(lines)
    OBVIOUS
  <2>5. front \in Seq(L) /\ Len(front) = Len(lines) - 1 /\ Len(lines) \in 1..Len(lines)
        /\ \A i \in 1..Len(lines) - 1 : front[i] = lines[i]
    <3>1. PICK m \in Nat : m = Len(lines) - 1 /\ Len(lines) \in 1..Len(lines)
      BY <1>1, <2>3
    <3>2. \A i \in 1..m : lines[i] \in L
      BY <1>1, <3>1
    <3>3. front = SubSeq(lines, 1, m)
      BY <2>4, <3>1 DEF Front
    <3>4. /\ front \in Seq(L)
          /\ Len(front) = IF 1 <= m THEN m - 1 + 1 ELSE 0
          /\ \A i \in 1..m - 1 + 1 : front[i] = lines[1 + i - 1]
      BY <3>2, <3>3, SubSeqProperties
    <3>5. Len(front) = m
      BY ONLY <3>4, m \in Nat
    <3>6. ASSUME NEW i \in 1..m PROVE front[i] = lines[i]
      <4>1. 1 + i - 1 = i /\ i \in 1..m - 1 + 1
        OBVIOUS
      <4>2. QED
        BY <3>4, <4>1
    <3>7. QED
      BY <3>1, <3>4, <3>5, <3>6
  <2>6. AddLine(lines, entry, nl) = Append(front, z)
    BY <1>2, <2>1, <2>4, Zenon DEF AddLine, IsOpen
  <2>7. PICK new : new = Append(front, z)
    OBVIOUS
  <2>8. /\ new \in Seq(L) /\ Len(new) = Len(lines) /\ new[Len(lines)] = z
        /\ \A i \in 1..Len(lines) - 1 : new[i] = lines[i]
    BY <2>2, <2>5, <2>7
  <2>9. \A i \in 1..Len(lines) - 1 : i \in 1..Len(lines)
    BY <1>1
  <2>10. Len(lines) \in 1..Len(lines) + 1
    BY <2>5
  <2>11. Added(new, lines, entry, nl)
    BY <1>2, <2>1, <2>8, <2>9, <2>10 DEF Added
  <2>12. QED
    BY <2>6, <2>7, <2>8, <2>11 DEF Lines, L
<1>3. CASE ~IsOpen(lines)
  <2>1. PICK z : z = [entry |-> entry, nl |-> nl]
    OBVIOUS
  <2>2. z \in L
    BY <2>1
  <2> HIDE DEF L
  <2>3. AddLine(lines, entry, nl) = Append(lines, z)
    BY <1>3, <2>1, Zenon DEF AddLine, IsOpen
  <2>4. PICK new : new = Append(lines, z)
    OBVIOUS
  <2>5. /\ new \in Seq(L) /\ Len(new) = Len(lines) + 1 /\ new[Len(lines) + 1] = z
        /\ \A i \in 1..Len(lines) : new[i] = lines[i]
    BY <1>1, <2>2, <2>4
  <2>6. Len(new) \in 1..Len(lines) + 1 /\ Len(new) - 1 = Len(lines)
    BY <1>1, <2>5
  <2>7. Added(new, lines, entry, nl)
    BY <1>3, <2>1, <2>5, <2>6 DEF Added
  <2>8. QED
    BY <2>3, <2>4, <2>5, <2>7 DEF Lines, L
<1>4. QED
  BY <1>2, <1>3

\* The entry of the last line after a write.
LEMMA NewLast ==
    ASSUME NEW new, NEW lines, NEW entry, NEW nl \in BOOLEAN, Added(new, lines, entry, nl)
    PROVE  /\ new[Len(new)].entry = IF IsOpen(lines) THEN 0 ELSE entry
           /\ new[Len(new)].nl = nl
           /\ new # <<>>
           /\ IsOpen(new) <=> ~nl
<1>1. new[Len(new)] = [entry |-> IF IsOpen(lines) THEN 0 ELSE entry, nl |-> nl]
  BY DEF Added
<1>2. new # <<>>
  BY DEF Added
<1>3. new[Len(new)].entry = (IF IsOpen(lines) THEN 0 ELSE entry) /\ new[Len(new)].nl = nl
  BY <1>1
<1>4. IsOpen(new) <=> ~nl
  BY <1>2, <1>3 DEF IsOpen, Last
<1>5. QED
  BY <1>2, <1>3, <1>4

\* A file stays sound when a younger entry is added or torn.
LEMMA AddLineSound ==
    ASSUME NEW n \in Nat, NEW lines \in Lines(n), NEW done \in Seq(1..n), Sound(lines, done),
           NEW e \in 1..n, Above(e, lines, done), NEW entry \in {0, e}, NEW nl \in BOOLEAN,
           NEW new \in Lines(n), Added(new, lines, entry, nl), NEW later \in Seq(1..n),
           ~nl => later = done
    PROVE  Sound(new, later)
<1>1. /\ Len(lines) \in Nat /\ Len(new) \in Nat /\ Len(done) \in Nat
      /\ \A i \in 1..Len(lines) : lines[i].entry \in Nat
      /\ \A i \in 1..Len(new) : new[i].entry \in Nat
  <2>1. Len(lines) \in Nat /\ \A i \in 1..Len(lines) : lines[i].entry \in Nat
    BY LinesType
  <2>2. Len(new) \in Nat /\ \A i \in 1..Len(new) : new[i].entry \in Nat
    BY LinesType
  <2>3. Len(done) \in Nat
    OBVIOUS
  <2>4. QED
    BY <2>1, <2>2, <2>3
<1>2. /\ \A i \in 1..Len(new) - 1 : i \in 1..Len(lines) /\ new[i] = lines[i]
      /\ Len(new) = IF IsOpen(lines) THEN Len(lines) ELSE Len(lines) + 1
      /\ Len(new) \in 1..Len(lines) + 1
  BY DEF Added
<1>3. /\ new[Len(new)].entry = IF IsOpen(lines) THEN 0 ELSE entry
      /\ IsOpen(new) <=> ~nl
  BY NewLast
<1>4. new[Len(new)].entry \in {0, e}
  BY <1>3
<1>5. Grows(new)
  <2> SUFFICES ASSUME NEW i \in 1..Len(new), NEW j \in 1..Len(new),
                      i < j, new[i].entry # 0, new[j].entry # 0
               PROVE  new[i].entry < new[j].entry
    BY DEF Grows
  <2>1. i \in 1..Len(new) - 1 /\ i \in 1..Len(lines) /\ new[i] = lines[i]
    <3>1. i \in 1..Len(new) - 1
      BY <1>1
    <3>2. QED
      BY <3>1, <1>2
  <2>2. CASE j = Len(new)
    <3>1. new[j].entry = e
      BY <2>2, <1>4
    <3>2. lines[i].entry < e
      BY <2>1 DEF Above
    <3>3. QED
      BY <2>1, <3>1, <3>2
  <2>3. CASE j # Len(new)
    <3>1. j \in 1..Len(new) - 1
      BY <2>3, <1>1
    <3>2. j \in 1..Len(lines) /\ new[j] = lines[j]
      BY <3>1, <1>2
    <3>3. lines[i].entry < lines[j].entry
      BY <2>1, <3>2 DEF Sound, Grows
    <3>4. QED
      BY <2>1, <3>2, <3>3
  <2>4. QED
    BY <2>2, <2>3
<1>6. ASSUME NEW i \in 1..Len(new) - 1 PROVE new[i].nl
  <2>1. i \in 1..Len(lines) /\ new[i] = lines[i]
    BY <1>2
  <2>2. CASE i \in 1..Len(lines) - 1
    BY <2>1, <2>2 DEF Sound
  <2>3. CASE i \notin 1..Len(lines) - 1
    <3>1. i = Len(lines) /\ lines # <<>>
      BY <2>1, <2>3, <1>1
    <3>2. ~IsOpen(lines)
      BY <3>1, <1>1, <1>2
    <3>3. QED
      BY <2>1, <3>1, <3>2 DEF IsOpen, Last
  <2>4. QED
    BY <2>2, <2>3
<1>7. ASSUME IsOpen(new), NEW k \in 1..Len(later) PROVE later[k] # new[Len(new)].entry
  <2>1. later = done
    BY <1>3, <1>7
  <2>2. done[k] \in 1..n /\ done[k] < e
    BY <2>1 DEF Above
  <2>3. QED
    BY <2>1, <2>2, <1>4
<1>8. new # <<>>
  BY NewLast
<1>9. QED
  BY <1>5, <1>6, <1>7, <1>8 DEF Sound

\* Nothing that returned before is lost by the write.
LEMMA AddLineKeeps ==
    ASSUME NEW n \in Nat, NEW lines \in Lines(n), NEW done \in Seq(1..n), Sound(lines, done),
           NEW entry, NEW nl \in BOOLEAN, NEW new, Added(new, lines, entry, nl),
           NEW k \in 1..Len(done), NEW i \in 1..Len(lines), lines[i].entry = done[k]
    PROVE  \E j \in 1..Len(new) : new[j].entry = done[k]
<1>1. Len(lines) \in Nat
  BY LinesType
<1>2. /\ \A j \in 1..Len(new) - 1 : new[j] = lines[j]
      /\ Len(new) = IF IsOpen(lines) THEN Len(lines) ELSE Len(lines) + 1
  BY DEF Added
<1>3. i \in 1..Len(new) - 1
  <2>1. CASE IsOpen(lines)
    <3>1. done[k] # lines[Len(lines)].entry
      BY <2>1 DEF Sound
    <3>2. i # Len(lines)
      BY <3>1
    <3>3. QED
      BY <3>2, <2>1, <1>1, <1>2
  <2>2. CASE ~IsOpen(lines)
    BY <2>2, <1>1, <1>2
  <2>3. QED
    BY <2>1, <2>2
<1>4. i \in 1..Len(new)
  BY <1>1, <1>2, <1>3
<1>5. QED
  BY <1>2, <1>3, <1>4

\* What is younger than the new entry is still younger than all.
LEMMA AddLineBelow ==
    ASSUME NEW n \in Nat, NEW lines \in Lines(n), NEW done \in Seq(1..n), NEW e \in 1..n, NEW d \in Nat,
           e < d, Above(d, lines, done), NEW new, Added(new, lines, e, TRUE)
    PROVE  Above(d, new, Append(done, e))
<1>1. PICK more : more = Append(done, e)
  OBVIOUS
<1>2. Len(done) \in Nat /\ Len(more) = Len(done) + 1 /\ more[Len(done) + 1] = e
      /\ \A k \in 1..Len(done) : more[k] = done[k]
  BY <1>1
<1>3. ASSUME NEW k \in 1..Len(more) PROVE more[k] < d
  <2>1. CASE k \in 1..Len(done)
    BY <2>1, <1>2 DEF Above
  <2>2. CASE k = Len(done) + 1
    BY <2>2, <1>2
  <2>3. QED
    BY <2>1, <2>2, <1>2
<1>4. ASSUME NEW i \in 1..Len(new) PROVE new[i].entry < d
  <2>1. Len(new) \in Nat
    BY LinesType DEF Added
  <2>2. CASE i = Len(new)
    <3>1. new[Len(new)].entry = IF IsOpen(lines) THEN 0 ELSE e
      BY NewLast
    <3>2. QED
      BY <2>2, <3>1
  <2>3. CASE i # Len(new)
    <3>1. i \in 1..Len(new) - 1
      BY <2>1, <2>3
    <3>2. i \in 1..Len(lines) /\ new[i] = lines[i]
      BY <3>1 DEF Added
    <3>3. QED
      BY <3>2 DEF Above
  <2>4. QED
    BY <2>2, <2>3
<1>5. QED
  BY <1>1, <1>3, <1>4 DEF Above

-----------------------------------------------------------------------------
(* The state of the log.                                                   *)

Tree ==
    /\ entries \in Seq(Nat) /\ Len(entries) <= MaxEntries /\ Parents(Len(entries))
    /\ file \in [Convs -> Lines(Len(entries))]
    /\ returned \in [Convs -> Seq(1..Len(entries))]
    /\ server \in [conv : Convs \cup {NoConv}, user : 0..Len(entries)]
    /\ server.conv = NoConv => server.user = 0
    /\ server.conv # NoConv => server.conv \in known
    /\ copying \in [conv : Convs \cup {NoConv}, todo : Seq(1..Len(entries))]
    /\ copying.conv = NoConv => copying.todo = <<>>
    /\ copying.conv # NoConv => copying.conv # server.conv
    /\ offered \subseteq Convs /\ tears \in 0..MaxTears

Logs == \A c \in Convs : Sound(file[c], returned[c])

\* What the CLI still has to copy is younger than what it has copied.
Copy ==
    copying.conv # NoConv =>
        /\ Climbs(copying.todo) /\ IsChain(entries, copying.todo)
        /\ \A i \in 1..Len(copying.todo) :
              Above(copying.todo[i], file[copying.conv], returned[copying.conv])

\* The entries that are lost, and the files that will lose the next one.
LostIn(files, done) ==
    {p \in Convs \X Nat : /\ p[2] \in ToSet(done[p[1]])
                          /\ \A i \in 1..Len(files[p[1]]) : files[p[1]][i].entry # p[2]}
OpenIn(files) == {c \in Convs : IsOpen(files[c])}

Pays(lost, open, torn) ==
    /\ IsFiniteSet(lost) /\ IsFiniteSet(open)
    /\ Cardinality(lost) + Cardinality(open) <= torn

Costs == Pays(LostIn(file, returned), OpenIn(file), tears)

\* Without a torn write a file holds what returned, each entry below the one
\* before it, and so does what is about to be written.
Entire(parents, lines, done) ==
    /\ Len(lines) = Len(done)
    /\ \A i \in 1..Len(done) : lines[i].entry = done[i] /\ lines[i].nl
    /\ IsChain(parents, done)

Whole ==
    tears = 0 =>
        /\ \A c \in Convs : Entire(entries, file[c], returned[c])
        /\ server.user # 0 => /\ returned[server.conv] # <<>>
                              /\ Last(returned[server.conv]) = server.user
        /\ (copying.conv # NoConv /\ copying.todo # <<>> /\ returned[copying.conv] # <<>>) =>
              entries[Head(copying.todo)] = Last(returned[copying.conv])

LogInv == Tree /\ Logs /\ Copy /\ Costs /\ Whole

-----------------------------------------------------------------------------
(* What torn writes cost.                                                  *)

\* What is lost and unfinished is counted in finite sets.
LEMMA Counting ==
    ASSUME NEW A, IsFiniteSet(A), NEW a
    PROVE  /\ Cardinality(A) \in Nat
           /\ \A B \in SUBSET A : /\ IsFiniteSet(B) /\ Cardinality(B) \in Nat
                                 /\ Cardinality(B) <= Cardinality(A)
           /\ \A B \in SUBSET (A \cup {a}) : /\ IsFiniteSet(B) /\ Cardinality(B) \in Nat
                                           /\ Cardinality(B) <= Cardinality(A) + 1
           /\ a \in A => \A B \in SUBSET (A \ {a}) : /\ IsFiniteSet(B) /\ Cardinality(B) \in Nat
                                                   /\ Cardinality(B) <= Cardinality(A) - 1
<1>1. ASSUME NEW C, IsFiniteSet(C), NEW B \in SUBSET C
      PROVE  IsFiniteSet(B) /\ Cardinality(B) \in Nat /\ Cardinality(B) <= Cardinality(C)
  BY <1>1, FS_Subset, FS_CardinalityType
<1>2. Cardinality(A) \in Nat
  BY FS_CardinalityType
<1>3. /\ IsFiniteSet(A \cup {a})
      /\ Cardinality(A \cup {a}) = IF a \in A THEN Cardinality(A) ELSE Cardinality(A) + 1
  BY FS_AddElement
<1>4. ASSUME NEW B \in SUBSET (A \cup {a})
      PROVE  IsFiniteSet(B) /\ Cardinality(B) \in Nat /\ Cardinality(B) <= Cardinality(A) + 1
  <2>1. IsFiniteSet(B) /\ Cardinality(B) \in Nat /\ Cardinality(B) <= Cardinality(A \cup {a})
    BY <1>1, <1>3
  <2>2. QED
    BY <2>1, <1>2, <1>3
<1>5. ASSUME a \in A, NEW B \in SUBSET (A \ {a})
      PROVE  IsFiniteSet(B) /\ Cardinality(B) \in Nat /\ Cardinality(B) <= Cardinality(A) - 1
  <2>1. IsFiniteSet(A \ {a}) /\ Cardinality(A \ {a}) = Cardinality(A) - 1
    BY <1>5, FS_RemoveElement
  <2>2. IsFiniteSet(B) /\ Cardinality(B) \in Nat /\ Cardinality(B) <= Cardinality(A \ {a})
    BY <1>1, <1>5, <2>1
  <2>3. QED
    BY <2>1, <2>2
<1>6. QED
  BY <1>1, <1>2, <1>4, <1>5

\* Nothing more is lost or unfinished.
LEMMA PaysLess ==
    ASSUME NEW torn \in Nat, NEW lost, NEW open, Pays(lost, open, torn),
           NEW lost2, lost2 \subseteq lost, NEW open2, open2 \subseteq open
    PROVE  Pays(lost2, open2, torn)
<1>1. IsFiniteSet(lost) /\ IsFiniteSet(open) /\ Cardinality(lost) + Cardinality(open) <= torn
  BY DEF Pays
<1>2. /\ IsFiniteSet(lost2) /\ Cardinality(lost2) \in Nat /\ Cardinality(lost2) <= Cardinality(lost)
      /\ Cardinality(lost) \in Nat
  BY <1>1, Counting
<1>3. /\ IsFiniteSet(open2) /\ Cardinality(open2) \in Nat /\ Cardinality(open2) <= Cardinality(open)
      /\ Cardinality(open) \in Nat
  BY <1>1, Counting
<1>4. QED
  BY <1>1, <1>2, <1>3 DEF Pays

\* One more entry is lost, one unfinished line less is left.
OneLost(lost2, lost) == \E x : lost2 \subseteq lost \cup {x}
OneClosed(open2, open) == \E c \in open : open2 \subseteq open \ {c}

\* The unfinished line that swallowed an entry pays for it.
LEMMA PaysBack ==
    ASSUME NEW torn \in Nat, NEW lost, NEW open, Pays(lost, open, torn),
           NEW lost2, OneLost(lost2, lost), NEW open2, OneClosed(open2, open)
    PROVE  Pays(lost2, open2, torn)
<1>1. IsFiniteSet(lost) /\ IsFiniteSet(open) /\ Cardinality(lost) + Cardinality(open) <= torn
  BY DEF Pays
<1>2. /\ IsFiniteSet(lost2) /\ Cardinality(lost2) \in Nat /\ Cardinality(lost2) <= Cardinality(lost) + 1
      /\ Cardinality(lost) \in Nat
  <2>1. PICK x : lost2 \subseteq lost \cup {x}
    BY DEF OneLost
  <2>2. QED
    BY <1>1, <2>1, Counting
<1>3. /\ IsFiniteSet(open2) /\ Cardinality(open2) \in Nat /\ Cardinality(open2) <= Cardinality(open) - 1
      /\ Cardinality(open) \in Nat
  <2>1. PICK c \in open : open2 \subseteq open \ {c}
    BY DEF OneClosed
  <2>2. QED
    BY <1>1, <2>1, Counting
<1>4. QED
  BY <1>1, <1>2, <1>3 DEF Pays

\* The write that is torn pays for the unfinished line it leaves.
LEMMA PaysMore ==
    ASSUME NEW torn \in Nat, NEW lost, NEW open, Pays(lost, open, torn), NEW c,
           NEW lost2, lost2 \subseteq lost, NEW open2, open2 \subseteq open \cup {c}
    PROVE  Pays(lost2, open2, torn + 1)
<1>1. IsFiniteSet(lost) /\ IsFiniteSet(open) /\ Cardinality(lost) + Cardinality(open) <= torn
  BY DEF Pays
<1>2. /\ IsFiniteSet(lost2) /\ Cardinality(lost2) \in Nat /\ Cardinality(lost2) <= Cardinality(lost)
      /\ Cardinality(lost) \in Nat
  BY <1>1, Counting
<1>3. /\ IsFiniteSet(open2) /\ Cardinality(open2) \in Nat /\ Cardinality(open2) <= Cardinality(open) + 1
      /\ Cardinality(open) \in Nat
  BY <1>1, Counting
<1>4. QED
  BY <1>1, <1>2, <1>3 DEF Pays

\* One line is added to the file of c, whole (nl) or torn.
Changed(files, done, files2, done2, c, e, entry, nl) ==
    /\ files2 = [files EXCEPT ![c] = AddLine(@, entry, nl)]
    /\ done2 = IF nl THEN [done EXCEPT ![c] = Append(@, e)] ELSE done
    /\ entry \in {0, e} /\ (nl => entry = e)

Logged(files, done, torn, n) ==
    /\ files \in [Convs -> Lines(n)] /\ done \in [Convs -> Seq(1..n)]
    /\ \A x \in Convs : Sound(files[x], done[x])
    /\ Pays(LostIn(files, done), OpenIn(files), torn)

\* What is lost and what is unfinished after it.
LEMMA WritePays ==
    ASSUME NEW n \in Nat, NEW files, NEW done, NEW torn \in Nat, Logged(files, done, torn, n),
           NEW c \in Convs, NEW e \in 1..n, NEW entry, NEW nl \in BOOLEAN,
           NEW files2, NEW done2, Changed(files, done, files2, done2, c, e, entry, nl),
           Added(files2[c], files[c], entry, nl)
    PROVE  Pays(LostIn(files2, done2), OpenIn(files2), IF nl THEN torn ELSE torn + 1)
<1>1. /\ files \in [Convs -> Lines(n)] /\ done \in [Convs -> Seq(1..n)]
      /\ \A x \in Convs : Sound(files[x], done[x])
      /\ entry \in {0, e} /\ (nl => entry = e)
  BY DEF Logged, Changed
<1>2. PICK new : new = files2[c]
  OBVIOUS
<1>3. /\ \A x \in Convs : x # c => files2[x] = files[x] /\ done2[x] = done[x]
      /\ files2[c] = new
      /\ nl => done2[c] = Append(done[c], e)
      /\ ~nl => done2[c] = done[c]
  BY <1>1, <1>2 DEF Changed
<1>4. PICK lines \in Lines(n), mine \in Seq(1..n) :
         lines = files[c] /\ mine = done[c] /\ Sound(lines, mine) /\ Added(new, lines, entry, nl)
  BY <1>1, <1>2
<1>5. /\ new[Len(new)].entry = IF IsOpen(lines) THEN 0 ELSE entry
      /\ IsOpen(new) <=> ~nl
      /\ Len(new) \in 1..Len(new)
  <2>1. Len(lines) \in Nat
    BY LinesType
  <2>2. Len(new) \in 1..Len(new)
    BY <1>4, <2>1 DEF Added
  <2>3. new[Len(new)].entry = IF IsOpen(lines) THEN 0 ELSE entry
    BY <1>4, NewLast
  <2>4. IsOpen(new) <=> ~nl
    BY <1>4, NewLast
  <2>5. QED
    BY <2>2, <2>3, <2>4
<1>6. \A x \in Convs : \A y \in Nat :
         <<x, y>> \in LostIn(files2, done2) <=>
            y \in ToSet(done2[x]) /\ \A i \in 1..Len(files2[x]) : files2[x][i].entry # y
  BY DEF LostIn
<1>7. \A x \in Convs : \A y \in Nat :
         <<x, y>> \in LostIn(files, done) <=>
            y \in ToSet(done[x]) /\ \A i \in 1..Len(files[x]) : files[x][i].entry # y
  BY DEF LostIn
<1>8. ASSUME NEW p \in LostIn(files2, done2), p \notin LostIn(files, done)
      PROVE  nl /\ IsOpen(lines) /\ p = <<c, e>>
  <2>1. PICK x \in Convs, y \in Nat : p = <<x, y>>
    BY <1>8 DEF LostIn
  <2>2. y \in ToSet(done2[x]) /\ \A i \in 1..Len(files2[x]) : files2[x][i].entry # y
    BY <1>6, <2>1
  <2>3. x = c
    <3>1. ASSUME x # c PROVE FALSE
      <4>1. files2[x] = files[x] /\ done2[x] = done[x]
        BY <1>3, <3>1
      <4>2. QED
        BY <4>1, <1>7, <1>8, <2>1, <2>2
    <3>2. QED
      BY <3>1
  <2>4. y \notin ToSet(done[c])
    <3>1. ASSUME y \in ToSet(done[c]) PROVE FALSE
      <4>1. PICK k \in 1..Len(mine) : y = mine[k]
        <5>1. y \in ToSet(mine)
          BY <1>4, <3>1
        <5>2. QED
          BY <5>1, SeqFacts
      <4>2. PICK i \in 1..Len(lines) : lines[i].entry = y
        BY <1>4, <1>7, <1>8, <2>1, <2>3, <3>1
      <4>3. lines[i].entry = mine[k]
        BY <4>1, <4>2
      <4>4. Sound(lines, mine) /\ Added(new, lines, entry, nl)
        BY <1>4
      <4>5. \E j \in 1..Len(new) : new[j].entry = mine[k]
        BY <4>3, <4>4, AddLineKeeps
      <4>6. QED
        BY <4>1, <4>5, <1>3, <2>2, <2>3
    <3>2. QED
      BY <3>1
  <2>5. nl /\ y = e
    <3>1. y \in ToSet(done2[c]) /\ y \notin ToSet(done[c])
      BY <2>2, <2>3, <2>4
    <3>2. nl
      BY <1>3, <3>1
    <3>3. ToSet(Append(mine, e)) = ToSet(mine) \cup {e}
      BY AppendToSet
    <3>4. done2[c] = Append(mine, e)
      BY <1>3, <1>4, <3>2
    <3>5. QED
      BY <3>1, <3>2, <3>3, <3>4, <1>4
  <2>6. IsOpen(lines)
    <3>1. ASSUME ~IsOpen(lines) PROVE FALSE
      <4>1. new[Len(new)].entry = e
        BY <1>1, <1>5, <2>5, <3>1
      <4>2. QED
        BY <4>1, <1>3, <1>5, <2>2, <2>3, <2>5
    <3>2. QED
      BY <3>1
  <2>7. QED
    BY <2>1, <2>3, <2>5, <2>6
<1>9. \A x \in Convs : x \in OpenIn(files2) <=> IF x = c THEN ~nl ELSE x \in OpenIn(files)
  BY <1>3, <1>5 DEF OpenIn
<1>10. OpenIn(files2) \subseteq Convs /\ OpenIn(files) \subseteq Convs
  BY DEF OpenIn
<1>11. PICK lost, open : lost = LostIn(files, done) /\ open = OpenIn(files)
  OBVIOUS
<1>12. PICK lost2, open2 : lost2 = LostIn(files2, done2) /\ open2 = OpenIn(files2)
  OBVIOUS
<1>13. Pays(lost, open, torn)
  BY <1>11 DEF Logged
<1>14. CASE nl /\ IsOpen(lines)
  <2>1. OneLost(lost2, lost)
    <3>1. lost2 \subseteq lost \cup {<<c, e>>}
      BY <1>8, <1>11, <1>12
    <3>2. QED
      BY <3>1 DEF OneLost
  <2>2. OneClosed(open2, open)
    <3>1. c \in open /\ open2 \subseteq open \ {c}
      BY <1>4, <1>9, <1>10, <1>11, <1>12, <1>14 DEF OpenIn
    <3>2. QED
      BY <3>1 DEF OneClosed
  <2>3. Pays(lost2, open2, torn)
    BY <2>1, <2>2, <1>13, PaysBack
  <2>4. QED
    BY <2>3, <1>12, <1>14
<1>15. CASE nl /\ ~IsOpen(lines)
  <2>1. lost2 \subseteq lost
    BY <1>8, <1>11, <1>12, <1>15
  <2>2. open2 \subseteq open
    BY <1>9, <1>10, <1>11, <1>12, <1>15
  <2>3. Pays(lost2, open2, torn)
    BY <2>1, <2>2, <1>13, PaysLess
  <2>4. QED
    BY <2>3, <1>12, <1>15
<1>16. CASE ~nl
  <2>1. lost2 \subseteq lost
    BY <1>8, <1>11, <1>12, <1>16
  <2>2. open2 \subseteq open \cup {c}
    BY <1>9, <1>10, <1>11, <1>12
  <2>3. Pays(lost2, open2, torn + 1)
    BY <2>1, <2>2, <1>13, PaysMore
  <2>4. QED
    BY <2>3, <1>12, <1>16
<1>17. QED
  BY <1>14, <1>15, <1>16
-----------------------------------------------------------------------------
(* What a write does to the log.                                           *)

LEMMA LinesGrow ==
    ASSUME NEW n \in Nat, NEW m \in Nat, n <= m
    PROVE  /\ \A lines \in Lines(n) : lines \in Lines(m)
           /\ \A seq \in Seq(1..n) : seq \in Seq(1..m)
<1>1. 0..n \subseteq 0..m /\ 1..n \subseteq 1..m
  OBVIOUS
<1>2. [entry : 0..n, nl : BOOLEAN] \subseteq [entry : 0..m, nl : BOOLEAN]
  BY <1>1
<1>3. \A lines \in Lines(n) : lines \in Lines(m)
  BY <1>2, SeqMonotonic DEF Lines
<1>4. \A seq \in Seq(1..n) : seq \in Seq(1..m)
  BY <1>1, SeqMonotonic
<1>5. QED
  BY <1>3, <1>4

LEMMA AddLogs ==
    ASSUME NEW n \in Nat, NEW files, NEW done, NEW torn \in Nat, Logged(files, done, torn, n),
           NEW c \in Convs, NEW e \in 1..n, Above(e, files[c], done[c]),
           NEW entry, NEW nl \in BOOLEAN,
           NEW files2, NEW done2, Changed(files, done, files2, done2, c, e, entry, nl)
    PROVE  /\ Logged(files2, done2, IF nl THEN torn ELSE torn + 1, n)
           /\ Added(files2[c], files[c], entry, nl)
<1>1. /\ files \in [Convs -> Lines(n)] /\ done \in [Convs -> Seq(1..n)]
      /\ \A x \in Convs : Sound(files[x], done[x])
      /\ files2 = [files EXCEPT ![c] = AddLine(@, entry, nl)]
      /\ done2 = IF nl THEN [done EXCEPT ![c] = Append(@, e)] ELSE done
      /\ entry \in {0, e} /\ (nl => entry = e)
  BY DEF Logged, Changed
<1>2. PICK lines \in Lines(n), mine \in Seq(1..n) :
         lines = files[c] /\ mine = done[c] /\ Sound(lines, mine) /\ Above(e, lines, mine)
  BY <1>1
<1>3. PICK new : new = AddLine(lines, entry, nl)
  OBVIOUS
<1>4. entry \in 0..n
  BY <1>1
<1>5. new \in Lines(n) /\ Added(new, lines, entry, nl)
  BY <1>3, <1>4, AddLineAdds
<1>6. /\ files2 \in [Convs -> Lines(n)] /\ files2[c] = new
      /\ \A x \in Convs : x # c => files2[x] = files[x]
  BY <1>1, <1>2, <1>3, <1>5
<1>7. PICK later : later = IF nl THEN Append(mine, e) ELSE mine
  OBVIOUS
<1>8. later \in Seq(1..n)
  <2>1. Append(mine, e) \in Seq(1..n)
    OBVIOUS
  <2>2. QED
    BY <2>1, <1>7
<1>9. /\ done2 \in [Convs -> Seq(1..n)] /\ done2[c] = later
      /\ \A x \in Convs : x # c => done2[x] = done[x]
  <2>1. CASE nl
    BY <2>1, <1>1, <1>2, <1>7, <1>8
  <2>2. CASE ~nl
    BY <2>2, <1>1, <1>2, <1>7, <1>8
  <2>3. QED
    BY <2>1, <2>2
<1>10. Sound(new, later)
  <2>1. ~nl => later = mine
    BY <1>7
  <2>2. QED
    BY <2>1, <1>1, <1>2, <1>5, <1>8, AddLineSound
<1>11. \A x \in Convs : Sound(files2[x], done2[x])
  BY <1>1, <1>6, <1>9, <1>10
<1>12. Added(files2[c], files[c], entry, nl)
  BY <1>2, <1>5, <1>6
<1>13. Pays(LostIn(files2, done2), OpenIn(files2), IF nl THEN torn ELSE torn + 1)
  BY <1>12, WritePays
<1>14. QED
  BY <1>6, <1>9, <1>11, <1>12, <1>13 DEF Logged

\* A write to c in a tree that now has m entries.
Wrote(c, e, ok, m) ==
    /\ file' \in [Convs -> Lines(m)] /\ returned' \in [Convs -> Seq(1..m)] /\ tears' \in 0..MaxTears
    /\ \A x \in Convs : x # c => file'[x] = file[x] /\ returned'[x] = returned[x]
    /\ Logs' /\ Costs'
    /\ ok => /\ Added(file'[c], file[c], e, TRUE)
             /\ returned'[c] = Append(returned[c], e) /\ tears' = tears
    /\ tears' = 0 => tears = 0 /\ (ok \/ (file' = file /\ returned' = returned))

LEMMA WriteLogs ==
    ASSUME Tree, Logs, Costs, NEW c \in Convs, NEW m \in Nat, Len(entries) <= m,
           NEW e \in 1..m, Above(e, file[c], returned[c]), NEW ok \in BOOLEAN, Write(c, e, ok)
    PROVE  Wrote(c, e, ok, m)
<1>1. /\ file \in [Convs -> Lines(Len(entries))] /\ returned \in [Convs -> Seq(1..Len(entries))]
      /\ tears \in 0..MaxTears /\ tears \in Nat /\ MaxTears \in Nat
  BY BoundsAssumption DEF Tree
<1>2. Len(entries) \in Nat
  BY DEF Tree, Parents
<1>3. file \in [Convs -> Lines(m)] /\ returned \in [Convs -> Seq(1..m)]
  <2>1. \A x \in Convs : file[x] \in Lines(m)
    BY <1>1, <1>2, LinesGrow
  <2>2. \A x \in Convs : returned[x] \in Seq(1..m)
    BY <1>1, <1>2, LinesGrow
  <2>3. QED
    BY <1>1, <2>1, <2>2
<1>4. Logged(file, returned, tears, m)
  BY <1>3 DEF Logged, Logs, Costs
<1>5. CASE ok /\ file' = [file EXCEPT ![c] = AddLine(@, e, TRUE)]
           /\ returned' = [returned EXCEPT ![c] = Append(@, e)] /\ tears' = tears
  <2>1. PICK files2, done2 : files2 = file' /\ done2 = returned'
    OBVIOUS
  <2>2. PICK nl \in BOOLEAN : nl = TRUE
    OBVIOUS
  <2>3. Changed(file, returned, files2, done2, c, e, e, nl)
    BY <2>1, <2>2, <1>5 DEF Changed
  <2>4. tears \in Nat /\ Above(e, file[c], returned[c]) /\ Logged(file, returned, tears, m)
    BY <1>1, <1>4
  <2>5. Logged(files2, done2, IF nl THEN tears ELSE tears + 1, m)
    BY <2>3, <2>4, AddLogs
  <2>6. Added(files2[c], file[c], e, nl)
    BY <2>3, <2>4, AddLogs
  <2>7. Logged(file', returned', tears', m) /\ Added(file'[c], file[c], e, TRUE)
    BY <2>1, <2>2, <2>5, <2>6, <1>5
  <2>8. \A x \in Convs : x # c => file'[x] = file[x] /\ returned'[x] = returned[x]
    BY <1>1, <1>5
  <2>9. returned'[c] = Append(returned[c], e)
    BY <1>1, <1>5
  <2>10. Logs' /\ Costs' /\ file' \in [Convs -> Lines(m)] /\ returned' \in [Convs -> Seq(1..m)]
    BY <2>7 DEF Logged, Logs, Costs
  <2>11. tears' \in 0..MaxTears /\ tears' = tears /\ ok
    BY <1>1, <1>5
  <2>12. QED
    BY <2>7, <2>8, <2>9, <2>10, <2>11 DEF Wrote
<1>6. CASE ~ok /\ UNCHANGED treeVars
  <2>1. file' = file /\ returned' = returned /\ tears' = tears
    BY <1>6 DEF treeVars
  <2>2. Logs' /\ Costs'
    BY <2>1 DEF Logs, Costs
  <2>3. QED
    BY <2>1, <2>2, <1>1, <1>3, <1>6 DEF Wrote
<1>7. ASSUME ~ok, tears < MaxTears, tears' = tears + 1, returned' = returned,
             NEW torn \in {0, e}, file' = [file EXCEPT ![c] = AddLine(@, torn, FALSE)]
      PROVE  Wrote(c, e, ok, m)
  <2>1. PICK files2, done2 : files2 = file' /\ done2 = returned'
    OBVIOUS
  <2>2. PICK nl \in BOOLEAN : nl = FALSE
    OBVIOUS
  <2>3. Changed(file, returned, files2, done2, c, e, torn, nl)
    BY <2>1, <2>2, <1>7 DEF Changed
  <2>4. Logged(files2, done2, IF nl THEN tears ELSE tears + 1, m)
    BY <2>3, <1>1, <1>4, AddLogs
  <2>5. Logged(file', returned', tears', m)
    BY <2>1, <2>2, <2>4, <1>7
  <2>6. \A x \in Convs : x # c => file'[x] = file[x] /\ returned'[x] = returned[x]
    BY <1>1, <1>7
  <2>7. tears' \in 0..MaxTears /\ tears' # 0
    BY <1>1, <1>7
  <2>8. Logs' /\ Costs' /\ file' \in [Convs -> Lines(m)] /\ returned' \in [Convs -> Seq(1..m)]
    BY <2>5 DEF Logged, Logs, Costs
  <2>9. QED
    BY <2>6, <2>7, <2>8, <1>7 DEF Wrote
<1>8. \/ /\ ok
         /\ file' = [file EXCEPT ![c] = AddLine(@, e, TRUE)]
         /\ returned' = [returned EXCEPT ![c] = Append(@, e)] /\ tears' = tears
      \/ ~ok /\ UNCHANGED treeVars
      \/ /\ ~ok /\ tears < MaxTears /\ tears' = tears + 1 /\ returned' = returned
         /\ \E torn \in {0, e} : file' = [file EXCEPT ![c] = AddLine(@, torn, FALSE)]
  BY Zenon DEF Write
<1>9. QED
  BY <1>5, <1>6, <1>7, <1>8

\* A file that holds what returned, and one more entry.
LEMMA EntireAdds ==
    ASSUME NEW n \in Nat, NEW lines \in Lines(n), NEW done \in Seq(1..n), NEW parents,
           Entire(parents, lines, done), NEW e \in 1..n, done # <<>> => parents[e] = done[Len(done)],
           NEW new, Added(new, lines, e, TRUE)
    PROVE  Entire(parents, new, Append(done, e))
<1>1. PICK more : more = Append(done, e)
  OBVIOUS
<1>2. /\ Len(done) \in Nat /\ Len(more) = Len(done) + 1 /\ more[Len(done) + 1] = e
      /\ \A k \in 1..Len(done) : more[k] = done[k]
  BY <1>1
<1>3. /\ Len(lines) = Len(done) /\ \A i \in 1..Len(done) : lines[i].entry = done[i] /\ lines[i].nl
      /\ IsChain(parents, done)
  BY DEF Entire
<1>4. ~IsOpen(lines)
  <2>1. lines # <<>> => Len(lines) \in 1..Len(lines)
    BY DEF Lines
  <2>2. QED
    BY <2>1, <1>3 DEF IsOpen, Last
<1>5. /\ Len(new) = Len(done) + 1 /\ new[Len(new)].entry = e /\ new[Len(new)].nl
      /\ \A i \in 1..Len(done) : new[i] = lines[i]
  <2>1. Len(new) = Len(done) + 1 /\ \A i \in 1..Len(done) : new[i] = lines[i]
    BY <1>2, <1>3, <1>4 DEF Added
  <2>2. PICK nl \in BOOLEAN : nl = TRUE
    OBVIOUS
  <2>3. Added(new, lines, e, nl)
    BY <2>2
  <2>4. new[Len(new)].entry = (IF IsOpen(lines) THEN 0 ELSE e) /\ new[Len(new)].nl = nl
    BY <2>3, NewLast
  <2>5. new[Len(new)].entry = e /\ new[Len(new)].nl
    BY <2>2, <2>4, <1>4
  <2>6. QED
    BY <2>1, <2>5
<1>6. ASSUME NEW i \in 1..Len(more) PROVE new[i].entry = more[i] /\ new[i].nl
  <2>1. CASE i \in 1..Len(done)
    BY <2>1, <1>2, <1>3, <1>5
  <2>2. CASE i = Len(done) + 1
    BY <2>2, <1>2, <1>5
  <2>3. QED
    BY <2>1, <2>2, <1>2
<1>7. ASSUME NEW i \in 2..Len(more) PROVE parents[more[i]] = more[i - 1]
  <2>1. CASE i \in 2..Len(done)
    <3>1. i \in 1..Len(done) /\ i - 1 \in 1..Len(done)
      BY <2>1, <1>2
    <3>2. parents[done[i]] = done[i - 1]
      BY <2>1, <1>3 DEF IsChain
    <3>3. QED
      BY <3>1, <3>2, <1>2
  <2>2. CASE i = Len(done) + 1
    <3>1. i - 1 = Len(done) /\ Len(done) \in 1..Len(done) /\ done # <<>>
      BY <2>2, <1>2
    <3>2. more[i] = e /\ more[i - 1] = done[Len(done)]
      BY <2>2, <3>1, <1>2
    <3>3. QED
      BY <3>1, <3>2
  <2>3. QED
    BY <2>1, <2>2, <1>2
<1>8. Len(new) = Len(more) /\ IsChain(parents, more)
  BY <1>2, <1>5, <1>7 DEF IsChain
<1>9. Entire(parents, new, more)
  BY <1>6, <1>8 DEF Entire
<1>10. QED
  BY <1>1, <1>9

\* Entries that come later change no chain.
LEMMA ChainKept ==
    ASSUME NEW n \in Nat, NEW a, NEW b, \A x \in 1..n : a[x] = b[x]
    PROVE  /\ \A seq \in Seq(1..n) : IsChain(a, seq) => IsChain(b, seq)
           /\ \A lines, done : done \in Seq(1..n) /\ Entire(a, lines, done) => Entire(b, lines, done)
<1>1. ASSUME NEW seq \in Seq(1..n), IsChain(a, seq) PROVE IsChain(b, seq)
  <2>1. ASSUME NEW i \in 2..Len(seq) PROVE b[seq[i]] = seq[i - 1]
    <3>1. i \in 1..Len(seq)
      OBVIOUS
    <3>2. seq[i] \in 1..n
      BY <3>1
    <3>3. QED
      BY <3>2, <1>1 DEF IsChain
  <2>2. QED
    BY <2>1 DEF IsChain
<1>2. QED
  BY <1>1 DEF Entire

LEMMA InitLog == Init => LogInv
<1> SUFFICES ASSUME Init PROVE LogInv
  OBVIOUS
<1>1. Tree
  <2>1. \A x \in Convs : file[x] \in Lines(Len(entries)) /\ returned[x] \in Seq(1..Len(entries))
    BY DEF Init, Lines
  <2>2. Len(entries) = 0 /\ Parents(Len(entries)) /\ entries \in Seq(Nat)
    BY DEF Init, Parents
  <2>3. file \in [Convs -> Lines(Len(entries))] /\ returned \in [Convs -> Seq(1..Len(entries))]
    BY <2>1 DEF Init
  <2>4. /\ Len(entries) <= MaxEntries /\ tears \in 0..MaxTears /\ offered \subseteq Convs
    BY <2>2, BoundsAssumption DEF Init
  <2>5. /\ server \in [conv : Convs \cup {NoConv}, user : 0..Len(entries)]
        /\ server.conv = NoConv /\ server.user = 0
    BY <2>2 DEF Init, Idle
  <2>6. /\ copying \in [conv : Convs \cup {NoConv}, todo : Seq(1..Len(entries))]
        /\ copying.conv = NoConv /\ copying.todo = <<>>
    BY DEF Init, NoCopy
  <2>7. QED
    BY <2>2, <2>3, <2>4, <2>5, <2>6 DEF Tree
<1>2. \A x \in Convs : file[x] = <<>> /\ returned[x] = <<>>
  BY DEF Init
<1>3. Logs
  BY <1>2 DEF Logs, Sound, Grows, IsOpen
<1>4. server.user = 0 /\ copying.conv = NoConv /\ tears = 0
  BY DEF Init, Idle, NoCopy
<1>5. Copy
  BY <1>4 DEF Copy
<1>6. Costs
  <2>1. LostIn(file, returned) = {}
    BY <1>2 DEF LostIn, ToSet
  <2>2. OpenIn(file) = {}
    BY <1>2 DEF OpenIn, IsOpen
  <2>3. IsFiniteSet({}) /\ Cardinality({}) = 0
    BY FS_EmptySet
  <2>4. QED
    BY <2>1, <2>2, <2>3, <1>4 DEF Costs, Pays
<1>7. Whole
  <2>1. \A x \in Convs : Entire(entries, file[x], returned[x])
    BY <1>2 DEF Entire, IsChain
  <2>2. QED
    BY <2>1, <1>4 DEF Whole
<1>8. QED
  BY <1>1, <1>3, <1>5, <1>6, <1>7 DEF LogInv

-----------------------------------------------------------------------------
(* Every step keeps the log.                                               *)

LEMMA EntireLoads ==
    ASSUME NEW n \in Nat, NEW lines \in Lines(n), NEW done \in Seq(1..n), NEW parents,
           Entire(parents, lines, done)
    PROVE  Parsed(lines) = done
<1>1. /\ Len(lines) = Len(done) /\ Len(done) \in Nat
      /\ \A i \in 1..Len(lines) : lines[i].entry = done[i] /\ done[i] \in 1..n
  BY DEF Entire
<1>2. \A i \in 1..Len(lines) : lines[i].entry # 0
  BY <1>1
<1>3. Len(Parsed(lines)) = Len(lines) /\ \A i \in 1..Len(lines) : Parsed(lines)[i] = lines[i].entry
  BY <1>2, ParsedAll
<1>4. Parsed(lines) \in Seq(1..n)
  BY ParsedSet
<1>5. QED
  BY <1>1, <1>3, <1>4, SeqEqual

\* What a file holds is a log of entries that grow.
LEMMA Loaded ==
    ASSUME LogInv, NEW c \in Convs
    PROVE  /\ Load(c) \in Seq(1..Len(entries)) /\ Climbs(Load(c))
           /\ LastLeaf(Load(c)) \in 0..Len(entries)
           /\ Load(c) = <<>> => LastLeaf(Load(c)) = 0
           /\ Load(c) # <<>> => LastLeaf(Load(c)) = Load(c)[Len(Load(c))]
           /\ tears = 0 => Load(c) = returned[c]
<1>1. /\ Len(entries) \in Nat /\ file[c] \in Lines(Len(entries)) /\ Grows(file[c])
      /\ returned[c] \in Seq(1..Len(entries)) /\ Parents(Len(entries))
  BY DEF LogInv, Tree, Parents, Logs, Sound
<1>2. Load(c) \in Seq(1..Len(entries))
  BY <1>1, ParsedSet DEF Load
<1>3. Climbs(Load(c))
  BY <1>1, ParsedClimbs DEF Load
<1>4. tears = 0 => Load(c) = returned[c]
  BY <1>1, EntireLoads DEF Load, LogInv, Whole
<1>5. /\ LastLeaf(Load(c)) \in 0..Len(entries)
      /\ Load(c) = <<>> => LastLeaf(Load(c)) = 0
      /\ Load(c) # <<>> => LastLeaf(Load(c)) = Load(c)[Len(Load(c))]
  BY <1>1, <1>2, <1>3, LastLeafIs
<1>6. QED
  BY <1>2, <1>3, <1>4, <1>5

\* A step that writes no entry.
LEMMA QuietKeepsLog ==
    ASSUME LogInv, UNCHANGED <<treeVars, entries>>, known \subseteq known', offered' \subseteq Convs,
           \/ server' = server
           \/ server' = Idle
           \/ \E c \in Convs : c # copying.conv /\ c \in known' /\ server' = [conv |-> c, user |-> 0],
           copying' = copying \/ copying' = NoCopy
    PROVE  LogInv'
<1>1. /\ file' = file /\ returned' = returned /\ tears' = tears /\ entries' = entries
      /\ Len(entries) \in Nat
  BY DEF treeVars, LogInv, Tree, Parents
<1>2. /\ server' \in [conv : Convs \cup {NoConv}, user : 0..Len(entries)]
      /\ server'.conv = NoConv => server'.user = 0
      /\ server'.conv # NoConv => server'.conv \in known'
      /\ server'.user # 0 => server' = server
      /\ server'.conv \in {server.conv, NoConv} \/ server'.conv # copying.conv
  <2>1. CASE server' = server
    BY <2>1 DEF LogInv, Tree
  <2>2. CASE server' = Idle
    BY <2>2, <1>1 DEF Idle
  <2>3. ASSUME NEW c \in Convs, c # copying.conv, c \in known', server' = [conv |-> c, user |-> 0]
        PROVE  /\ server' \in [conv : Convs \cup {NoConv}, user : 0..Len(entries)]
               /\ server'.conv = c /\ server'.user = 0
    BY <2>3, <1>1
  <2>4. QED
    BY <2>1, <2>2, <2>3
<1>3. /\ copying' \in [conv : Convs \cup {NoConv}, todo : Seq(1..Len(entries))]
      /\ copying'.conv = NoConv => copying'.todo = <<>>
      /\ copying'.conv # NoConv => copying' = copying
  <2>1. CASE copying' = copying
    BY <2>1 DEF LogInv, Tree
  <2>2. CASE copying' = NoCopy
    <3>1. <<>> \in Seq(1..Len(entries))
      OBVIOUS
    <3>2. QED
      BY <2>2, <3>1 DEF NoCopy
  <2>3. QED
    BY <2>1, <2>2
<1>4. copying'.conv # NoConv => copying'.conv # server'.conv
  BY <1>2, <1>3 DEF LogInv, Tree
<1>5. Tree'
  BY <1>1, <1>2, <1>3, <1>4 DEF LogInv, Tree, Parents
<1>6. Logs' /\ Costs'
  BY <1>1 DEF LogInv, Logs, Costs
<1>7. Copy'
  BY <1>1, <1>3 DEF LogInv, Copy
<1>8. Whole'
  BY <1>1, <1>2, <1>3 DEF LogInv, Whole
<1>9. QED
  BY <1>5, <1>6, <1>7, <1>8 DEF LogInv

\* The server creates an entry below p and writes it.
LEMMA ServerKeepsLog ==
    ASSUME LogInv, server.conv # NoConv, Len(entries) < MaxEntries,
           NEW p \in 0..Len(entries), entries' = Append(entries, p),
           tears = 0 /\ returned[server.conv] # <<>> => p = Last(returned[server.conv]),
           NEW ok \in BOOLEAN, Write(server.conv, Len(entries) + 1, ok),
           \/ server' = Idle
           \/ ok /\ server' = [server EXCEPT !.user = Len(entries) + 1],
           UNCHANGED <<dbVars, copying, offered>>
    PROVE  LogInv'
<1>1. PICK n \in Nat : n = Len(entries)
  BY DEF LogInv, Tree, Parents
<1>2. PICK e \in 1..n + 1 : e = n + 1
  OBVIOUS
<1>3. PICK c \in Convs : c = server.conv
  BY DEF LogInv, Tree
<1>4. Tree /\ Logs /\ Copy /\ Costs /\ Whole /\ MaxEntries \in Nat
  BY BoundsAssumption DEF LogInv
<1>5. /\ entries \in Seq(Nat) /\ \A x \in 1..n : entries[x] \in 0..x - 1
      /\ file \in [Convs -> Lines(n)] /\ returned \in [Convs -> Seq(1..n)]
      /\ copying \in [conv : Convs \cup {NoConv}, todo : Seq(1..n)]
      /\ copying.conv # NoConv => copying.conv # c
  BY <1>1, <1>3, <1>4 DEF Tree, Parents
<1>6. /\ entries' \in Seq(Nat) /\ Len(entries') = n + 1 /\ entries'[n + 1] = p
      /\ \A x \in 1..n : entries'[x] = entries[x]
  <2>1. p \in Nat
    BY <1>1
  <2>2. QED
    BY <2>1, <1>1, <1>5
<1>7. Above(e, file[c], returned[c])
  <2>1. \A i \in 1..Len(file[c]) : file[c][i].entry \in 0..n
    BY <1>5, LinesType
  <2>2. \A k \in 1..Len(returned[c]) : returned[c][k] \in 1..n
    <3>1. PICK done \in Seq(1..n) : done = returned[c]
      BY <1>5
    <3>2. \A k \in 1..Len(done) : done[k] \in 1..n
      OBVIOUS
    <3>3. QED
      BY <3>1, <3>2
  <2>3. QED
    BY <2>1, <2>2, <1>2 DEF Above
<1>8. Wrote(c, e, ok, n + 1)
  <2>1. n + 1 \in Nat /\ Len(entries) <= n + 1 /\ Write(c, e, ok)
    BY <1>1, <1>2, <1>3
  <2>2. QED
    BY <2>1, <1>4, <1>7, WriteLogs
<1>9. /\ file' \in [Convs -> Lines(n + 1)] /\ returned' \in [Convs -> Seq(1..n + 1)]
      /\ tears' \in 0..MaxTears /\ Logs' /\ Costs'
      /\ \A x \in Convs : x # c => file'[x] = file[x] /\ returned'[x] = returned[x]
      /\ ok => Added(file'[c], file[c], e, TRUE) /\ returned'[c] = Append(returned[c], e)
      /\ tears' = 0 => tears = 0 /\ (ok \/ (file' = file /\ returned' = returned))
  BY <1>8 DEF Wrote
<1>10. /\ server' \in [conv : Convs \cup {NoConv}, user : 0..n + 1]
       /\ server'.conv = NoConv => server'.user = 0
       /\ server'.conv \in {c, NoConv}
       /\ server'.user # 0 => ok /\ server'.conv = c /\ server'.user = e
  <2>1. CASE server' = Idle
    BY <2>1 DEF Idle
  <2>2. CASE ok /\ server' = [server EXCEPT !.user = n + 1]
    <3>1. server \in [conv : Convs \cup {NoConv}, user : 0..n]
      BY <1>1, <1>4 DEF Tree
    <3>2. server' = [conv |-> c, user |-> e]
      BY <3>1, <2>2, <1>2, <1>3
    <3>3. c # NoConv
      BY ConvsAssumption
    <3>4. QED
      BY <3>2, <3>3, <2>2
  <2>3. QED
    BY <2>1, <2>2, <1>1
<1>11. Tree'
  <2>1. Parents(Len(entries))'
    <3>1. ASSUME NEW x \in 1..n + 1 PROVE entries'[x] \in 0..x - 1
      <4>1. CASE x \in 1..n
        BY <4>1, <1>5, <1>6
      <4>2. CASE x = n + 1
        <5>1. entries'[x] = p
          BY <4>2, <1>6
        <5>2. p \in 0..n
          BY <1>1
        <5>3. 0..x - 1 = 0..n
          BY <4>2
        <5>4. QED
          BY <5>1, <5>2, <5>3
      <4>3. x \in 1..n \/ x = n + 1
        OBVIOUS
      <4>4. QED
        BY <4>1, <4>2, <4>3
    <3>2. QED
      BY <3>1, <1>6 DEF Parents
  <2>2. Len(entries') <= MaxEntries
    BY <1>1, <1>4, <1>6
  <2>3. copying' \in [conv : Convs \cup {NoConv}, todo : Seq(1..n + 1)]
    <3>1. \A seq \in Seq(1..n) : seq \in Seq(1..n + 1)
      BY LinesGrow
    <3>2. QED
      BY <3>1, <1>5
  <2>4. server'.conv # NoConv => server'.conv \in known'
    BY <1>3, <1>4, <1>10 DEF Tree, dbVars
  <2>5. /\ copying'.conv = NoConv => copying'.todo = <<>>
        /\ copying'.conv # NoConv => copying'.conv # server'.conv
        /\ offered' \subseteq Convs
    BY <1>4, <1>5, <1>10 DEF Tree
  <2>6. QED
    BY <2>1, <2>2, <2>3, <2>4, <2>5, <1>6, <1>9, <1>10 DEF Tree
<1>12. /\ \A seq \in Seq(1..n) : IsChain(entries, seq) => IsChain(entries', seq)
       /\ \A lines, done : done \in Seq(1..n) /\ Entire(entries, lines, done) => Entire(entries', lines, done)
  <2>1. \A x \in 1..n : entries[x] = entries'[x]
    BY <1>6
  <2>2. QED
    BY <2>1, ChainKept
<1>13. Copy'
  BY <1>4, <1>5, <1>9, <1>12 DEF Copy
<1>14. ASSUME tears' = 0 PROVE \A x \in Convs : Entire(entries', file'[x], returned'[x])
  <2>1. \A x \in Convs : Entire(entries', file[x], returned[x])
    BY <1>4, <1>5, <1>9, <1>12, <1>14 DEF Whole
  <2>2. CASE ok
    <3>1. PICK lines \in Lines(n + 1), done \in Seq(1..n + 1) : lines = file[c] /\ done = returned[c]
      <4>1. file[c] \in Lines(n) /\ returned[c] \in Seq(1..n) /\ n <= n + 1 /\ n + 1 \in Nat
        BY <1>5
      <4>2. file[c] \in Lines(n + 1)
        BY <4>1, LinesGrow
      <4>3. returned[c] \in Seq(1..n + 1)
        BY <4>1, LinesGrow
      <4>4. QED
        BY <4>2, <4>3
    <3>2. done # <<>> => entries'[e] = done[Len(done)]
      BY <3>1, <1>2, <1>3, <1>6, <1>9, <1>14 DEF Last
    <3>3. Entire(entries', lines, done) /\ Added(file'[c], lines, e, TRUE)
      BY <2>1, <2>2, <3>1, <1>9
    <3>4. n + 1 \in Nat
      OBVIOUS
    <3>5. Entire(entries', file'[c], Append(done, e))
      BY <3>2, <3>3, <3>4, EntireAdds
    <3>6. QED
      BY <2>1, <2>2, <3>1, <3>5, <1>9
  <2>3. CASE ~ok
    BY <2>1, <2>3, <1>9, <1>14
  <2>4. QED
    BY <2>2, <2>3
<1>15. ASSUME tears' = 0, server'.user # 0
       PROVE  returned'[server'.conv] # <<>> /\ Last(returned'[server'.conv]) = server'.user
  <2>1. PICK done \in Seq(1..n) : done = returned[c]
    BY <1>5
  <2>2. PICK more : more = Append(done, e)
    OBVIOUS
  <2>3. more # <<>> /\ more[Len(more)] = e
    BY <2>2
  <2>4. QED
    BY <2>1, <2>2, <2>3, <1>9, <1>10, <1>15 DEF Last
<1>16. ASSUME tears' = 0, copying.conv # NoConv, copying.todo # <<>>, returned'[copying.conv] # <<>>
       PROVE  entries'[Head(copying.todo)] = Last(returned'[copying.conv])
  <2>1. returned'[copying.conv] = returned[copying.conv]
    BY <1>5, <1>9, <1>16
  <2>2. Head(copying.todo) \in 1..n
    <3>1. PICK todo \in Seq(1..n) : todo = copying.todo
      BY <1>5
    <3>2. todo # <<>>
      BY <3>1, <1>16
    <3>3. 1 \in 1..Len(todo) /\ Head(todo) = todo[1]
      BY <3>2
    <3>4. todo[1] \in 1..n
      BY <3>3
    <3>5. QED
      BY <3>1, <3>3, <3>4
  <2>3. QED
    BY <2>1, <2>2, <1>4, <1>6, <1>9, <1>16 DEF Whole
<1>17. Whole'
  BY <1>14, <1>15, <1>16 DEF Whole
<1>18. QED
  BY <1>9, <1>11, <1>13, <1>17 DEF LogInv

LEMMA AppendUserKeepsLog ==
    ASSUME LogInv, AppendUser
    PROVE  LogInv'
<1>1. /\ server.conv # NoConv /\ Len(entries) < MaxEntries
      /\ entries' = Append(entries, LastLeaf(Load(server.conv)))
      /\ UNCHANGED <<dbVars, copying, offered>>
  BY DEF AppendUser
<1>2. PICK ok \in BOOLEAN :
         /\ Write(server.conv, Len(entries) + 1, ok)
         /\ server' = IF ok THEN [server EXCEPT !.user = Len(entries) + 1] ELSE Idle
  BY DEF AppendUser
<1>3. PICK c \in Convs : c = server.conv
  BY <1>1 DEF LogInv, Tree
<1>4. PICK p \in 0..Len(entries) : p = LastLeaf(Load(c))
  BY Loaded
<1>5. tears = 0 /\ returned[c] # <<>> => p = Last(returned[c])
  <2>1. tears = 0 => Load(c) = returned[c]
    BY Loaded
  <2>2. Load(c) # <<>> => LastLeaf(Load(c)) = Load(c)[Len(Load(c))]
    BY Loaded
  <2>3. QED
    BY <2>1, <2>2, <1>4 DEF Last
<1>6. \/ server' = Idle
      \/ ok /\ server' = [server EXCEPT !.user = Len(entries) + 1]
  BY <1>2
<1>7. entries' = Append(entries, p) /\ (tears = 0 /\ returned[server.conv] # <<>> => p = Last(returned[server.conv]))
  BY <1>1, <1>3, <1>4, <1>5
<1>8. QED
  BY <1>1, <1>2, <1>6, <1>7, ServerKeepsLog

LEMMA AppendAssistantKeepsLog ==
    ASSUME LogInv, AppendAssistant
    PROVE  LogInv'
<1>1. /\ server.user # 0 /\ Len(entries) < MaxEntries
      /\ entries' = Append(entries, server.user) /\ server' = Idle
      /\ UNCHANGED <<dbVars, copying, offered>>
  BY DEF AppendAssistant
<1>2. PICK ok \in BOOLEAN : Write(server.conv, Len(entries) + 1, ok)
  BY DEF AppendAssistant
<1>3. server.conv # NoConv
  BY <1>1 DEF LogInv, Tree
<1>4. PICK p \in 0..Len(entries) : p = server.user
  BY DEF LogInv, Tree
<1>5. tears = 0 => p = Last(returned[server.conv])
  BY <1>1, <1>4 DEF LogInv, Whole
<1>6. QED
  BY <1>1, <1>2, <1>3, <1>4, <1>5, ServerKeepsLog

\* The CLI starts with the path to the newest leaf and an empty file.
LEMMA StartCopyKeepsLog ==
    ASSUME LogInv, NEW s \in Convs, NEW t \in Convs, StartCopy(s, t)
    PROVE  LogInv'
<1>1. PICK loaded : loaded = Load(s)
  OBVIOUS
<1>2. PICK newest : newest = CHOOSE e \in Leaves(loaded) : \A x \in Leaves(loaded) : x <= e
  OBVIOUS
<1>3. PICK path : path = Path(loaded, newest)
  OBVIOUS
<1>4. /\ t \notin known /\ file[t] = <<>> /\ loaded # <<>>
      /\ copying' = [conv |-> t, todo |-> path]
      /\ known' = known /\ entries' = entries /\ file' = file /\ returned' = returned /\ tears' = tears
      /\ server' = server /\ offered' = offered
  BY <1>1, <1>2, <1>3 DEF StartCopy, treeVars, dbVars
<1>5. Tree /\ Logs /\ Costs /\ Whole /\ Parents(Len(entries))
  BY DEF LogInv, Tree
<1>6. PICK n \in Nat : n = Len(entries)
  BY <1>5 DEF Parents
<1>7. Parents(n) /\ loaded \in Seq(1..n) /\ Climbs(loaded)
  BY <1>1, <1>5, <1>6, Loaded
<1>8. newest \in 0..n
  <2>1. /\ loaded[Len(loaded)] \in Leaves(loaded)
        /\ \A e \in Leaves(loaded) : e <= loaded[Len(loaded)]
    BY <1>4, <1>7, LastIsLeaf
  <2>2. newest \in Leaves(loaded)
    BY <1>2, <2>1
  <2>3. ToSet(loaded) \subseteq 1..n
    BY <1>7, SeqFacts
  <2>4. QED
    BY <2>2, <2>3 DEF Leaves
<1>9. Leads(path, newest, n)
  BY <1>3, <1>6, <1>7, <1>8, PathLeads
<1>10. path \in Seq(1..n) /\ Climbs(path) /\ IsChain(entries, path)
  BY <1>9 DEF Leads
<1>11. t # NoConv /\ t # server.conv
  BY <1>4, <1>5, ConvsAssumption DEF Tree
<1>12. returned[t] = <<>>
  BY <1>4, <1>5 DEF Logs, Sound
<1>13. Tree'
  BY <1>4, <1>5, <1>6, <1>10, <1>11 DEF Tree, Parents
<1>14. Copy'
  <2>1. \A i \in 1..Len(path) : Above(path[i], file[t], returned[t])
    BY <1>4, <1>12 DEF Above
  <2>2. QED
    BY <2>1, <1>4, <1>10 DEF Copy
<1>15. Logs' /\ Costs'
  BY <1>4, <1>5 DEF Logs, Costs
<1>16. Whole'
  BY <1>4, <1>5, <1>12 DEF Whole
<1>17. QED
  BY <1>13, <1>14, <1>15, <1>16 DEF LogInv

\* What is left of a chain when its first entry is written.
LEMMA TailLeft ==
    ASSUME NEW n \in Nat, NEW todo \in Seq(1..n), todo # <<>>, Climbs(todo), NEW parents, IsChain(parents, todo)
    PROVE  /\ Head(todo) = todo[1] /\ todo[1] \in 1..n /\ 1 \in 1..Len(todo)
           /\ Tail(todo) \in Seq(1..n) /\ Climbs(Tail(todo)) /\ IsChain(parents, Tail(todo))
           /\ \A i \in 1..Len(Tail(todo)) : /\ Tail(todo)[i] = todo[i + 1] /\ i + 1 \in 1..Len(todo)
                                            /\ todo[i + 1] \in 1..n /\ todo[1] < todo[i + 1]
           /\ Tail(todo) # <<>> => parents[Head(Tail(todo))] = todo[1]
<1>1. PICK rest : rest = Tail(todo)
  OBVIOUS
<1>2. /\ rest \in Seq(1..n) /\ Len(todo) \in Nat /\ Len(rest) = Len(todo) - 1 /\ 1 \in 1..Len(todo)
      /\ \A i \in 1..Len(rest) : rest[i] = todo[i + 1]
      /\ Head(todo) = todo[1] /\ todo[1] \in 1..n
  BY <1>1
<1>3. \A i \in 1..Len(rest) : i + 1 \in 1..Len(todo) /\ i + 1 \in 2..Len(todo)
  BY <1>2
<1>4. \A i \in 1..Len(rest) : todo[1] < todo[i + 1] /\ todo[i + 1] \in 1..n
  BY <1>2, <1>3 DEF Climbs
<1>5. Climbs(rest)
  <2>1. ASSUME NEW i \in 1..Len(rest), NEW j \in 1..Len(rest), i < j PROVE rest[i] < rest[j]
    <3>1. i + 1 \in 1..Len(todo) /\ j + 1 \in 1..Len(todo) /\ i + 1 < j + 1
      BY <1>3, <2>1
    <3>2. todo[i + 1] < todo[j + 1]
      BY <3>1 DEF Climbs
    <3>3. QED
      BY <3>2, <1>2
  <2>2. QED
    BY <2>1 DEF Climbs
<1>6. IsChain(parents, rest)
  <2>1. ASSUME NEW i \in 2..Len(rest) PROVE parents[rest[i]] = rest[i - 1]
    <3>1. i \in 1..Len(rest) /\ i - 1 \in 1..Len(rest) /\ i - 1 + 1 = i /\ i + 1 - 1 = i
      OBVIOUS
    <3>2. i + 1 \in 2..Len(todo)
      BY <1>3, <3>1
    <3>3. parents[todo[i + 1]] = todo[i + 1 - 1]
      BY <3>2 DEF IsChain
    <3>4. rest[i] = todo[i + 1] /\ rest[i - 1] = todo[i]
      BY <1>2, <3>1
    <3>5. QED
      BY <3>1, <3>3, <3>4
  <2>2. QED
    BY <2>1 DEF IsChain
<1>7. ASSUME rest # <<>> PROVE parents[Head(rest)] = todo[1]
  <2>1. 1 \in 1..Len(rest) /\ Head(rest) = rest[1]
    BY <1>2, <1>7
  <2>2. rest[1] = todo[2] /\ 2 \in 2..Len(todo)
    BY <1>2, <2>1
  <2>3. parents[todo[2]] = todo[2 - 1]
    BY <2>2 DEF IsChain
  <2>4. QED
    BY <2>1, <2>2, <2>3
<1>8. QED
  BY <1>1, <1>2, <1>3, <1>4, <1>5, <1>6, <1>7

LEMMA CopyEntryKeepsLog ==
    ASSUME LogInv, CopyEntry
    PROVE  LogInv'
<1>1. Tree /\ Logs /\ Copy /\ Costs /\ Whole
  BY DEF LogInv
<1>2. PICK n \in Nat : n = Len(entries)
  BY <1>1 DEF Tree, Parents
<1>3. /\ copying # NoCopy /\ copying.todo # <<>>
      /\ known' = known /\ entries' = entries /\ server' = server /\ offered' = offered
  BY DEF CopyEntry, dbVars
<1>4. PICK ok \in BOOLEAN :
         /\ Write(copying.conv, Head(copying.todo), ok)
         /\ copying' = IF ok THEN [copying EXCEPT !.todo = Tail(@)] ELSE NoCopy
  BY DEF CopyEntry
<1>5. PICK c \in Convs, todo \in Seq(1..n) : copying = [conv |-> c, todo |-> todo]
  <2>1. copying \in [conv : Convs \cup {NoConv}, todo : Seq(1..n)] /\ copying.conv # NoConv
    BY <1>1, <1>2, <1>3 DEF Tree
  <2>2. QED
    BY <2>1
<1>6. /\ copying.conv = c /\ copying.todo = todo /\ c # NoConv /\ c # server.conv /\ todo # <<>>
  BY <1>1, <1>3, <1>5, ConvsAssumption DEF Tree
<1>7. /\ Climbs(todo) /\ IsChain(entries, todo)
      /\ \A i \in 1..Len(todo) : Above(todo[i], file[c], returned[c])
  BY <1>1, <1>6 DEF Copy
<1>8. PICK rest : rest = Tail(todo)
  OBVIOUS
<1>9. PICK e \in 1..n : e = todo[1] /\ e = Head(todo) /\ 1 \in 1..Len(todo)
  BY <1>6, <1>7, TailLeft
<1>10. /\ rest \in Seq(1..n) /\ Climbs(rest) /\ IsChain(entries, rest)
       /\ rest # <<>> => entries[Head(rest)] = e
  BY <1>6, <1>7, <1>8, <1>9, TailLeft
<1>11. \A i \in 1..Len(rest) : rest[i] = todo[i + 1] /\ i + 1 \in 1..Len(todo) /\ rest[i] \in 1..n /\ e < rest[i]
  BY <1>6, <1>7, <1>8, <1>9, TailLeft
<1>12. Wrote(c, e, ok, n)
  <2>1. Len(entries) <= n /\ Write(c, e, ok) /\ Above(e, file[c], returned[c])
    BY <1>2, <1>4, <1>6, <1>7, <1>9
  <2>2. QED
    BY <2>1, <1>1, WriteLogs
<1>13. /\ file' \in [Convs -> Lines(n)] /\ returned' \in [Convs -> Seq(1..n)]
       /\ tears' \in 0..MaxTears /\ Logs' /\ Costs'
       /\ \A x \in Convs : x # c => file'[x] = file[x] /\ returned'[x] = returned[x]
       /\ ok => Added(file'[c], file[c], e, TRUE) /\ returned'[c] = Append(returned[c], e)
       /\ tears' = 0 => tears = 0 /\ (ok \/ (file' = file /\ returned' = returned))
  BY <1>12 DEF Wrote
<1>14. PICK lines \in Lines(n), done \in Seq(1..n) : lines = file[c] /\ done = returned[c]
  BY <1>1, <1>2 DEF Tree
<1>15. /\ ok => copying' = [conv |-> c, todo |-> rest]
       /\ ~ok => copying' = NoCopy
  BY <1>4, <1>5, <1>8
<1>16. /\ copying' \in [conv : Convs \cup {NoConv}, todo : Seq(1..n)]
       /\ copying'.conv = NoConv => copying'.todo = <<>>
       /\ copying'.conv # NoConv => ok /\ copying'.conv = c /\ copying'.todo = rest
  <2>1. CASE ok
    <3>1. copying' = [conv |-> c, todo |-> rest]
      BY <2>1, <1>15
    <3>2. copying'.conv = c /\ copying'.todo = rest /\ c # NoConv
      BY <3>1, <1>6
    <3>3. copying' \in [conv : Convs \cup {NoConv}, todo : Seq(1..n)]
      BY <3>1, <1>10
    <3>4. QED
      BY <2>1, <3>2, <3>3
  <2>2. CASE ~ok
    <3>1. PICK none \in Seq(1..n) : none = <<>>
      <4>1. <<>> \in Seq(1..n)
        OBVIOUS
      <4>2. QED
        BY <4>1
    <3>2. copying' = [conv |-> NoConv, todo |-> none]
      BY <2>2, <3>1, <1>15 DEF NoCopy
    <3>3. QED
      BY <3>1, <3>2
  <2>3. QED
    BY <2>1, <2>2
<1>17. Tree'
  BY <1>1, <1>2, <1>3, <1>6, <1>13, <1>16 DEF Tree, Parents
<1>18. ASSUME ok PROVE \A i \in 1..Len(rest) : Above(rest[i], file'[c], returned'[c])
  <2> TAKE i \in 1..Len(rest)
  <2>1. PICK d \in Nat : d = rest[i] /\ e < d
    <3>1. rest[i] \in 1..n /\ e < rest[i]
      BY <1>11
    <3>2. rest[i] \in Nat
      BY <3>1
    <3>3. QED
      BY <3>1, <3>2
  <2>2. Above(d, lines, done)
    BY <2>1, <1>7, <1>11, <1>14
  <2>3. PICK new : new = file'[c]
    OBVIOUS
  <2>4. Added(new, lines, e, TRUE) /\ returned'[c] = Append(done, e)
    BY <2>3, <1>13, <1>14, <1>18
  <2>5. Above(d, new, Append(done, e))
    BY <2>1, <2>2, <2>4, AddLineBelow
  <2>6. QED
    BY <2>1, <2>3, <2>4, <2>5
<1>19. Copy'
  BY <1>3, <1>10, <1>16, <1>18 DEF Copy
<1>20. ASSUME tears' = 0 PROVE \A x \in Convs : Entire(entries', file'[x], returned'[x])
  <2>1. \A x \in Convs : Entire(entries', file[x], returned[x])
    BY <1>1, <1>3, <1>13, <1>20 DEF Whole
  <2>2. CASE ok
    <3>1. done # <<>> => entries'[e] = done[Len(done)]
      BY <1>1, <1>3, <1>6, <1>9, <1>13, <1>14, <1>20 DEF Whole, Last
    <3>2. Entire(entries', lines, done) /\ Added(file'[c], lines, e, TRUE)
      BY <2>1, <2>2, <1>13, <1>14
    <3>3. Entire(entries', file'[c], Append(done, e))
      BY <3>1, <3>2, EntireAdds
    <3>4. QED
      BY <2>1, <2>2, <3>3, <1>13, <1>14
  <2>3. CASE ~ok
    BY <2>1, <2>3, <1>13, <1>20
  <2>4. QED
    BY <2>2, <2>3
<1>21. ASSUME tears' = 0, server'.user # 0
       PROVE  returned'[server'.conv] # <<>> /\ Last(returned'[server'.conv]) = server'.user
  <2>1. server.conv \in Convs /\ server.conv # c
    BY <1>1, <1>3, <1>6, <1>21 DEF Tree
  <2>2. QED
    BY <2>1, <1>1, <1>3, <1>13, <1>21 DEF Whole
<1>22. ASSUME tears' = 0, copying'.conv # NoConv, copying'.todo # <<>>
       PROVE  entries'[Head(copying'.todo)] = Last(returned'[copying'.conv])
  <2>1. ok /\ copying'.conv = c /\ copying'.todo = rest
    BY <1>16, <1>22
  <2>2. PICK more : more = Append(done, e)
    OBVIOUS
  <2>3. more[Len(more)] = e
    BY <2>2
  <2>4. Last(returned'[c]) = e
    BY <2>1, <2>2, <2>3, <1>13, <1>14 DEF Last
  <2>5. QED
    BY <2>1, <2>4, <1>3, <1>10, <1>22
<1>23. Whole'
  BY <1>20, <1>21, <1>22 DEF Whole
<1>24. QED
  BY <1>13, <1>17, <1>19, <1>23 DEF LogInv

LEMMA NextKeepsLog ==
    ASSUME LogInv, [Next]_vars
    PROVE  LogInv'
<1>1. \/ \E c \in Convs : EnsureConversation(c)
      \/ \E c \in Convs : RecordTurn(c)
      \/ AppendUser \/ AppendAssistant \/ Crash
      \/ \E s, t \in Convs : ForkRows(s, t)
      \/ \E s, t \in Convs : StartCopy(s, t)
      \/ CopyEntry \/ OfferFork
      \/ UNCHANGED vars
  BY DEF Next
<1>2. offered \subseteq Convs
  BY DEF LogInv, Tree
<1>3. ASSUME NEW c \in Convs, EnsureConversation(c) PROVE LogInv'
  BY <1>2, <1>3, QuietKeepsLog DEF EnsureConversation
<1>4. ASSUME NEW c \in Convs, RecordTurn(c) PROVE LogInv'
  BY <1>2, <1>4, QuietKeepsLog DEF RecordTurn
<1>5. CASE AppendUser
  BY <1>5, AppendUserKeepsLog
<1>6. CASE AppendAssistant
  BY <1>6, AppendAssistantKeepsLog
<1>7. CASE Crash
  BY <1>2, <1>7, QuietKeepsLog DEF Crash, dbVars
<1>8. ASSUME NEW s \in Convs, NEW t \in Convs, ForkRows(s, t) PROVE LogInv'
  BY <1>2, <1>8, QuietKeepsLog DEF ForkRows
<1>9. ASSUME NEW s \in Convs, NEW t \in Convs, StartCopy(s, t) PROVE LogInv'
  BY <1>9, StartCopyKeepsLog
<1>10. CASE CopyEntry
  BY <1>10, CopyEntryKeepsLog
<1>11. CASE OfferFork
  <2>1. copying.conv \in Convs
    BY <1>11 DEF OfferFork, NoCopy, LogInv, Tree
  <2>2. QED
    BY <2>1, <1>2, <1>11, QuietKeepsLog DEF OfferFork, dbVars
<1>12. CASE UNCHANGED vars
  BY <1>2, <1>12, QuietKeepsLog DEF vars, treeVars
<1>13. QED
  BY <1>1, <1>3, <1>4, <1>5, <1>6, <1>7, <1>8, <1>9, <1>10, <1>11, <1>12

-----------------------------------------------------------------------------
(* The theorems.                                                           *)

\* The rows and the log, with what each needs to stay as it is, at every state:
\* no turn, fork, failed or torn append, crash or copy of either process breaks
\* them.
THEOREM ConversationsInvariance == Spec => [](Rows /\ Snapshots /\ LogInv)
<1>1. Init => Rows /\ Snapshots /\ LogInv
  BY InitRows, InitLog
<1>2. Rows /\ Snapshots /\ LogInv /\ [Next]_vars => (Rows /\ Snapshots /\ LogInv)'
  BY NextRows, NextKeepsLog
<1>3. QED
  BY <1>1, <1>2, PTL DEF Spec

LEMMA InvTypes ==
    ASSUME Rows, LogInv
    PROVE  TypeOK
<1>1. /\ known \subseteq Convs /\ last \in 0..MaxTurns /\ rows \in [Convs -> Seq(1..last)]
      /\ MaxTurns \in Nat /\ MaxEntries \in Nat
  BY BoundsAssumption DEF Rows
<1>2. /\ entries \in Seq(Nat) /\ Len(entries) \in Nat /\ Len(entries) <= MaxEntries
      /\ \A e \in 1..Len(entries) : entries[e] \in 0..e - 1
      /\ file \in [Convs -> Lines(Len(entries))] /\ returned \in [Convs -> Seq(1..Len(entries))]
      /\ server \in [conv : Convs \cup {NoConv}, user : 0..Len(entries)]
      /\ copying \in [conv : Convs \cup {NoConv}, todo : Seq(1..Len(entries))]
      /\ offered \subseteq Convs /\ tears \in 0..MaxTears
  BY DEF LogInv, Tree, Parents
<1>3. rows \in [Convs -> Seq(1..MaxTurns)]
  <2>1. last \in Nat /\ last <= MaxTurns
    BY <1>1
  <2>2. \A c \in Convs : rows[c] \in Seq(1..MaxTurns)
    BY <2>1, <1>1, LinesGrow
  <2>3. QED
    BY <1>1, <2>2
<1>4. file \in [Convs -> Seq(Line)]
  <2>1. \A c \in Convs : file[c] \in Lines(MaxEntries)
    BY <1>1, <1>2, LinesGrow
  <2>2. file \in [Convs -> Lines(MaxEntries)]
    BY <1>2, <2>1
  <2>3. QED
    BY <2>2 DEF Lines, Line
<1>5. \A e \in DOMAIN entries : entries[e] \in 0..e - 1
  <2>1. DOMAIN entries = 1..Len(entries)
    BY <1>2
  <2>2. QED
    BY <1>2, <2>1
<1>6. copying.conv \in Convs \cup {NoConv} /\ copying.todo \in Seq(1..Len(entries))
  BY <1>2
<1>7. QED
  BY <1>1, <1>2, <1>3, <1>4, <1>5, <1>6 DEF TypeOK

\* The state of both stores and both processes has its type: in particular an
\* entry points at an earlier one, and no bound is passed.
THEOREM ConversationsType == Spec => []TypeOK
<1>1. Rows /\ Snapshots /\ LogInv => TypeOK
  BY InvTypes
<1>2. QED
  BY <1>1, ConversationsInvariance, PTL

\* A fork of the turns in the database is a snapshot: it begins with the turns
\* its source had, later turns of either are not in the other, and no turn
\* belongs to an unknown conversation.
THEOREM ForksAreSnapshots == Spec => []ForkIsSnapshot
<1>1. Rows /\ Snapshots /\ LogInv => ForkIsSnapshot
  BY SnapshotsHold
<1>2. QED
  BY <1>1, ConversationsInvariance, PTL

\* Without a torn write the path to the latest leaf is the whole log.
LEMMA InvPathIsWhole ==
    ASSUME LogInv
    PROVE  PathIsWhole
<1> SUFFICES ASSUME tears = 0, NEW c \in Convs
             PROVE  Path(Load(c), LastLeaf(Load(c))) = returned[c]
  BY DEF PathIsWhole
<1>1. PICK loaded : loaded = Load(c)
  OBVIOUS
<1>2. PICK n : n = Len(entries)
  OBVIOUS
<1>3. Parents(n) /\ loaded \in Seq(1..n) /\ Climbs(loaded) /\ loaded = returned[c]
  BY <1>1, <1>2, Loaded DEF LogInv, Tree
<1>4. IsChain(entries, loaded)
  BY <1>3 DEF LogInv, Whole, Entire
<1>5. Path(loaded, LastLeaf(loaded)) = loaded
  BY <1>2, <1>3, <1>4, ChainIsPath
<1>6. QED
  BY <1>1, <1>3, <1>5

\* What a load misses is lost.
LEMMA InvTearCostsOne ==
    ASSUME LogInv
    PROVE  TearCostsOne
<1> DEFINE missed == {p \in Convs \X DOMAIN entries :
                        p[2] \in ToSet(returned[p[1]]) /\ p[2] \notin ToSet(Load(p[1]))}
<1>1. PICK n \in Nat : n = Len(entries) /\ DOMAIN entries = 1..n
  BY DEF LogInv, Tree, Parents
<1>2. file \in [Convs -> Lines(n)] /\ tears \in Nat
  BY <1>1, BoundsAssumption DEF LogInv, Tree
<1>3. missed \subseteq LostIn(file, returned)
  <2> SUFFICES ASSUME NEW p \in missed PROVE p \in LostIn(file, returned)
    OBVIOUS
  <2>1. PICK c \in Convs, e \in 1..n : p = <<c, e>>
    BY <1>1
  <2>2. e \in ToSet(returned[c]) /\ e \notin ToSet(Load(c))
    BY <2>1
  <2>3. ToSet(Load(c)) = {file[c][i].entry : i \in 1..Len(file[c])} \ {0}
    BY <1>2, ParsedSet DEF Load
  <2>4. \A i \in 1..Len(file[c]) : file[c][i].entry # e
    BY <2>2, <2>3
  <2>5. QED
    BY <2>1, <2>2, <2>4 DEF LostIn
<1>4. PICK lost, open : lost = LostIn(file, returned) /\ open = OpenIn(file)
  OBVIOUS
<1>5. Pays(lost, open, tears)
  BY <1>4 DEF LogInv, Costs
<1> HIDE DEF missed
<1>6. Pays(missed, open, tears)
  BY <1>2, <1>3, <1>4, <1>5, PaysLess
<1>7. Cardinality(missed) <= tears
  BY <1>2, <1>6, FS_CardinalityType DEF Pays
<1>8. ASSUME NEW c \in Convs
      PROVE  \A i, j \in DOMAIN Load(c) : i < j => Load(c)[i] < Load(c)[j]
  <2>1. Load(c) \in Seq(1..Len(entries)) /\ Climbs(Load(c))
    BY Loaded
  <2>2. DOMAIN Load(c) = 1..Len(Load(c))
    BY <2>1
  <2>3. QED
    BY <2>1, <2>2 DEF Climbs
<1>9. QED
  BY <1>7, <1>8 DEF TearCostsOne, missed

\* Turns that fail half way, crashes and forks cost nothing: without a torn
\* write a conversation shows all that was ever appended to it, in order, and a
\* torn write costs at most one entry whose append returned.
THEOREM LogStaysIntact == Spec => []LogIntact
<1>1. Rows /\ Snapshots /\ LogInv => LogIntact
  BY InvPathIsWhole, InvTearCostsOne DEF LogIntact
<1>2. QED
  BY <1>1, ConversationsInvariance, PTL
=============================================================================
