---------------------------- MODULE ThreadPoolProofs ----------------------------
(***************************************************************************)
(* The thread pool, for any number of threads, any graphs and any number   *)
(* of chunks.                                                              *)
(*                                                                         *)
(* Between two barriers all threads of a graph are bound for the same      *)
(* goal: to convert the work buffer for a product, to compute a node, or   *)
(* to stop.  The invariant says that there is such a goal (Bound), what of *)
(* it each thread has done (Work), that the barrier's counter counts the   *)
(* threads that have arrived (BarrierCounts), and, when there is no goal,  *)
(* that the graph is over for every worker (Over).                         *)
(***************************************************************************)
EXTENDS ThreadPool, FiniteSetTheorems, WellFoundedInduction, TLAPS

\* The threads that take part in the last graph, and what each does there.
Party == 0 .. n_graph.threads - 1
Joined(t) == t = 0 \/ last[t] = n_graph
Arrived(t) == pc[t] \in {"spin", "reset", "pass"} /\ seen[t] = n_passed
Released(t) == pc[t] = "spin" /\ seen[t] < n_passed
Leaving(t) == then[t] = "done" /\ (pc[t] = "done" \/ Released(t))

\* A worker inside a graph is in the last one, or on its way out of an earlier.
WorkersInOrder ==
    /\ pc[0] \in Computing \cup Outside
    /\ pc[0] \in Computing => n_graph.threads >= 1
    /\ pc[0] = "kick" => /\ n_graph.count < MaxGraphs
                         /\ abort = -1 /\ did = {}
    /\ abort # -1 => aborted
    /\ \A t \in Workers :
        /\ pc[t] \notin Outside
        /\ pending[t] => pc[t] = "begin"
        /\ last[t].count <= n_graph.count
        /\ last[t].count = n_graph.count => last[t] = n_graph
        /\ pc[t] \in Computing => IF last[t] = n_graph THEN t \in Party ELSE Leaving(t)

\* The barrier's counter counts who has arrived, until the last one resets it;
\* then everybody has.
BarrierCounts ==
    /\ n_barrier = IF \E t \in Threads : pc[t] = "pass" THEN 0 ELSE Cardinality({t \in Party : Arrived(t)})
    /\ \A t \in Threads : pc[t] \in {"reset", "pass"} =>
        /\ \A u \in Party : Arrived(u)
        /\ \A u \in Threads \ {t} : pc[u] \notin {"reset", "pass"}
    /\ \A t \in Threads : /\ pc[t] = "add" => seen[t] = n_passed
                          /\ pc[t] = "spin" => seen[t] <= n_passed

\* The goal g at node w, and a thread at the head of the loop that will come to
\* it from node n, skipping nodes in between.
Kind(n) == cgraph[n + 1].kind
Sound(g, w) ==
    /\ g = "stop" => w = Len(cgraph) \/ abort = w
    /\ g # "stop" => w < Len(cgraph)
    /\ g = "convert" => Kind(w) = "mul"
    /\ g = "compute" => Kind(w) # "nop"
Comes(n, g, w) ==
    /\ n <= w
    /\ \A k \in n .. w - 1 : Kind(k) = "nop" /\ abort # k
    /\ g # "stop" => abort # w
    /\ g = "compute" => Kind(w) = "op"

\* The barrier behind the goal.
AtBarrier(t, g, w) ==
    /\ g = "convert" => then[t] = "chunks" /\ node[t] = w
    /\ g = "compute" => then[t] = (IF w + 1 < Len(cgraph) THEN "node" ELSE "done") /\ node[t] = w + 1
    /\ g = "stop" => then[t] = "done" /\ node[t] = w
Ahead(t) == pc[t] \in {"enter", "add"} \/ Arrived(t)

\* A thread that is bound for the goal has not begun, is on its way, is at it,
\* or has reached the barrier behind it.
Bound(t, g, w) ==
    \/ ~Joined(t) /\ Comes(0, g, w)
    \/ Joined(t) /\ pc[t] = "begin" /\ Comes(0, g, w)
    \/ Joined(t) /\ pc[t] = "node" /\ Comes(node[t], g, w)
    \/ Joined(t) /\ Released(t) /\ then[t] = "node" /\ Comes(node[t], g, w)
    \/ Joined(t) /\ pc[t] = "mul" /\ g = "convert" /\ node[t] = w
    \/ Joined(t) /\ pc[t] = "op" /\ g = "compute" /\ node[t] = w /\ Kind(w) = "op"
    \/ Joined(t) /\ Released(t) /\ then[t] = "chunks" /\ g = "compute" /\ node[t] = w /\ Kind(w) = "mul"
    \/ Joined(t) /\ pc[t] \in {"chunks", "claim"} /\ g = "compute" /\ node[t] = w /\ Kind(w) = "mul"
    \/ Joined(t) /\ pc[t] = "computed" /\ g = "compute" /\ node[t] = w
    \/ Joined(t) /\ pc[t] = "node" /\ g = "compute" /\ node[t] = w + 1 /\ w + 1 = Len(cgraph)
    \/ Joined(t) /\ Ahead(t) /\ AtBarrier(t, g, w)

\* What has been done of the goal: every piece before it; of a conversion, the
\* parts of those who are ahead; of an operator, their pieces; of a product,
\* each claimed chunk is computed or held by one thread that will compute it.
Holds(t) == pc[t] = "chunks" \/ (Released(t) /\ then[t] = "chunks")
Past(t, w) == pc[t] = "computed" \/ Ahead(t) \/ (pc[t] = "node" /\ node[t] = w + 1)
Count(w) == NumChunks(w, n_graph.threads)

Converted(w) ==
    /\ \A t \in Party : Ahead(t) => part[t] = w + 1 /\ mine[t] = t
    /\ Ahead(0) => chunk = n_graph.threads
OperatorDone(w) == \A t \in Party : Past(t, w) => <<w, t>> \in did
ChunksClaimed(w) ==
    /\ chunk >= n_graph.threads
    /\ \A t \in Party : part[t] = w + 1 /\ Joined(t) /\ pc[t] # "begin"
    /\ \A t \in Party : Holds(t) =>
        /\ mine[t] < chunk /\ <<w, mine[t]>> \notin did
        /\ \A u \in Party \ {t} : Holds(u) => mine[u] # mine[t]
    /\ \A c \in 0 .. chunk - 1 :
        c < Count(w) => <<w, c>> \in did \/ \E t \in Party : Holds(t) /\ mine[t] = c
    /\ \A p \in did : p[1] = w => p[2] < chunk
    /\ \A t \in Party : /\ pc[t] = "claim" => n_graph.threads < Count(w)
                        /\ Past(t, w) => chunk >= Count(w)
Work(g, w) ==
    /\ Before(w) \subseteq did
    /\ did \subseteq Before(w) \cup (IF g = "compute" THEN Pieces(w) ELSE {})
    /\ \A t \in Party : Joined(t) /\ pc[t] # "begin" => nth[t] = n_graph.threads
    /\ g = "convert" => Converted(w)
    /\ g = "compute" /\ Kind(w) = "op" => OperatorDone(w)
    /\ g = "compute" /\ Kind(w) = "mul" => ChunksClaimed(w)

Goal(g, w) == Sound(g, w) /\ (\A t \in Party : Bound(t, g, w)) /\ Work(g, w)
Goals == {"convert", "compute", "stop"}
Running == n_graph.threads >= 1 /\ \E g \in Goals, w \in 0 .. Len(cgraph) : Goal(g, w)

\* No goal is left: thread 0 and its workers are on their way out, if not out.
Over ==
    /\ pc[0] \notin Computing \/ Leaving(0)
    /\ \A t \in Party \ {0} : last[t] = n_graph /\ (pc[t] \in Computing => Leaving(t))
    /\ Leaving(0) /\ pc[0] \in Computing =>
        \E n \in 0 .. Len(cgraph) : did = Before(n) /\ (aborted \/ n = Len(cgraph))

\* All threads are about to go for a new goal: at the head of the loop with node
\* n, or at their first chunk of the product at n.
AtHead(t, n) ==
    \/ n = 0 /\ (~Joined(t) \/ pc[t] = "begin")
    \/ Joined(t) /\ node[t] = n /\ (pc[t] = "node" \/ (Released(t) /\ then[t] = "node"))
HeadAt(n) ==
    \A t \in Party : AtHead(t, n) /\ (Joined(t) /\ pc[t] # "begin" => nth[t] = n_graph.threads)
ProductAt(n) ==
    /\ n < Len(cgraph) /\ Kind(n) = "mul" /\ chunk = n_graph.threads
    /\ \A t \in Party : /\ Joined(t) /\ Holds(t) /\ node[t] = n /\ nth[t] = n_graph.threads
                        /\ part[t] = n + 1 /\ mine[t] = t
Fresh ==
    /\ TypeOK /\ WorkersInOrder /\ n_graph.threads >= 1
    /\ \E n \in 0 .. Len(cgraph) : did = Before(n) /\ (HeadAt(n) \/ ProductAt(n))

IInv == TypeOK /\ WorkersInOrder /\ BarrierCounts /\ (Over \/ (pc[0] \in Computing /\ Running))

-----------------------------------------------------------------------------
(* Constants, the graph and its pieces.                                    *)

LEMMA Constants ==
    /\ N \in Nat \ {0} /\ ChunkFactor \in Nat /\ MaxGraphs \in Nat
    /\ 0 \in Threads /\ Workers \subseteq Threads /\ 0 \notin Workers
    /\ Threads = Workers \cup {0} /\ Threads \subseteq Nat
    /\ \A g \in Graphs \cup {<<>>} : g \in Seq(Nodes)
<1>1. N \in Nat \ {0} /\ ChunkFactor \in Nat /\ MaxGraphs \in Nat
  BY NAssumption
<1>2. <<>> \in Seq(Nodes)
  OBVIOUS
<1>3. /\ 0 \in Threads /\ Workers \subseteq Threads /\ 0 \notin Workers
      /\ Threads = Workers \cup {0} /\ Threads \subseteq Nat
  BY <1>1 DEF Threads, Workers
<1>4. \A g \in Graphs \cup {<<>>} : g \in Seq(Nodes)
  BY <1>2, GraphsAssumption
<1>5. QED
  BY <1>1, <1>3, <1>4

LEMMA GraphFacts ==
    ASSUME TypeOK
    PROVE  /\ cgraph \in Seq(Nodes) /\ Len(cgraph) \in Nat
           /\ \A n \in 0 .. Len(cgraph) - 1 :
                 cgraph[n + 1] \in Nodes /\ Kind(n) \in {"mul", "op", "nop"} /\ cgraph[n + 1].chunks \in Nat
           /\ n_graph.threads \in 0 .. N /\ n_graph.count \in 0 .. MaxGraphs
           /\ Party \subseteq Threads
<1>1. cgraph \in Seq(Nodes)
  BY Constants DEF TypeOK
<1>2. ASSUME NEW n \in 0 .. Len(cgraph) - 1
      PROVE  cgraph[n + 1] \in Nodes /\ Kind(n) \in {"mul", "op", "nop"} /\ cgraph[n + 1].chunks \in Nat
  <2>1. n + 1 \in 1 .. Len(cgraph)
    BY <1>1
  <2>2. cgraph[n + 1] \in Nodes
    BY <1>1, <2>1
  <2>3. QED
    BY <2>2 DEF Kind, Nodes
<1>3. n_graph.threads \in 0 .. N /\ n_graph.count \in 0 .. MaxGraphs
  BY DEF TypeOK
<1>4. Party \subseteq Threads
  BY <1>3, Constants DEF Party, Threads
<1>5. QED
  BY <1>1, <1>2, <1>3, <1>4

\* Pieces of a node are numbered from 0; there are at least as many chunks as
\* the count of chunks says.
LEMMA CountType ==
    ASSUME TypeOK, NEW w \in 0 .. Len(cgraph) - 1
    PROVE  Count(w) \in Nat
<1>1. n_graph.threads \in Nat
  <2>1. n_graph.threads \in 0 .. N /\ N \in Nat
    BY GraphFacts, Constants
  <2>2. QED
    BY <2>1
<1>2. cgraph[w + 1].chunks \in Nat
  BY GraphFacts
<1>3. Count(w) \in {n_graph.threads, cgraph[w + 1].chunks}
  BY DEF Count, NumChunks
<1>4. QED
  BY <1>1, <1>2, <1>3

LEMMA PieceOf ==
    ASSUME NEW n, NEW p
    PROVE  p \in Pieces(n) <=>
              /\ Kind(n) # "nop" /\ p = <<n, p[2]>>
              /\ p[2] \in 0 .. (IF Kind(n) = "op" THEN n_graph.threads ELSE Count(n)) - 1
BY DEF Pieces, Share, Kind, Count

LEMMA BeforeFirst ==
    ASSUME NEW n \in Nat, NEW p \in Before(n)
    PROVE  p[1] \in 0 .. n - 1
<1>1. PICK m \in 0 .. n - 1 : p \in Pieces(m)
  BY DEF Before
<1>2. QED
  BY <1>1, PieceOf

LEMMA BeforeNext ==
    ASSUME NEW n \in Nat
    PROVE  Before(n + 1) = Before(n) \cup Pieces(n)
<1>1. 0 .. (n + 1) - 1 = (0 .. n - 1) \cup {n}
  OBVIOUS
<1>2. QED
  BY <1>1 DEF Before

LEMMA BeforeSkip ==
    ASSUME NEW n \in Nat, NEW w \in Nat, n <= w, \A k \in n .. w - 1 : Kind(k) = "nop"
    PROVE  Before(w) = Before(n)
<1>1. Before(n) \subseteq Before(w)
  BY DEF Before
<1>2. ASSUME NEW m \in 0 .. w - 1, NEW p \in Pieces(m) PROVE m \in 0 .. n - 1
  <2>1. Kind(m) # "nop"
    BY <1>2, PieceOf
  <2>2. ~ (n <= m)
    BY <2>1
  <2>3. QED
    BY <2>2
<1>3. Before(w) \subseteq Before(n)
  BY <1>2 DEF Before
<1>4. QED
  BY <1>1, <1>3

LEMMA NothingBeforeFirst == Before(0) = {}
BY DEF Before

-----------------------------------------------------------------------------
(* The next goal.                                                          *)

\* A set of numbers that is not empty has a least element.
LEMMA Least ==
    ASSUME NEW T \in SUBSET Nat, T # {}
    PROVE  \E m \in T : \A k \in T : m <= k
<1>1. PICK n \in T : TRUE
  OBVIOUS
<1> DEFINE Below == {0 .. k : k \in {j \in T : j <= n}}
<1>2. IsWellFoundedOn(StrictSubsetOrdering(0 .. n), FiniteSubsetsOf(0 .. n))
  BY FS_StrictSubsetOrderingWellFounded
<1>3. Below \subseteq FiniteSubsetsOf(0 .. n) /\ Below # {}
  <2>1. \A k \in Nat : k <= n => 0 .. k \subseteq 0 .. n /\ IsFiniteSet(0 .. k)
    BY FS_Interval
  <2>2. 0 .. n \in Below
    OBVIOUS
  <2>3. QED
    BY <2>1, <2>2 DEF FiniteSubsetsOf
<1>4. PICK b \in Below : \A c \in Below : <<c, b>> \notin StrictSubsetOrdering(0 .. n)
  BY <1>2, <1>3, WFMin
<1>5. PICK m \in T : m <= n /\ b = 0 .. m
  OBVIOUS
<1>6. ASSUME NEW k \in T, k < m PROVE FALSE
  <2>1. 0 .. k \in Below
    BY <1>6, <1>5
  <2>2. 0 .. k \subseteq 0 .. m /\ m \in 0 .. m /\ m \notin 0 .. k /\ 0 .. m \subseteq 0 .. n
    BY <1>5, <1>6
  <2>3. <<0 .. k, 0 .. m>> \in StrictSubsetOrdering(0 .. n)
    BY <2>2 DEF StrictSubsetOrdering
  <2>4. QED
    BY <2>1, <2>3, <1>4, <1>5
<1>7. QED
  BY <1>6

\* Skipping nodes ends at the first node that stops the loop.
LEMMA FirstStop ==
    ASSUME TypeOK, NEW n \in 0 .. Len(cgraph)
    PROVE  \E w \in n .. Len(cgraph) :
              /\ w = Len(cgraph) \/ abort = w \/ Kind(w) # "nop"
              /\ \A k \in n .. w - 1 : Kind(k) = "nop" /\ abort # k
<1> DEFINE Stops(k) == k = Len(cgraph) \/ abort = k \/ Kind(k) # "nop"
           S == {k \in n .. Len(cgraph) : Stops(k)}
<1>1. Len(cgraph) \in Nat /\ n \in Nat
  BY GraphFacts
<1>2. S \in SUBSET Nat /\ S # {}
  BY <1>1
<1>3. PICK w \in S : \A k \in S : w <= k
  <2> HIDE DEF S
  <2>1. QED
    BY <1>2, Least
<1>4. ASSUME NEW k \in n .. w - 1 PROVE ~Stops(k)
  <2>1. k \in n .. Len(cgraph) /\ ~(w <= k)
    BY <1>1, <1>3
  <2>2. QED
    BY <1>3, <2>1
<1>5. QED
  BY <1>3, <1>4

\* A worker that has not taken the graph is outside every barrier and node.
LEMMA Unjoined ==
    ASSUME TypeOK, WorkersInOrder, NEW t \in Threads, ~Joined(t), NEW w
    PROVE  /\ t \in Workers /\ (pc[t] \notin Computing \/ Leaving(t))
           /\ ~Ahead(t) /\ ~Holds(t) /\ ~Past(t, w)
           /\ pc[t] \notin {"begin", "node", "op", "mul", "chunks", "claim", "computed", "enter", "add", "reset", "pass"}
<1>1. t \in Workers /\ (pc[t] \notin Computing \/ Leaving(t))
  BY Constants DEF WorkersInOrder, Joined
<1>2. pc[t] \notin {"begin", "node", "op", "mul", "chunks", "claim", "computed", "enter", "add", "reset", "pass"}
  BY <1>1 DEF Leaving, Released, Computing
<1>3. ~Arrived(t)
  <2>1. seen[t] \in Nat /\ n_passed \in Nat
    BY DEF TypeOK
  <2>2. QED
    BY <1>1, <1>2, <2>1 DEF Leaving, Released, Arrived, Computing
<1>4. ~Holds(t)
  BY <1>1, <1>2 DEF Holds, Leaving, Released, Computing
<1>5. QED
  BY <1>1, <1>2, <1>3, <1>4 DEF Ahead, Past

LEMMA NotBoth ==
    ASSUME TypeOK, NEW t \in Threads
    PROVE  ~(Released(t) /\ Ahead(t))
<1>1. seen[t] \in Nat /\ n_passed \in Nat
  BY DEF TypeOK
<1>2. QED
  BY <1>1 DEF Released, Ahead, Arrived

LEMMA HeadGoal ==
    ASSUME TypeOK, WorkersInOrder, n_graph.threads >= 1, NEW n \in 0 .. Len(cgraph),
           did = Before(n), HeadAt(n)
    PROVE  Running
<1>0. Len(cgraph) \in Nat /\ n \in Nat /\ Party \subseteq Threads
  BY GraphFacts
<1>1. PICK w \in n .. Len(cgraph) :
         /\ w = Len(cgraph) \/ abort = w \/ Kind(w) # "nop"
         /\ \A k \in n .. w - 1 : Kind(k) = "nop" /\ abort # k
  BY FirstStop
<1> DEFINE g == IF w = Len(cgraph) \/ abort = w THEN "stop"
                ELSE IF Kind(w) = "mul" THEN "convert" ELSE "compute"
<1>2. Sound(g, w) /\ Comes(n, g, w) /\ g \in Goals /\ w \in 0 .. Len(cgraph) /\ w \in Nat
  <2>1. w \in 0 .. Len(cgraph) /\ w \in Nat /\ n <= w
    BY <1>0
  <2>2. g # "stop" => w \in 0 .. Len(cgraph) - 1 /\ abort # w
    BY <2>1
  <2>3. g # "stop" => Kind(w) \in {"mul", "op"}
    BY <1>1, <2>2, GraphFacts
  <2>4. QED
    BY <1>1, <2>1, <2>2, <2>3 DEF Sound, Comes, Goals
<1> HIDE DEF g
<1>3. ASSUME NEW t \in Party PROVE Bound(t, g, w) /\ ~Ahead(t) /\ ~Past(t, w)
  <2>1. AtHead(t, n) /\ t \in Threads
    BY <1>0 DEF HeadAt
  <2>2. CASE ~Joined(t)
    <3>1. n = 0
      BY <2>1, <2>2 DEF AtHead
    <3>2. QED
      BY <1>2, <2>1, <2>2, <3>1, Unjoined DEF Bound
  <2>3. CASE Joined(t) /\ pc[t] = "begin" /\ n = 0
    BY <1>2, <2>3 DEF Bound, Ahead, Arrived, Past
  <2>4. CASE Joined(t) /\ node[t] = n /\ pc[t] = "node"
    BY <1>2, <1>0, <2>4 DEF Bound, Ahead, Arrived, Past
  <2>5. CASE Joined(t) /\ node[t] = n /\ Released(t) /\ then[t] = "node"
    BY <1>2, <2>1, <2>5, NotBoth DEF Bound, Past, Released
  <2>6. QED
    BY <2>1, <2>2, <2>3, <2>4, <2>5 DEF AtHead
<1>4. Before(w) = did
  BY <1>0, <1>1, <1>2, BeforeSkip
<1>5. Converted(w) /\ OperatorDone(w) /\ ~(g = "compute" /\ Kind(w) = "mul")
  <2>1. 0 \in Party
    BY GraphFacts DEF Party
  <2>2. Converted(w) /\ OperatorDone(w)
    BY <1>3, <2>1 DEF Converted, OperatorDone
  <2>3. QED
    BY <2>2 DEF g
<1>6. Work(g, w)
  BY <1>4, <1>5 DEF Work, HeadAt
<1>7. QED
  BY <1>2, <1>3, <1>6 DEF Running, Goal

LEMMA ProductGoal ==
    ASSUME TypeOK, WorkersInOrder, n_graph.threads >= 1, NEW n \in 0 .. Len(cgraph),
           did = Before(n), ProductAt(n)
    PROVE  Running
<1>0. /\ Len(cgraph) \in Nat /\ n \in Nat /\ Party \subseteq Threads
      /\ n_graph.threads \in Nat /\ n < Len(cgraph) /\ Kind(n) = "mul"
  <2>1. n_graph.threads \in 0 .. N /\ N \in Nat
    BY GraphFacts, Constants
  <2>2. QED
    BY <2>1, GraphFacts DEF ProductAt
<1>1. Sound("compute", n)
  BY <1>0 DEF Sound
<1>2. ASSUME NEW t \in Party
      PROVE  /\ Bound(t, "compute", n) /\ ~Ahead(t) /\ ~Past(t, n) /\ pc[t] \notin {"claim", "begin"}
             /\ Joined(t) /\ part[t] = n + 1 /\ nth[t] = n_graph.threads /\ Holds(t) /\ mine[t] = t
  <2>1. /\ t \in Threads /\ Joined(t) /\ Holds(t) /\ node[t] = n
        /\ part[t] = n + 1 /\ nth[t] = n_graph.threads /\ mine[t] = t
    BY <1>0 DEF ProductAt
  <2>2. CASE pc[t] = "chunks"
    BY <1>0, <2>1, <2>2 DEF Bound, Ahead, Arrived, Past
  <2>3. CASE Released(t) /\ then[t] = "chunks"
    <3>1. pc[t] = "spin" /\ ~Ahead(t)
      BY <2>1, <2>3, NotBoth DEF Released
    <3>2. QED
      BY <1>0, <2>1, <2>3, <3>1 DEF Bound, Past
  <2>4. QED
    BY <2>1, <2>2, <2>3 DEF Holds
<1>3. \A p \in did : p[1] # n
  BY <1>0, BeforeFirst
<1>4. ChunksClaimed(n)
  <2>1. chunk = n_graph.threads /\ chunk >= n_graph.threads
    BY <1>0 DEF ProductAt
  <2>2. \A t \in Party : mine[t] < chunk /\ <<n, mine[t]>> \notin did
    <3> SUFFICES ASSUME NEW t \in Party PROVE mine[t] < chunk /\ <<n, mine[t]>> \notin did
      OBVIOUS
    <3>1. mine[t] = t /\ t < n_graph.threads
      BY <1>0, <1>2 DEF Party
    <3>2. <<n, mine[t]>> \notin did
      BY <1>3
    <3>3. QED
      BY <2>1, <3>1, <3>2
  <2>3. \A t \in Party : \A u \in Party \ {t} : mine[u] # mine[t]
    BY <1>2
  <2>4. \A c \in 0 .. chunk - 1 : \E t \in Party : Holds(t) /\ mine[t] = c
    BY <1>2, <2>1 DEF Party
  <2>5. QED
    BY <1>2, <1>3, <2>1, <2>2, <2>3, <2>4 DEF ChunksClaimed
<1>5. Work("compute", n)
  BY <1>0, <1>2, <1>4 DEF Work
<1>6. QED
  BY <1>0, <1>1, <1>2, <1>5 DEF Running, Goal, Goals

LEMMA NewGoal == Fresh => Running
BY HeadGoal, ProductGoal DEF Fresh

LEMMA NewGoalNext == Fresh' => Running'
BY NewGoal, PTL

-----------------------------------------------------------------------------
(* What a step of one thread leaves alone.                                 *)

Still(u) ==
    /\ pc'[u] = pc[u] /\ then'[u] = then[u] /\ node'[u] = node[u] /\ nth'[u] = nth[u]
    /\ mine'[u] = mine[u] /\ seen'[u] = seen[u] /\ pending'[u] = pending[u] /\ part'[u] = part[u]
OnlyMoves(t) ==
    /\ UNCHANGED <<cgraph, n_graph, stop, pause, last>>
    /\ \A u \in Threads \ {t} : Still(u)

LEMMA StepFrame ==
    ASSUME TypeOK, NEW t \in Threads, ComputeStep(t)
    PROVE  OnlyMoves(t)
<1> USE DEF TypeOK, OnlyMoves, Still, Go, GoToBarrier, shared, local
<1>1. CASE Begin(t)
  BY <1>1 DEF Begin
<1>2. CASE Loop(t)
  BY <1>2 DEF Loop
<1>3. CASE Op(t)
  BY <1>3 DEF Op
<1>4. CASE Convert(t)
  BY <1>4 DEF Convert
<1>5. CASE Chunk(t)
  BY <1>5 DEF Chunk
<1>6. CASE Claim(t)
  BY <1>6 DEF Claim
<1>7. CASE Computed(t)
  BY <1>7 DEF Computed, Met
<1>8. CASE Enter(t)
  BY <1>8 DEF Enter
<1>9. CASE Add(t)
  BY <1>9 DEF Add
<1>10. CASE Reset(t)
  BY <1>10 DEF Reset
<1>11. CASE Pass(t)
  BY <1>11 DEF Pass
<1>12. CASE Spin(t)
  BY <1>12 DEF Spin
<1>13. CASE Done(t)
  BY <1>13 DEF Done
<1>14. QED
  BY <1>1, <1>2, <1>3, <1>4, <1>5, <1>6, <1>7, <1>8, <1>9, <1>10, <1>11, <1>12, <1>13 DEF ComputeStep

\* The pieces depend on the graph and its threads only.
LEMMA SamePieces ==
    ASSUME UNCHANGED <<cgraph, n_graph>>
    PROVE  /\ Party' = Party
           /\ \A n : Kind(n)' = Kind(n) /\ Count(n)' = Count(n) /\ Pieces(n)' = Pieces(n) /\ Before(n)' = Before(n)
<1>1. Party' = Party /\ \A n : Kind(n)' = Kind(n)
  BY DEF Party, Kind
<1>2. \A n : Count(n)' = Count(n)
  BY DEF Count, NumChunks
<1>3. \A n : Pieces(n)' = Pieces(n)
  BY DEF Pieces, Share, NumChunks
<1>4. \A n : Before(n)' = Before(n)
  BY <1>3 DEF Before
<1>5. QED
  BY <1>1, <1>2, <1>3, <1>4

\* A thread that stands still and joins nothing stays where it was.
LEMMA StillSame ==
    ASSUME NEW u, Still(u), UNCHANGED <<n_passed, n_graph, last[u]>>, NEW w
    PROVE  /\ Joined(u)' = Joined(u) /\ Arrived(u)' = Arrived(u) /\ Released(u)' = Released(u)
           /\ Leaving(u)' = Leaving(u) /\ Ahead(u)' = Ahead(u) /\ Holds(u)' = Holds(u)
           /\ Past(u, w)' = Past(u, w)
BY DEF Still, Joined, Arrived, Released, Leaving, Ahead, Holds, Past

LEMMA KeepBound ==
    ASSUME NEW u, Still(u), UNCHANGED <<cgraph, n_graph, n_passed, last[u]>>,
           NEW g, NEW w \in Nat, Bound(u, g, w),
           abort' = abort \/ (g = "compute" /\ abort' = w + 1)
    PROVE  Bound(u, g, w)'
<1>1. Joined(u)' = Joined(u) /\ Released(u)' = Released(u) /\ Ahead(u)' = Ahead(u)
  BY StillSame
<1>2. ASSUME NEW n, Comes(n, g, w) PROVE Comes(n, g, w)'
  <2>1. CASE abort' = abort
    BY <1>2, <2>1 DEF Comes, Kind
  <2>2. CASE g = "compute" /\ abort' = w + 1
    <3>1. \A k \in n .. w - 1 : w + 1 # k
      OBVIOUS
    <3>2. w + 1 # w
      OBVIOUS
    <3>3. QED
      BY <1>2, <2>2, <3>1, <3>2 DEF Comes, Kind
  <2>3. QED
    BY <2>1, <2>2
<1>3. AtBarrier(u, g, w)' = AtBarrier(u, g, w)
  BY DEF AtBarrier, Still
<1>4. Comes(0, g, w) => Comes(0, g, w)'
  BY <1>2
<1>5. Comes(node[u], g, w) => Comes(node[u], g, w)'
  <2>1. PICK n : n = node[u]
    OBVIOUS
  <2>2. node'[u] = n
    BY <2>1 DEF Still
  <2>3. Comes(n, g, w) => Comes(n, g, w)'
    BY <1>2
  <2>4. QED
    BY <2>1, <2>2, <2>3 DEF Comes, Still
<1>6. QED
  BY <1>1, <1>3, <1>4, <1>5 DEF Bound, Still, Kind

-----------------------------------------------------------------------------
(* The work of a goal.                                                     *)

LEMMA HoldsNotPast ==
    ASSUME TypeOK, NEW t \in Threads, NEW w, Past(t, w)
    PROVE  ~Holds(t)
<1>1. ~(Released(t) /\ Ahead(t))
  BY NotBoth
<1>2. ~(pc[t] = "chunks" /\ Ahead(t))
  BY DEF Ahead, Arrived
<1>3. QED
  BY <1>1, <1>2 DEF Past, Holds, Released

\* When everybody is past a node that was computed, all of it is.
LEMMA Completed ==
    ASSUME TypeOK, n_graph.threads >= 1, NEW w \in 0 .. Len(cgraph) - 1,
           Kind(w) # "nop", Work("compute", w), \A t \in Party : Past(t, w)
    PROVE  did = Before(w + 1)
<1>0. 0 \in Party /\ Party \subseteq Threads /\ w \in Nat /\ Kind(w) \in {"mul", "op"}
  BY GraphFacts DEF Party
<1>1. Before(w) \subseteq did /\ did \subseteq Before(w) \cup Pieces(w)
  BY DEF Work
<1>2. CASE Kind(w) = "op"
  <2>1. \A t \in Party : <<w, t>> \in did
    BY <1>2 DEF Work, OperatorDone
  <2>2. Pieces(w) \subseteq did
    <3> SUFFICES ASSUME NEW p \in Pieces(w) PROVE p \in did
      OBVIOUS
    <3>1. p = <<w, p[2]>> /\ p[2] \in Party
      BY <1>2, PieceOf DEF Party
    <3>2. QED
      BY <2>1, <3>1
  <2>3. QED
    BY <1>0, <1>1, <2>2, BeforeNext
<1>3. CASE Kind(w) = "mul"
  <2>1. ChunksClaimed(w)
    BY <1>3 DEF Work
  <2>2. chunk \in Nat /\ Count(w) \in Nat
    BY CountType DEF TypeOK
  <2>3. chunk >= Count(w)
    BY <1>0, <2>1 DEF ChunksClaimed
  <2>4. \A t \in Party : ~Holds(t)
    BY <1>0, HoldsNotPast
  <2>5. Pieces(w) \subseteq did
    <3> SUFFICES ASSUME NEW p \in Pieces(w) PROVE p \in did
      OBVIOUS
    <3>1. p = <<w, p[2]>> /\ p[2] \in 0 .. Count(w) - 1
      BY <1>3, PieceOf
    <3>2. PICK c : c = p[2]
      OBVIOUS
    <3>3. c \in 0 .. chunk - 1 /\ c < Count(w)
      BY <2>2, <2>3, <3>1, <3>2
    <3>4. <<w, c>> \in did
      BY <2>1, <2>4, <3>3 DEF ChunksClaimed
    <3>5. QED
      BY <3>1, <3>2, <3>4
  <2>6. QED
    BY <1>0, <1>1, <2>5, BeforeNext
<1>4. QED
  BY <1>0, <1>2, <1>3

\* A step of one thread that does no piece of work: it gets no further than it
\* was, as far as the goal can tell.
LEMMA KeepWork ==
    ASSUME TypeOK, NEW t \in Threads, OnlyMoves(t), NEW g \in Goals, NEW w \in 0 .. Len(cgraph), Work(g, w),
           UNCHANGED <<n_passed, did, chunk, part[t], mine[t]>>,
           Joined(t)' /\ pc'[t] # "begin" => nth'[t] = n_graph.threads,
           g = "convert" => (Ahead(t)' => Ahead(t)),
           g = "compute" => (Past(t, w)' => Past(t, w)),
           g = "compute" /\ Kind(w) = "mul" =>
              (Holds(t)' <=> Holds(t)) /\ pc'[t] # "begin" /\ (pc'[t] = "claim" => pc[t] = "claim")
    PROVE  Work(g, w)'
<1>1. /\ Party' = Party /\ Party \subseteq Threads /\ n_graph' = n_graph
      /\ Kind(w)' = Kind(w) /\ Count(w)' = Count(w) /\ Pieces(w)' = Pieces(w) /\ Before(w)' = Before(w)
  BY SamePieces, GraphFacts DEF OnlyMoves
<1>2. \A u \in Party \ {t} : /\ Still(u) /\ Joined(u)' = Joined(u) /\ Ahead(u)' = Ahead(u)
                             /\ Holds(u)' = Holds(u) /\ Past(u, w)' = Past(u, w)
  BY <1>1, StillSame DEF OnlyMoves
<1>3. Joined(t)' = Joined(t)
  BY DEF OnlyMoves, Joined
<1>4. \A u \in Party : part'[u] = part[u] /\ mine'[u] = mine[u]
  BY <1>2 DEF Still
<1>5. \A u \in Party : Joined(u)' /\ pc'[u] # "begin" => nth'[u] = n_graph'.threads
  BY <1>1, <1>2 DEF Work, Still
<1>6. g = "convert" => Converted(w)'
  <2> SUFFICES ASSUME g = "convert" PROVE Converted(w)'
    OBVIOUS
  <2>1. \A u \in Party : Ahead(u)' => Ahead(u)
    BY <1>2
  <2>2. Ahead(0)' => Ahead(0)
    BY <2>1, StillSame, Constants DEF OnlyMoves
  <2>3. QED
    BY <1>1, <1>4, <2>1, <2>2 DEF Work, Converted
<1>7. g = "compute" => \A u \in Party : Past(u, w)' => Past(u, w)
  BY <1>2
<1>8. g = "compute" /\ Kind(w)' = "op" => OperatorDone(w)'
  BY <1>1, <1>7 DEF Work, OperatorDone
<1>9. g = "compute" /\ Kind(w)' = "mul" => ChunksClaimed(w)'
  <2> SUFFICES ASSUME g = "compute", Kind(w) = "mul" PROVE ChunksClaimed(w)'
    BY <1>1
  <2>1. ChunksClaimed(w)
    BY DEF Work
  <2>2. \A u \in Party : Holds(u)' <=> Holds(u)
    BY <1>2
  <2>3. \A u \in Party : part'[u] = w + 1 /\ Joined(u)' /\ pc'[u] # "begin"
    BY <1>2, <1>3, <1>4, <2>1 DEF ChunksClaimed, Still
  <2>4. \A u \in Party : pc'[u] = "claim" => pc[u] = "claim"
    BY <1>2 DEF Still
  <2>5. \A u \in Party : Holds(u)' =>
           /\ mine'[u] < chunk' /\ <<w, mine'[u]>> \notin did'
           /\ \A v \in Party \ {u} : Holds(v)' => mine'[v] # mine'[u]
    BY <1>4, <2>1, <2>2 DEF ChunksClaimed
  <2>6. \A c \in 0 .. chunk' - 1 : c < Count(w)' => <<w, c>> \in did' \/ \E u \in Party : Holds(u)' /\ mine'[u] = c
    BY <1>1, <1>4, <2>1, <2>2 DEF ChunksClaimed
  <2>7. \A u \in Party : (pc'[u] = "claim" => n_graph'.threads < Count(w)') /\ (Past(u, w)' => chunk' >= Count(w)')
    BY <1>1, <1>7, <2>1, <2>4 DEF ChunksClaimed
  <2>8. chunk' >= n_graph'.threads /\ \A p \in did' : p[1] = w => p[2] < chunk'
    BY <1>1, <2>1 DEF ChunksClaimed
  <2>9. QED
    BY <1>1, <2>3, <2>5, <2>6, <2>7, <2>8 DEF ChunksClaimed
<1>10. QED
  BY <1>1, <1>5, <1>6, <1>8, <1>9 DEF Work

-----------------------------------------------------------------------------
(* Where a thread is, and the barrier's counter.                           *)

\* A thread inside a graph is on its way out, or bound for the common goal.
LEMMA Where ==
    ASSUME IInv, NEW t \in Threads, pc[t] \in Computing
    PROVE  Leaving(t) \/ (t \in Party /\ Joined(t) /\ pc[0] \in Computing /\ Running)
<1>1. CASE t = 0
  <2>1. n_graph.threads \in Nat /\ n_graph.threads >= 1
    <3>1. n_graph.threads \in 0 .. N /\ n_graph.threads >= 1 /\ N \in Nat
      BY <1>1, GraphFacts, Constants DEF IInv, WorkersInOrder
    <3>2. QED
      BY <3>1
  <2>2. 0 \in Party
    BY <2>1 DEF Party
  <2>3. QED
    BY <1>1, <2>2 DEF IInv, Over, Joined
<1>2. CASE t \in Workers /\ last[t] # n_graph
  BY <1>2 DEF IInv, WorkersInOrder
<1>3. CASE t \in Workers /\ last[t] = n_graph
  <2>1. t \in Party /\ t # 0
    BY <1>3, Constants DEF IInv, WorkersInOrder
  <2>2. QED
    BY <1>3, <2>1 DEF IInv, Over, Joined
<1>4. QED
  BY <1>1, <1>2, <1>3, Constants

\* What a thread's program counter says of the goal.
LEMMA BoundAt ==
    ASSUME TypeOK, NEW t \in Threads, Joined(t), NEW g, NEW w, Bound(t, g, w)
    PROVE  /\ pc[t] \in Computing /\ pc[t] # "done" /\ ~Leaving(t)
           /\ pc[t] = "begin" => Comes(0, g, w)
           /\ pc[t] = "node" => Comes(node[t], g, w) \/ (g = "compute" /\ node[t] = w + 1 /\ w + 1 = Len(cgraph))
           /\ pc[t] = "mul" => g = "convert" /\ node[t] = w
           /\ pc[t] = "op" => g = "compute" /\ node[t] = w /\ Kind(w) = "op"
           /\ pc[t] \in {"chunks", "claim"} => g = "compute" /\ node[t] = w /\ Kind(w) = "mul"
           /\ pc[t] = "computed" => g = "compute" /\ node[t] = w
           /\ pc[t] \in {"enter", "add", "reset", "pass"} \/ Arrived(t) => AtBarrier(t, g, w)
           /\ Released(t) => \/ then[t] = "node" /\ Comes(node[t], g, w)
                             \/ then[t] = "chunks" /\ g = "compute" /\ node[t] = w /\ Kind(w) = "mul"
<1>1. ~(Released(t) /\ Ahead(t))
  BY NotBoth
<1> USE DEF Bound, Ahead, Arrived, Released
<1>2. pc[t] \in Computing /\ pc[t] # "done"
  BY DEF Computing
<1>3. ~Leaving(t)
  BY <1>1, <1>2 DEF Leaving
<1>4. pc[t] = "node" => Comes(node[t], g, w) \/ (g = "compute" /\ node[t] = w + 1 /\ w + 1 = Len(cgraph))
  OBVIOUS
<1>5. /\ pc[t] = "mul" => g = "convert" /\ node[t] = w
      /\ pc[t] = "op" => g = "compute" /\ node[t] = w /\ Kind(w) = "op"
      /\ pc[t] \in {"chunks", "claim"} => g = "compute" /\ node[t] = w /\ Kind(w) = "mul"
      /\ pc[t] = "computed" => g = "compute" /\ node[t] = w
      /\ pc[t] = "begin" => Comes(0, g, w)
  OBVIOUS
<1>6. pc[t] \in {"enter", "add", "reset", "pass"} \/ Arrived(t) => AtBarrier(t, g, w)
  BY <1>1
<1>7. Released(t) => \/ then[t] = "node" /\ Comes(node[t], g, w)
                     \/ then[t] = "chunks" /\ g = "compute" /\ node[t] = w /\ Kind(w) = "mul"
  BY <1>1
<1>8. QED
  BY <1>2, <1>3, <1>4, <1>5, <1>6, <1>7

LEMMA Interval ==
    ASSUME NEW T \in Nat
    PROVE  IsFiniteSet(0 .. T - 1) /\ Cardinality(0 .. T - 1) = T
<1>1. 0 \in Int /\ T - 1 \in Int
  OBVIOUS
<1>2. IsFiniteSet(0 .. T - 1) /\ Cardinality(0 .. T - 1) = IF 0 > T - 1 THEN 0 ELSE T - 1 - 0 + 1
  BY <1>1, FS_Interval
<1>3. QED
  BY <1>2

\* Who has arrived, as a set.
LEMMA Arrivals ==
    ASSUME TypeOK, NEW A \in SUBSET Party
    PROVE  /\ IsFiniteSet(A) /\ Cardinality(A) \in Nat /\ Cardinality(A) <= n_graph.threads
           /\ Cardinality(A) = n_graph.threads => A = Party
           /\ \A t \in Party \ A : /\ Cardinality(A \cup {t}) = Cardinality(A) + 1
                                   /\ Cardinality(A) + 1 <= n_graph.threads
<1>1. n_graph.threads \in Nat
  <2>1. n_graph.threads \in 0 .. N /\ N \in Nat
    BY GraphFacts, Constants
  <2>2. QED
    BY <2>1
<1>2. IsFiniteSet(Party) /\ Cardinality(Party) = n_graph.threads
  <2>1. PICK T \in Nat : T = n_graph.threads
    BY <1>1
  <2>2. IsFiniteSet(0 .. T - 1) /\ Cardinality(0 .. T - 1) = T
    BY Interval
  <2>3. QED
    BY <2>1, <2>2 DEF Party
<1>3. /\ IsFiniteSet(A) /\ Cardinality(A) \in Nat /\ Cardinality(A) <= n_graph.threads
      /\ Cardinality(A) = n_graph.threads => A = Party
  BY <1>2, FS_Subset, FS_CardinalityType
<1>4. ASSUME NEW t \in Party \ A
      PROVE  Cardinality(A \cup {t}) = Cardinality(A) + 1 /\ Cardinality(A) + 1 <= n_graph.threads
  <2>1. Cardinality(A \cup {t}) = Cardinality(A) + 1
    BY <1>3, FS_AddElement
  <2>2. A \cup {t} \in SUBSET Party
    OBVIOUS
  <2>3. Cardinality(A \cup {t}) <= n_graph.threads
    BY <1>2, <2>2, FS_Subset
  <2>4. QED
    BY <2>1, <2>3
<1>5. QED
  BY <1>3, <1>4

\* Only a thread of the graph is at the barrier.
LEMMA AtTheBarrier ==
    ASSUME IInv, NEW t \in Threads, pc[t] \in {"enter", "add", "reset", "pass"}
    PROVE  t \in Party /\ Joined(t) /\ Running /\ ~Leaving(t)
<1>1. pc[t] \in Computing /\ ~Leaving(t)
  BY DEF Computing, Leaving, Released
<1>2. QED
  BY <1>1, Where

\* A step that neither arrives nor releases leaves the counter right.
LEMMA KeepBarrier ==
    ASSUME IInv, NEW t \in Threads, UNCHANGED <<n_graph, n_barrier, n_passed>>,
           \A u \in Threads \ {t} : pc'[u] = pc[u] /\ seen'[u] = seen[u],
           Arrived(t)' = Arrived(t), {pc[t], pc'[t]} \cap {"reset", "pass"} = {},
           pc'[t] = "add" => seen'[t] = n_passed,
           pc'[t] = "spin" => seen'[t] <= n_passed
    PROVE  BarrierCounts'
<1>1. Party' = Party /\ Party \subseteq Threads /\ n_graph' = n_graph
  BY GraphFacts DEF IInv, Party
<1>2. \A u \in Threads \ {t} : pc'[u] = pc[u] /\ seen'[u] = seen[u]
  OBVIOUS
<1>3. \A u \in Threads : Arrived(u)' = Arrived(u)
  BY <1>2 DEF Arrived
<1>4. {u \in Party : Arrived(u)}' = {u \in Party : Arrived(u)}
  BY <1>1, <1>3
<1>5. (\E u \in Threads : pc'[u] = "pass") <=> (\E u \in Threads : pc[u] = "pass")
  BY <1>2
<1>6. \A u \in Threads : pc'[u] \in {"reset", "pass"} => u # t /\ pc[u] \in {"reset", "pass"}
  BY <1>2
<1>7. n_barrier' = IF \E u \in Threads : pc'[u] = "pass" THEN 0 ELSE Cardinality({u \in Party : Arrived(u)}')
  BY <1>4, <1>5 DEF IInv, BarrierCounts
<1>8. \A u \in Threads : pc'[u] \in {"reset", "pass"} =>
         /\ \A v \in Party : Arrived(v)'
         /\ \A v \in Threads \ {u} : pc'[v] \notin {"reset", "pass"}
  BY <1>1, <1>2, <1>3, <1>6 DEF IInv, BarrierCounts
<1>9. \A u \in Threads : (pc'[u] = "add" => seen'[u] = n_passed') /\ (pc'[u] = "spin" => seen'[u] <= n_passed')
  BY <1>2 DEF IInv, BarrierCounts
<1>10. QED
  BY <1>1, <1>7, <1>8, <1>9 DEF BarrierCounts

-----------------------------------------------------------------------------
(* Types and the order of the workers, in a step of one thread.            *)

\* A thread that is not on its way out is bound for a common goal.
LEMMA AGoal ==
    ASSUME IInv, NEW t \in Threads, pc[t] \in Computing, ~Leaving(t)
    PROVE  /\ t \in Party /\ Joined(t) /\ pc[0] \in Computing /\ 0 \in Party
           /\ n_graph.threads >= 1 /\ n_graph.threads \in Nat
           /\ \E g \in Goals, w \in 0 .. Len(cgraph) : Goal(g, w) /\ Bound(t, g, w) /\ w \in Nat
<1>1. t \in Party /\ Joined(t) /\ pc[0] \in Computing /\ Running
  BY Where
<1>2. n_graph.threads >= 1 /\ n_graph.threads \in Nat
  <2>1. n_graph.threads \in 0 .. N /\ N \in Nat
    BY GraphFacts, Constants DEF IInv
  <2>2. QED
    BY <1>1, <2>1 DEF Running
<1>3. PICK g \in Goals, w \in 0 .. Len(cgraph) : Goal(g, w)
  BY <1>1 DEF Running
<1>4. w \in Nat /\ Bound(t, g, w)
  BY <1>1, <1>3, GraphFacts DEF IInv, Goal
<1>5. 0 \in Party
  BY <1>2 DEF Party
<1>6. QED
  BY <1>1, <1>2, <1>3, <1>4, <1>5

\* The head of the loop stays within the graph.
LEMMA LoopNode ==
    ASSUME IInv, NEW t \in Threads, pc[t] = "node"
    PROVE  /\ node[t] \in 0 .. Len(cgraph)
           /\ ~AtEnd(t) => node[t] \in 0 .. Len(cgraph) - 1 /\ Current(t).kind = Kind(node[t])
                           /\ Kind(node[t]) \in {"mul", "op", "nop"}
<1>1. pc[t] \in Computing /\ ~Leaving(t)
  BY DEF Computing, Leaving, Released
<1>2. PICK g \in Goals, w \in 0 .. Len(cgraph) : Bound(t, g, w) /\ w \in Nat
  BY <1>1, AGoal
<1>3. Len(cgraph) \in Nat /\ node[t] \in Nat
  BY GraphFacts DEF IInv, TypeOK
<1>4. Comes(node[t], g, w) \/ (g = "compute" /\ node[t] = w + 1 /\ w + 1 = Len(cgraph))
  BY <1>1, <1>2, AGoal, BoundAt DEF IInv
<1>5. node[t] <= w \/ node[t] = Len(cgraph)
  BY <1>4 DEF Comes
<1>6. node[t] \in 0 .. Len(cgraph)
  BY <1>2, <1>3, <1>5
<1>7. ~AtEnd(t) => node[t] \in 0 .. Len(cgraph) - 1
  BY <1>3, <1>6 DEF AtEnd
<1>8. QED
  BY <1>6, <1>7, GraphFacts DEF IInv, Current, Kind

\* The last goal's node, where a node is computed.
LEMMA ComputedNode ==
    ASSUME IInv, NEW t \in Threads, pc[t] = "computed"
    PROVE  node[t] \in 0 .. Len(cgraph) - 1
<1>1. pc[t] \in Computing /\ ~Leaving(t)
  BY DEF Computing, Leaving, Released
<1>2. PICK g \in Goals, w \in 0 .. Len(cgraph) : Goal(g, w) /\ Bound(t, g, w) /\ w \in Nat
  BY <1>1, AGoal
<1>3. g = "compute" /\ node[t] = w
  BY <1>1, <1>2, AGoal, BoundAt DEF IInv
<1>4. w < Len(cgraph) /\ Len(cgraph) \in Nat
  BY <1>2, <1>3, GraphFacts DEF IInv, Goal, Sound
<1>5. QED
  BY <1>2, <1>3, <1>4

\* A thread that still has to arrive has not been counted.
LEMMA RoomAtTheBarrier ==
    ASSUME IInv, NEW t \in Threads, pc[t] = "add"
    PROVE  /\ n_barrier = Cardinality({u \in Party : Arrived(u)})
           /\ ~\E u \in Threads : pc[u] \in {"reset", "pass"}
           /\ t \in Party \ {u \in Party : Arrived(u)}
           /\ n_barrier + 1 <= n_graph.threads /\ n_barrier \in Nat
<1>1. t \in Party /\ ~Arrived(t)
  BY AtTheBarrier DEF Arrived
<1>2. ~\E u \in Threads : pc[u] \in {"reset", "pass"}
  BY <1>1 DEF IInv, BarrierCounts
<1>3. n_barrier = Cardinality({u \in Party : Arrived(u)})
  BY <1>2 DEF IInv, BarrierCounts
<1>4. {u \in Party : Arrived(u)} \in SUBSET Party /\ t \in Party \ {u \in Party : Arrived(u)}
  BY <1>1
<1>5. n_barrier + 1 <= n_graph.threads /\ n_barrier \in Nat
  <2> HIDE DEF Arrived
  <2>1. QED
    BY <1>3, <1>4, Arrivals DEF IInv
<1>6. QED
  BY <1>2, <1>3, <1>4, <1>5

\* A step moves its thread's program counter, and only Done out of the graph.
LEMMA StepPc ==
    ASSUME IInv, NEW t \in Threads, ComputeStep(t)
    PROVE  /\ pc[t] \in Computing /\ pc' = [pc EXCEPT ![t] = pc'[t]]
           /\ IF pc[t] = "done" THEN Done(t) /\ pc'[t] = (IF t = 0 THEN "idle" ELSE "top")
              ELSE pc'[t] \in Computing
<1>0. TypeOK
  BY DEF IInv
<1> USE <1>0 DEF TypeOK, Go, Computing
<1>1. CASE Begin(t)
  BY <1>1 DEF Begin
<1>2. CASE Loop(t)
  <2>1. pc[t] = "node"
    BY <1>2 DEF Loop
  <2>2. ~AtEnd(t) => Current(t).kind \in {"mul", "op", "nop"}
    BY <2>1, LoopNode
  <2>3. pc' = [pc EXCEPT ![t] = pc'[t]]
    BY <1>2 DEF Loop, GoToBarrier
  <2>4. pc'[t] \in {"mul", "op", "node", "enter", "done"}
    BY <1>2, <2>1, <2>2 DEF Loop, GoToBarrier
  <2>5. QED
    BY <2>1, <2>3, <2>4
<1>3. CASE Op(t)
  BY <1>3 DEF Op
<1>4. CASE Convert(t)
  BY <1>4 DEF Convert, GoToBarrier
<1>5. CASE Chunk(t)
  BY <1>5 DEF Chunk
<1>6. CASE Claim(t)
  BY <1>6 DEF Claim
<1>7. CASE Computed(t)
  BY <1>7 DEF Computed, Met, GoToBarrier
<1>8. CASE Enter(t)
  BY <1>8 DEF Enter
<1>9. CASE Add(t)
  BY <1>9 DEF Add
<1>10. CASE Reset(t)
  BY <1>10 DEF Reset
<1>11. CASE Pass(t)
  BY <1>11 DEF Pass
<1>12. CASE Spin(t)
  BY <1>12 DEF Spin
<1>13. CASE Done(t)
  BY <1>13 DEF Done
<1>14. QED
  BY <1>1, <1>2, <1>3, <1>4, <1>5, <1>6, <1>7, <1>8, <1>9, <1>10, <1>11, <1>12, <1>13 DEF ComputeStep

LEMMA NodeType ==
    ASSUME TypeOK, NEW t \in Threads
    PROVE  /\ [node EXCEPT ![t] = node[t]] \in [Threads -> Nat]
           /\ [node EXCEPT ![t] = node[t] + 1] \in [Threads -> Nat]
<1>1. node \in [Threads -> Nat] /\ node[t] \in Nat /\ node[t] + 1 \in Nat
  BY DEF TypeOK
<1>2. QED
  BY <1>1

LEMMA StepType ==
    ASSUME IInv, NEW t \in Threads, ComputeStep(t)
    PROVE  TypeOK'
<1>0. TypeOK /\ t \in Nat /\ N \in Nat \ {0} /\ n_graph.threads \in 0 .. N
  BY Constants, GraphFacts DEF IInv
<1>p. pc' \in [Threads -> Computing \cup Outside \cup Between]
  <2>1. pc' = [pc EXCEPT ![t] = pc'[t]] /\ pc'[t] \in Computing \cup {"idle", "top"}
    BY StepPc
  <2>2. pc'[t] \in Computing \cup Outside \cup Between
    BY <2>1 DEF Outside, Between
  <2>3. pc \in [Threads -> Computing \cup Outside \cup Between]
    BY <1>0 DEF TypeOK
  <2>4. QED
    BY <2>1, <2>2, <2>3
<1>n. /\ [node EXCEPT ![t] = node[t]] \in [Threads -> Nat]
      /\ [node EXCEPT ![t] = node[t] + 1] \in [Threads -> Nat]
  BY <1>0, NodeType
<1> USE <1>0, <1>p DEF TypeOK, Go, shared, local
<1>1. CASE Begin(t)
  BY <1>1 DEF Begin
<1>2. CASE Loop(t)
  <2>1. then' \in [Threads -> {"node", "chunks", "done"}]
    BY <1>2 DEF Loop, GoToBarrier
  <2>2. node' = [node EXCEPT ![t] = node[t]] \/ node' = [node EXCEPT ![t] = node[t] + 1]
    BY <1>2 DEF Loop, GoToBarrier
  <2>3. node' \in [Threads -> Nat]
    BY <2>2, <1>n
  <2>4. QED
    BY <1>2, <2>1, <2>3 DEF Loop
<1>3. CASE Op(t)
  <2>1. did' \subseteq Nat \X Nat
    BY <1>3, SMTT(30) DEF Op, Did
  <2>2. QED
    BY <1>3, <2>1 DEF Op
<1>4. CASE Convert(t)
  <2>1. chunk' \in Nat
    BY <1>4 DEF Convert, ResetChunk
  <2>2. part' \in [Threads -> Nat] /\ mine' \in [Threads -> Nat]
    BY <1>4, SMTT(30) DEF Convert
  <2>3. then' \in [Threads -> {"node", "chunks", "done"}] /\ node' \in [Threads -> Nat]
    BY <1>4 DEF Convert, GoToBarrier
  <2>4. QED
    BY <1>4, <2>1, <2>2, <2>3 DEF Convert
<1>5. CASE Chunk(t)
  <2>1. did' \subseteq Nat \X Nat
    BY <1>5, SMTT(30) DEF Chunk, Did
  <2>2. QED
    BY <1>5, <2>1 DEF Chunk
<1>6. CASE Claim(t)
  <2>1. chunk' \in Nat /\ mine' \in [Threads -> Nat]
    BY <1>6, SMTT(30) DEF Claim
  <2>2. QED
    BY <1>6, <2>1 DEF Claim
<1>7. CASE Computed(t)
  <2>1. abort' \in -1 .. Len(cgraph)
    <3>1. PICK n : n = node[t]
      OBVIOUS
    <3>2. n \in 0 .. Len(cgraph) - 1 /\ Len(cgraph) \in Nat
      BY <1>7, <3>1, ComputedNode, GraphFacts DEF Computed
    <3>3. n + 1 \in -1 .. Len(cgraph)
      BY <3>2
    <3>4. abort' = abort \/ abort' = n + 1
      BY <1>7, <3>1 DEF Computed
    <3>5. QED
      BY <3>3, <3>4
  <2>2. aborted' \in BOOLEAN
    BY <1>7 DEF Computed
  <2>3. node' \in [Threads -> Nat]
    <3>1. node' = [node EXCEPT ![t] = node[t] + 1]
      BY <1>7 DEF Computed, Met, GoToBarrier
    <3>2. QED
      BY <3>1, <1>n
  <2>4. then' \in [Threads -> {"node", "chunks", "done"}]
    BY <1>7 DEF Computed, Met, GoToBarrier
  <2>5. UNCHANGED <<cgraph, n_graph, n_barrier, n_passed, chunk, stop, pause,
                    nth, mine, seen, last, pending, part, did>>
    BY <1>7 DEF Computed
  <2>6. QED
    BY <2>1, <2>2, <2>3, <2>4, <2>5
<1>8. CASE Enter(t)
  BY <1>8 DEF Enter
<1>9. CASE Add(t)
  <2>1. n_barrier' \in 0 .. N
    <3>1. pc[t] = "add"
      BY <1>9 DEF Add
    <3>2. n_barrier + 1 <= n_graph.threads /\ n_barrier \in Nat
      BY <3>1, RoomAtTheBarrier
    <3>3. QED
      BY <1>9, <3>2 DEF Add
  <2>2. QED
    BY <1>9, <2>1 DEF Add
<1>10. CASE Reset(t)
  <2>1. n_barrier' \in 0 .. N
    BY <1>10 DEF Reset
  <2>2. QED
    BY <1>10, <2>1 DEF Reset
<1>11. CASE Pass(t)
  <2>1. n_passed' \in Nat /\ seen' \in [Threads -> Nat]
    BY <1>11, SMTT(30) DEF Pass
  <2>2. QED
    BY <1>11, <2>1 DEF Pass
<1>12. CASE Spin(t)
  BY <1>12 DEF Spin
<1>13. CASE Done(t)
  <2>1. node' \in [Threads -> Nat] /\ mine' \in [Threads -> Nat]
    BY <1>13 DEF Done
  <2>2. nth' \in [Threads -> 0 .. N]
    BY <1>13 DEF Done
  <2>3. QED
    BY <1>13, <2>1, <2>2 DEF Done
<1>14. QED
  BY <1>1, <1>2, <1>3, <1>4, <1>5, <1>6, <1>7, <1>8, <1>9, <1>10, <1>11, <1>12, <1>13 DEF ComputeStep

\* A thread on its way out only leaves the barrier and the graph.
LEMMA LeavingStep ==
    ASSUME IInv, NEW t \in Threads, ComputeStep(t), Leaving(t)
    PROVE  /\ (Spin(t) /\ pc'[t] = "done" /\ then'[t] = "done") \/ (Done(t) /\ pc'[t] \in Outside \cup Between)
           /\ UNCHANGED <<cgraph, n_graph, n_barrier, n_passed, chunk, abort, aborted, last, pending, part, did>>
<1>0. TypeOK /\ t \in Threads
  BY DEF IInv
<1>1. pc[t] \in {"spin", "done"} /\ then[t] = "done"
  BY DEF Leaving, Released
<1>2. CASE pc[t] = "done"
  <2>1. Done(t) /\ pc'[t] \in {"idle", "top"}
    BY <1>2, StepPc
  <2>2. QED
    BY <2>1 DEF Done, shared, Outside, Between
<1>3. CASE pc[t] = "spin"
  <2>1. Spin(t)
    BY <1>3 DEF ComputeStep, Begin, Loop, Op, Convert, Chunk, Claim, Computed, Enter, Add, Reset, Pass, Done, Go
  <2>2. QED
    BY <1>0, <1>1, <2>1 DEF Spin, Go, shared, TypeOK
<1>4. QED
  BY <1>1, <1>2, <1>3

\* Once on its way out, a thread stays so, however many barriers are passed.
LEMMA PassedOrNot ==
    ASSUME TypeOK, NEW t \in Threads, ComputeStep(t)
    PROVE  n_passed' = n_passed \/ (n_passed' = n_passed + 1 /\ pc[t] = "pass")
BY DEF ComputeStep, Begin, Loop, Op, Convert, Chunk, Claim, Computed, Enter, Add, Reset, Pass, Spin, Done,
       Go, shared

LEMMA StillLeaving ==
    ASSUME TypeOK, NEW u \in Threads, Still(u), Leaving(u), n_passed' = n_passed \/ n_passed' = n_passed + 1
    PROVE  Leaving(u)'
<1>1. seen[u] \in Nat /\ n_passed \in Nat
  BY DEF TypeOK
<1>2. PICK m : m = n_passed'
  OBVIOUS
<1>3. seen[u] < n_passed => seen[u] < m
  BY <1>1, <1>2
<1>4. QED
  BY <1>2, <1>3 DEF Leaving, Released, Still

LEMMA StepOrder ==
    ASSUME IInv, NEW t \in Threads, ComputeStep(t)
    PROVE  WorkersInOrder'
<1>0. TypeOK /\ WorkersInOrder /\ TypeOK' /\ OnlyMoves(t)
  BY StepType, StepFrame DEF IInv
<1>1. pc[t] \in Computing /\ pc'[t] \in Computing \cup {IF t = 0 THEN "idle" ELSE "top"}
  BY StepPc
<1>2. \A u \in Threads \ {t} : Still(u)
  BY <1>0 DEF OnlyMoves
<1>3. n_graph' = n_graph /\ last' = last /\ Party' = Party
  BY <1>0, SamePieces DEF OnlyMoves
<1>4. 0 \in Threads /\ Workers \subseteq Threads /\ 0 \notin Workers
  BY Constants
<1>5. pc'[0] \in Computing \cup Outside
  BY <1>0, <1>1, <1>2, <1>4 DEF WorkersInOrder, Outside, Still
<1>6. pc'[0] \in Computing => n_graph'.threads >= 1
  <2>1. pc'[0] \in Computing => pc[0] \in Computing
    BY <1>1, <1>2, <1>4 DEF Still
  <2>2. QED
    BY <1>0, <1>3, <2>1 DEF WorkersInOrder
<1>7. pc'[0] = "kick" => n_graph'.count < MaxGraphs /\ abort' = -1 /\ did' = {}
  <2> SUFFICES ASSUME pc'[0] = "kick" PROVE n_graph'.count < MaxGraphs /\ abort' = -1 /\ did' = {}
    OBVIOUS
  <2>1. t # 0 /\ pc[0] = "kick" /\ pc[0] \notin Computing
    BY <1>1, <1>2, <1>4 DEF Still, Computing
  <2>2. Leaving(t)
    BY <1>1, <2>1, Where
  <2>3. UNCHANGED <<abort, did>>
    BY <2>2, LeavingStep
  <2>4. QED
    BY <1>0, <1>3, <2>1, <2>3 DEF WorkersInOrder
<1>8. abort' # -1 => aborted'
  <2>1. UNCHANGED <<abort, aborted>> \/ aborted'
    BY DEF ComputeStep, Begin, Loop, Op, Convert, Chunk, Claim, Computed, Enter, Add, Reset, Pass, Spin, Done,
           Go, shared
  <2>2. QED
    BY <1>0, <2>1 DEF WorkersInOrder
<1>9. ASSUME NEW u \in Workers
      PROVE  /\ pc'[u] \notin Outside
             /\ pending'[u] => pc'[u] = "begin"
             /\ last'[u].count <= n_graph'.count
             /\ last'[u].count = n_graph'.count => last'[u] = n_graph'
             /\ pc'[u] \in Computing => IF last'[u] = n_graph' THEN u \in Party' ELSE Leaving(u)'
  <2>1. last'[u].count <= n_graph'.count /\ (last'[u].count = n_graph'.count => last'[u] = n_graph')
    BY <1>0, <1>3 DEF WorkersInOrder
  <2>2. CASE u # t
    <3>1. Still(u) /\ u \in Threads
      BY <1>2, <1>4, <2>2
    <3>2. Leaving(u) => Leaving(u)'
      BY <1>0, <3>1, StillLeaving, PassedOrNot
    <3>3. QED
      BY <1>0, <1>3, <2>1, <3>1, <3>2 DEF WorkersInOrder, Still
  <2>3. CASE u = t
    <3>1. pc'[u] \notin Outside
      BY <1>1, <1>4, <2>3 DEF Outside, Computing
    <3>2. ~pending'[u]
      <4>1. pc[u] = "begin" => Begin(u)
        BY <2>3 DEF ComputeStep, Loop, Op, Convert, Chunk, Claim, Computed, Enter, Add, Reset, Pass, Spin, Done, Go
      <4>2. pc[u] = "begin" => ~pending'[u]
        BY <1>0, <1>4, <4>1 DEF Begin, TypeOK
      <4>3. pc[u] # "begin" => pending' = pending
        BY <2>3 DEF ComputeStep, Begin, Loop, Op, Convert, Chunk, Claim, Computed, Enter, Add, Reset, Pass, Spin,
                    Done, Go, local
      <4>4. pc[u] # "begin" => ~pending[u]
        BY <1>0 DEF WorkersInOrder
      <4>5. QED
        BY <4>2, <4>3, <4>4
    <3>3. last[u] = n_graph => u \in Party
      BY <1>0, <1>1, <2>3 DEF WorkersInOrder
    <3>4. last[u] # n_graph /\ pc'[u] \in Computing => Leaving(u)'
      <4> SUFFICES ASSUME last[u] # n_graph, pc'[u] \in Computing PROVE Leaving(u)'
        OBVIOUS
      <4>1. Leaving(t)
        BY <1>0, <1>1, <2>3 DEF WorkersInOrder
      <4>2. pc'[t] \notin Outside \cup Between
        BY <2>3 DEF Computing, Outside, Between
      <4>3. pc'[t] = "done" /\ then'[t] = "done"
        BY <4>1, <4>2, LeavingStep
      <4>4. QED
        BY <2>3, <4>3 DEF Leaving
    <3>5. QED
      BY <1>3, <2>1, <3>1, <3>2, <3>3, <3>4
  <2>4. QED
    BY <2>2, <2>3
<1>10. QED
  BY <1>5, <1>6, <1>7, <1>8, <1>9 DEF WorkersInOrder

-----------------------------------------------------------------------------
(* The barrier, in a step of one thread.                                   *)

LEMMA AddCounts ==
    ASSUME IInv, NEW t \in Threads, Add(t), OnlyMoves(t), TypeOK'
    PROVE  BarrierCounts'
<1> DEFINE A == {u \in Party : Arrived(u)}
<1>0. TypeOK /\ Party \subseteq Threads /\ Party' = Party /\ n_graph' = n_graph /\ n_passed' = n_passed
  BY GraphFacts, SamePieces DEF IInv, OnlyMoves, Add
<1>1. pc[t] = "add" /\ seen[t] = n_passed
  BY DEF IInv, BarrierCounts, Add
<1>2. /\ n_barrier = Cardinality(A) /\ t \in Party \ A /\ n_barrier \in Nat
      /\ ~\E u \in Threads : pc[u] \in {"reset", "pass"}
  BY <1>1, RoomAtTheBarrier
<1>3. \A u \in Threads \ {t} : pc'[u] = pc[u] /\ seen'[u] = seen[u] /\ Arrived(u)' = Arrived(u)
  BY <1>0 DEF OnlyMoves, Still, Arrived
<1>4. pc'[t] \in {"reset", "spin"} /\ seen'[t] = n_passed' /\ Arrived(t)'
  BY <1>0, <1>1 DEF Add, TypeOK, Arrived, local
<1>5. {u \in Party' : Arrived(u)'} = A \cup {t}
  BY <1>0, <1>2, <1>3, <1>4
<1>6. /\ Cardinality(A \cup {t}) = Cardinality(A) + 1
      /\ Cardinality(A \cup {t}) = n_graph.threads => A \cup {t} = Party
  <2>1. A \in SUBSET Party /\ A \cup {t} \in SUBSET Party
    BY <1>2
  <2> HIDE DEF A
  <2>2. QED
    BY <1>0, <1>2, <2>1, Arrivals
<1>7. n_barrier' = Cardinality({u \in Party' : Arrived(u)'})
  BY <1>2, <1>5, <1>6 DEF Add
<1>8. \A u \in Threads : pc'[u] # "pass"
  BY <1>2, <1>3, <1>4
<1>9. ASSUME NEW u \in Threads, pc'[u] \in {"reset", "pass"}
      PROVE  /\ \A v \in Party' : Arrived(v)'
             /\ \A v \in Threads \ {u} : pc'[v] \notin {"reset", "pass"}
  <2>1. u = t /\ pc'[t] = "reset"
    BY <1>2, <1>3, <1>8, <1>9
  <2>2. LastIn
    BY <1>0, <1>1, <2>1 DEF Add, TypeOK
  <2>3. n_graph.threads \in Nat
    <3>1. n_graph.threads \in 0 .. N /\ N \in Nat
      BY <1>0, GraphFacts, Constants
    <3>2. QED
      BY <3>1
  <2>4. Cardinality(A) + 1 = n_graph.threads
    BY <1>2, <2>2, <2>3 DEF LastIn
  <2>5. \A v \in Party' : Arrived(v)'
    BY <1>0, <1>5, <1>6, <2>4
  <2>6. QED
    BY <1>2, <1>3, <2>1, <2>5
<1>10. \A u \in Threads : (pc'[u] = "add" => seen'[u] = n_passed') /\ (pc'[u] = "spin" => seen'[u] <= n_passed')
  <2>1. n_passed' \in Nat
    BY DEF TypeOK
  <2>2. QED
    BY <1>0, <1>3, <1>4, <2>1 DEF IInv, BarrierCounts
<1>11. n_barrier' = IF \E u \in Threads : pc'[u] = "pass" THEN 0 ELSE Cardinality({u \in Party' : Arrived(u)'})
  BY <1>7, <1>8
<1>12. QED
  BY <1>9, <1>10, <1>11 DEF BarrierCounts

LEMMA ResetCounts ==
    ASSUME IInv, NEW t \in Threads, Reset(t), OnlyMoves(t), TypeOK'
    PROVE  BarrierCounts'
<1>0. TypeOK /\ Party \subseteq Threads /\ Party' = Party /\ n_graph' = n_graph /\ n_passed' = n_passed /\ n_barrier' = 0
  BY GraphFacts, SamePieces DEF IInv, OnlyMoves, Reset
<1>1. pc[t] = "reset" /\ pc'[t] = "pass" /\ seen'[t] = seen[t]
  BY <1>0 DEF Reset, Go, TypeOK, local
<1>2. \A u \in Threads \ {t} : pc'[u] = pc[u] /\ seen'[u] = seen[u]
  BY DEF OnlyMoves, Still
<1>3. (\A u \in Party : Arrived(u)) /\ \A u \in Threads \ {t} : pc[u] \notin {"reset", "pass"}
  BY <1>1 DEF IInv, BarrierCounts
<1>4. \A u \in Threads : Arrived(u)' = Arrived(u)
  BY <1>0, <1>1, <1>2 DEF Arrived
<1>5. n_barrier' = IF \E u \in Threads : pc'[u] = "pass" THEN 0 ELSE Cardinality({u \in Party' : Arrived(u)'})
  BY <1>0, <1>1
<1>6. \A u \in Threads : pc'[u] \in {"reset", "pass"} =>
         /\ \A v \in Party' : Arrived(v)'
         /\ \A v \in Threads \ {u} : pc'[v] \notin {"reset", "pass"}
  BY <1>0, <1>2, <1>3, <1>4
<1>7. \A u \in Threads : (pc'[u] = "add" => seen'[u] = n_passed') /\ (pc'[u] = "spin" => seen'[u] <= n_passed')
  BY <1>0, <1>1, <1>2 DEF IInv, BarrierCounts
<1>8. QED
  BY <1>5, <1>6, <1>7 DEF BarrierCounts

\* When the last one lets them pass, the others spin, and are released.
LEMMA Passed ==
    ASSUME IInv, NEW t \in Threads, Pass(t), OnlyMoves(t)
    PROVE  /\ n_passed' = n_passed + 1 /\ pc'[t] = then[t] /\ then' = then
           /\ t \in Party /\ \A u \in Party : Arrived(u) /\ ~Arrived(u)'
           /\ \A u \in Party \ {t} : pc[u] = "spin" /\ Released(u)'
           /\ \A u \in Threads : pc'[u] \notin {"add", "reset", "pass"}
<1>0. TypeOK /\ Party \subseteq Threads /\ n_passed \in Nat
  BY GraphFacts DEF IInv, TypeOK
<1>1. pc[t] = "pass" /\ pc'[t] = then[t] /\ n_passed' = n_passed + 1 /\ then' = then
  BY <1>0 DEF Pass, Go, TypeOK
<1>2. t \in Party /\ (\A u \in Party : Arrived(u)) /\ \A u \in Threads \ {t} : pc[u] \notin {"reset", "pass"}
  BY <1>1, AtTheBarrier DEF IInv, BarrierCounts
<1>3. \A u \in Threads \ {t} : pc'[u] = pc[u] /\ seen'[u] = seen[u]
  BY DEF OnlyMoves, Still
<1>4. pc'[t] \in {"node", "chunks", "done"}
  BY <1>0, <1>1 DEF TypeOK
<1>5. n_passed < n_passed' /\ n_passed # n_passed'
  <2>1. PICK m : m = n_passed'
    OBVIOUS
  <2>2. m = n_passed + 1
    BY <1>1, <2>1
  <2>3. n_passed < m /\ n_passed # m
    BY <1>0, <2>2
  <2>4. QED
    BY <2>1, <2>3
<1>6. ASSUME NEW u \in Party \ {t} PROVE pc[u] = "spin" /\ Released(u)' /\ ~Arrived(u)'
  <2>1. u \in Threads /\ Arrived(u) /\ pc[u] = "spin" /\ seen[u] = n_passed
    BY <1>0, <1>2 DEF Arrived
  <2>2. pc'[u] = "spin" /\ seen'[u] = n_passed
    BY <1>3, <2>1
  <2>3. QED
    BY <1>5, <2>1, <2>2 DEF Released, Arrived
<1>7. ~Arrived(t)'
  BY <1>4 DEF Arrived
<1>8. ASSUME NEW u \in Threads PROVE pc'[u] \notin {"add", "reset", "pass"}
  <2>1. CASE u = t
    BY <1>4, <2>1
  <2>2. CASE u # t
    <3>1. pc[u] = "add" => u \in Party
      BY AtTheBarrier
    <3>2. pc[u] # "add"
      BY <1>2, <3>1 DEF Arrived
    <3>3. QED
      BY <1>2, <1>3, <2>2, <3>2
  <2>3. QED
    BY <2>1, <2>2
<1>9. QED
  BY <1>1, <1>2, <1>6, <1>7, <1>8

LEMMA PassCounts ==
    ASSUME IInv, NEW t \in Threads, Pass(t), OnlyMoves(t), TypeOK'
    PROVE  BarrierCounts'
<1>0. /\ TypeOK /\ Party \subseteq Threads /\ Party' = Party /\ n_graph' = n_graph
      /\ n_barrier' = n_barrier /\ n_passed \in Nat /\ seen \in [Threads -> Nat]
  BY GraphFacts, SamePieces DEF IInv, OnlyMoves, Pass, TypeOK
<1>1. /\ n_passed' = n_passed + 1 /\ pc[t] = "pass" /\ pc'[t] = then[t]
      /\ \A u \in Party : ~Arrived(u)'
      /\ \A u \in Threads : pc'[u] \notin {"add", "reset", "pass"}
  BY Passed DEF Pass, Go
<1>2. n_barrier = 0
  BY <1>1 DEF IInv, BarrierCounts
<1>3. {u \in Party' : Arrived(u)'} = {}
  BY <1>0, <1>1
<1>4. n_barrier' = Cardinality({u \in Party' : Arrived(u)'})
  BY <1>0, <1>2, <1>3, FS_EmptySet
<1>5. n_barrier' = IF \E u \in Threads : pc'[u] = "pass" THEN 0 ELSE Cardinality({u \in Party' : Arrived(u)'})
  BY <1>1, <1>4
<1>6. ASSUME NEW u \in Threads, pc'[u] = "spin" PROVE seen'[u] <= n_passed'
  <2>1. u # t
    BY <1>0, <1>1, <1>6 DEF TypeOK
  <2>2. pc[u] = "spin" /\ seen'[u] = seen[u]
    BY <1>6, <2>1 DEF OnlyMoves, Still
  <2>3. seen[u] <= n_passed /\ seen[u] \in Nat
    BY <1>0, <2>2 DEF IInv, BarrierCounts
  <2>4. PICK m : m = n_passed'
    OBVIOUS
  <2>5. seen[u] <= m
    BY <1>0, <1>1, <2>3, <2>4
  <2>6. QED
    BY <2>2, <2>4, <2>5
<1>7. QED
  BY <1>1, <1>5, <1>6 DEF BarrierCounts

LEMMA StepBarrier ==
    ASSUME IInv, NEW t \in Threads, ComputeStep(t)
    PROVE  BarrierCounts'
<1>0. TypeOK /\ TypeOK' /\ OnlyMoves(t) /\ n_graph' = n_graph
  BY StepType, StepFrame DEF IInv, OnlyMoves
<1>1. \A u \in Threads \ {t} : pc'[u] = pc[u] /\ seen'[u] = seen[u]
  BY <1>0 DEF OnlyMoves, Still
<1>2. ASSUME UNCHANGED <<n_barrier, n_passed>>, pc[t] \notin {"spin", "reset", "pass"},
             pc'[t] \notin {"add", "spin", "reset", "pass"}
      PROVE  BarrierCounts'
  <2>1. Arrived(t)' = Arrived(t)
    BY <1>2 DEF Arrived
  <2>2. QED
    BY <1>0, <1>1, <1>2, <2>1, KeepBarrier
<1> USE DEF Go, shared
<1>3. CASE Begin(t)
  BY <1>0, <1>2, <1>3 DEF Begin, TypeOK
<1>4. CASE Loop(t)
  <2>1. pc[t] = "node" /\ UNCHANGED <<n_barrier, n_passed>>
    BY <1>4 DEF Loop
  <2>2. ~AtEnd(t) => Current(t).kind \in {"mul", "op", "nop"}
    BY <2>1, LoopNode
  <2>3. pc \in [Threads -> Computing \cup Outside \cup Between]
    BY <1>0 DEF TypeOK
  <2>4. pc'[t] \in {"mul", "op", "node", "enter", "done"}
    BY <1>4, <2>1, <2>2, <2>3 DEF Loop, GoToBarrier
  <2>5. QED
    BY <1>2, <2>1, <2>4
<1>5. CASE Op(t)
  BY <1>0, <1>2, <1>5 DEF Op, TypeOK
<1>6. CASE Convert(t)
  BY <1>0, <1>2, <1>6 DEF Convert, GoToBarrier, TypeOK
<1>7. CASE Chunk(t)
  BY <1>0, <1>2, <1>7 DEF Chunk, TypeOK
<1>8. CASE Claim(t)
  BY <1>0, <1>2, <1>8 DEF Claim, TypeOK
<1>9. CASE Computed(t)
  BY <1>0, <1>2, <1>9 DEF Computed, Met, GoToBarrier, TypeOK
<1>10. CASE Enter(t)
  <2>1. pc[t] = "enter" /\ pc'[t] = "add" /\ seen'[t] = n_passed /\ UNCHANGED <<n_barrier, n_passed>>
    BY <1>0, <1>10 DEF Enter, TypeOK
  <2>2. Arrived(t)' = Arrived(t)
    BY <2>1 DEF Arrived
  <2>3. QED
    BY <1>0, <1>1, <2>1, <2>2, KeepBarrier
<1>11. CASE Add(t)
  BY <1>0, <1>11, AddCounts
<1>12. CASE Reset(t)
  BY <1>0, <1>12, ResetCounts
<1>13. CASE Pass(t)
  BY <1>0, <1>13, PassCounts
<1>14. CASE Spin(t)
  <2>1. pc[t] = "spin" /\ n_passed # seen[t] /\ UNCHANGED <<n_barrier, n_passed>>
    BY <1>14 DEF Spin
  <2>2. pc'[t] \in {"node", "chunks", "done"}
    BY <1>0, <1>14 DEF Spin, TypeOK
  <2>3. Arrived(t)' = Arrived(t)
    BY <2>1, <2>2 DEF Arrived
  <2>4. QED
    BY <1>0, <1>1, <2>1, <2>2, <2>3, KeepBarrier
<1>15. CASE Done(t)
  BY <1>0, <1>2, <1>15 DEF Done, TypeOK
<1>16. QED
  BY <1>3, <1>4, <1>5, <1>6, <1>7, <1>8, <1>9, <1>10, <1>11, <1>12, <1>13, <1>14, <1>15 DEF ComputeStep

-----------------------------------------------------------------------------
(* The goal, in a step of one thread.                                      *)

LEMMA KeepGoal ==
    ASSUME IInv, NEW t \in Party, OnlyMoves(t), NEW g \in Goals, NEW w \in 0 .. Len(cgraph), Goal(g, w),
           n_passed' = n_passed, abort' = abort \/ (g = "compute" /\ abort' = w + 1),
           n_graph.threads >= 1, Bound(t, g, w)', Work(g, w)'
    PROVE  Running'
<1>1. cgraph' = cgraph /\ n_graph' = n_graph /\ Party' = Party /\ Party \subseteq Threads /\ w \in Nat
  BY SamePieces, GraphFacts DEF OnlyMoves, IInv
<1>2. Sound(g, w)'
  BY <1>1 DEF Goal, Sound, Kind
<1>3. ASSUME NEW u \in Party \ {t} PROVE Bound(u, g, w)'
  BY <1>1, KeepBound DEF OnlyMoves, Goal
<1>4. Goal(g, w)'
  BY <1>1, <1>2, <1>3 DEF Goal
<1>5. w \in 0 .. Len(cgraph') /\ n_graph'.threads >= 1
  BY <1>1
<1>6. QED
  BY <1>4, <1>5 DEF Running

\* With one thread there is nobody to wait for.
LEMMA OneThread ==
    ASSUME n_graph.threads = 1, NEW t \in Party
    PROVE  t = 0 /\ Party = {0}
<1>1. Party = {0}
  BY DEF Party
<1>2. QED
  BY <1>1

LEMMA AllLeaving ==
    ASSUME UNCHANGED <<cgraph, n_graph, last>>, \A u \in Party : Leaving(u)' /\ Joined(u), 0 \in Party,
           NEW n \in 0 .. Len(cgraph), did' = Before(n), aborted' \/ n = Len(cgraph)
    PROVE  Over'
<1>1. Party' = Party /\ Before(n)' = Before(n)
  BY SamePieces
<1>2. \A u \in Party' \ {0} : last'[u] = n_graph'
  BY <1>1 DEF Joined
<1>3. QED
  BY <1>1, <1>2 DEF Over

LEMMA BeginGoal ==
    ASSUME IInv, NEW t \in Threads, Begin(t), OnlyMoves(t)
    PROVE  Running'
<1>0. TypeOK /\ pc[t] = "begin" /\ pc[t] \in Computing /\ ~Leaving(t)
  BY DEF IInv, Begin, Go, Computing, Leaving, Released
<1>1. PICK g \in Goals, w \in 0 .. Len(cgraph) : Goal(g, w) /\ Bound(t, g, w) /\ w \in Nat
  BY <1>0, AGoal
<1>2. t \in Party /\ Joined(t) /\ n_graph.threads >= 1 /\ Comes(0, g, w)
  BY <1>0, <1>1, AGoal, BoundAt
<1>3. /\ pc'[t] = "node" /\ nth'[t] = n_graph.threads /\ node'[t] = 0 /\ n_graph' = n_graph /\ last' = last
      /\ UNCHANGED <<cgraph, n_passed, abort, did, chunk, part, mine>>
  BY <1>0 DEF Begin, Go, TypeOK, shared
<1>4. Joined(t)' /\ Comes(0, g, w)'
  BY <1>2, <1>3 DEF Joined, Comes, Kind
<1>5. Bound(t, g, w)'
  BY <1>3, <1>4 DEF Bound
<1>6. ~Ahead(t)' /\ ~Past(t, w)'
  <2>1. w + 1 # 0
    BY <1>1
  <2>2. QED
    BY <1>3, <2>1 DEF Ahead, Arrived, Past
<1>7. ~(g = "compute" /\ Kind(w) = "mul")
  BY <1>2 DEF Comes
<1>8. Work(g, w)'
  BY <1>0, <1>1, <1>3, <1>6, <1>7, KeepWork DEF Goal
<1>9. QED
  BY <1>1, <1>2, <1>3, <1>5, <1>8, KeepGoal

LEMMA EnterGoal ==
    ASSUME IInv, NEW t \in Threads, Enter(t), OnlyMoves(t)
    PROVE  Running'
<1>0. TypeOK /\ pc[t] = "enter" /\ pc[t] \in Computing /\ ~Leaving(t)
  BY DEF IInv, Enter, Go, Computing, Leaving, Released
<1>1. PICK g \in Goals, w \in 0 .. Len(cgraph) : Goal(g, w) /\ Bound(t, g, w) /\ w \in Nat
  BY <1>0, AGoal
<1>2. t \in Party /\ Joined(t) /\ n_graph.threads >= 1 /\ AtBarrier(t, g, w)
  BY <1>0, <1>1, AGoal, BoundAt
<1>3. /\ pc'[t] = "add" /\ UNCHANGED <<n_graph, last, then, node, nth>>
      /\ UNCHANGED <<cgraph, n_passed, abort, did, chunk, part, mine>>
  BY <1>0 DEF Enter, Go, TypeOK, shared
<1>4. Joined(t)' /\ AtBarrier(t, g, w)' /\ Ahead(t)'
  BY <1>2, <1>3 DEF Joined, AtBarrier, Ahead
<1>5. Bound(t, g, w)'
  BY <1>4 DEF Bound
<1>6. Ahead(t) /\ Past(t, w) /\ ~Holds(t) /\ ~Holds(t)' /\ pc'[t] \notin {"begin", "claim"}
  BY <1>0, <1>3 DEF Ahead, Past, Holds, Released
<1>7. nth'[t] = n_graph.threads
  BY <1>0, <1>1, <1>2, <1>3 DEF Goal, Work
<1>8. Work(g, w)'
  BY <1>0, <1>1, <1>3, <1>6, <1>7, KeepWork DEF Goal
<1>9. QED
  BY <1>1, <1>2, <1>3, <1>5, <1>8, KeepGoal

LEMMA AddGoal ==
    ASSUME IInv, NEW t \in Threads, Add(t), OnlyMoves(t)
    PROVE  Running'
<1>0. TypeOK /\ pc[t] = "add" /\ pc[t] \in Computing /\ ~Leaving(t) /\ seen[t] = n_passed
  BY DEF IInv, Add, Computing, Leaving, Released, BarrierCounts
<1>1. PICK g \in Goals, w \in 0 .. Len(cgraph) : Goal(g, w) /\ Bound(t, g, w) /\ w \in Nat
  BY <1>0, AGoal
<1>2. t \in Party /\ Joined(t) /\ n_graph.threads >= 1 /\ AtBarrier(t, g, w)
  BY <1>0, <1>1, AGoal, BoundAt
<1>3. /\ pc'[t] \in {"reset", "spin"} /\ UNCHANGED <<n_graph, last, then, node, nth, seen>>
      /\ UNCHANGED <<cgraph, n_passed, abort, did, chunk, part, mine>>
  BY <1>0 DEF Add, TypeOK, local
<1>4. Joined(t)' /\ AtBarrier(t, g, w)' /\ Ahead(t)' /\ ~Released(t)'
  <2>1. n_passed' \in Nat /\ seen'[t] = n_passed'
    BY <1>0, <1>3 DEF TypeOK
  <2>2. Joined(t)' /\ AtBarrier(t, g, w)'
    BY <1>2, <1>3 DEF Joined, AtBarrier
  <2>3. QED
    BY <1>3, <2>1, <2>2 DEF Ahead, Arrived, Released
<1>5. Bound(t, g, w)'
  BY <1>4 DEF Bound
<1>6. Ahead(t) /\ Past(t, w) /\ ~Holds(t) /\ ~Holds(t)' /\ pc'[t] \notin {"begin", "claim"}
  BY <1>0, <1>3, <1>4 DEF Ahead, Past, Holds, Released
<1>7. nth'[t] = n_graph.threads
  BY <1>0, <1>1, <1>2, <1>3 DEF Goal, Work
<1>8. Work(g, w)'
  BY <1>0, <1>1, <1>3, <1>6, <1>7, KeepWork DEF Goal
<1>9. QED
  BY <1>1, <1>2, <1>3, <1>5, <1>8, KeepGoal

LEMMA ResetGoal ==
    ASSUME IInv, NEW t \in Threads, Reset(t), OnlyMoves(t)
    PROVE  Running'
<1>0. TypeOK /\ pc[t] = "reset" /\ pc[t] \in Computing /\ ~Leaving(t)
  BY DEF IInv, Reset, Go, Computing, Leaving, Released
<1>1. PICK g \in Goals, w \in 0 .. Len(cgraph) : Goal(g, w) /\ Bound(t, g, w) /\ w \in Nat
  BY <1>0, AGoal
<1>2. t \in Party /\ Joined(t) /\ n_graph.threads >= 1 /\ AtBarrier(t, g, w) /\ Arrived(t)
  BY <1>0, <1>1, AGoal, BoundAt DEF IInv, BarrierCounts
<1>3. /\ pc'[t] = "pass" /\ UNCHANGED <<n_graph, last, then, node, nth, seen>>
      /\ UNCHANGED <<cgraph, n_passed, abort, did, chunk, part, mine>>
  BY <1>0 DEF Reset, Go, TypeOK, local
<1>4. Joined(t)' /\ AtBarrier(t, g, w)' /\ Ahead(t)'
  BY <1>2, <1>3 DEF Joined, AtBarrier, Ahead, Arrived
<1>5. Bound(t, g, w)'
  BY <1>4 DEF Bound
<1>6. Ahead(t) /\ Past(t, w) /\ ~Holds(t) /\ ~Holds(t)' /\ pc'[t] \notin {"begin", "claim"}
  BY <1>0, <1>2, <1>3 DEF Ahead, Past, Holds, Released
<1>7. nth'[t] = n_graph.threads
  BY <1>0, <1>1, <1>2, <1>3 DEF Goal, Work
<1>8. Work(g, w)'
  BY <1>0, <1>1, <1>3, <1>6, <1>7, KeepWork DEF Goal
<1>9. QED
  BY <1>1, <1>2, <1>3, <1>5, <1>8, KeepGoal

LEMMA SpinGoal ==
    ASSUME IInv, NEW t \in Threads, Spin(t), OnlyMoves(t), ~Leaving(t)
    PROVE  Running'
<1>0. TypeOK /\ pc[t] = "spin" /\ pc[t] \in Computing /\ Released(t)
  <2>1. TypeOK /\ pc[t] = "spin" /\ n_passed # seen[t]
    BY DEF IInv, Spin, Go
  <2>2. seen[t] <= n_passed /\ seen[t] \in Nat /\ n_passed \in Nat
    BY <2>1 DEF IInv, BarrierCounts, TypeOK
  <2>3. QED
    BY <2>1, <2>2 DEF Released, Computing
<1>1. PICK g \in Goals, w \in 0 .. Len(cgraph) : Goal(g, w) /\ Bound(t, g, w) /\ w \in Nat
  BY <1>0, AGoal
<1>2. /\ t \in Party /\ Joined(t) /\ n_graph.threads >= 1
      /\ \/ then[t] = "node" /\ Comes(node[t], g, w)
         \/ then[t] = "chunks" /\ g = "compute" /\ node[t] = w /\ Kind(w) = "mul"
  BY <1>0, <1>1, AGoal, BoundAt
<1>3. /\ pc'[t] = then[t] /\ UNCHANGED <<n_graph, last, then, node, nth>>
      /\ UNCHANGED <<cgraph, n_passed, abort, did, chunk, part, mine>>
  BY <1>0 DEF Spin, Go, TypeOK, shared
<1>4. Joined(t)' /\ \A n : Comes(n, g, w)' = Comes(n, g, w)
  BY <1>2, <1>3 DEF Joined, Comes, Kind
<1>5. Bound(t, g, w)'
  BY <1>2, <1>3, <1>4 DEF Bound, Kind
<1>6. ~Ahead(t)' /\ ~Past(t, w)'
  <2>1. pc'[t] = "node" => node'[t] # w + 1
    <3>1. node[t] \in Nat
      BY <1>0 DEF TypeOK
    <3>2. pc'[t] = "node" => node[t] <= w
      BY <1>2, <1>3 DEF Comes
    <3>3. QED
      BY <1>1, <1>3, <3>1, <3>2
  <2>2. pc'[t] \in {"node", "chunks"}
    BY <1>2, <1>3
  <2>3. QED
    BY <2>1, <2>2 DEF Ahead, Arrived, Past
<1>7. g = "compute" /\ Kind(w) = "mul" => (Holds(t)' <=> Holds(t)) /\ pc'[t] \notin {"begin", "claim"}
  <2> SUFFICES ASSUME g = "compute", Kind(w) = "mul" PROVE (Holds(t)' <=> Holds(t)) /\ pc'[t] \notin {"begin", "claim"}
    OBVIOUS
  <2>1. then[t] = "chunks"
    BY <1>2 DEF Comes
  <2>2. QED
    BY <1>0, <1>3, <2>1 DEF Holds
<1>8. nth'[t] = n_graph.threads
  BY <1>0, <1>1, <1>2, <1>3 DEF Goal, Work
<1>9. Work(g, w)'
  BY <1>0, <1>1, <1>3, <1>6, <1>7, <1>8, KeepWork DEF Goal
<1>10. QED
  BY <1>1, <1>2, <1>3, <1>5, <1>9, KeepGoal

LEMMA LoopGoal ==
    ASSUME IInv, NEW t \in Threads, Loop(t), OnlyMoves(t)
    PROVE  Over' \/ Running'
<1>0. TypeOK /\ pc[t] = "node" /\ pc[t] \in Computing /\ ~Leaving(t)
  BY DEF IInv, Loop, Computing, Leaving, Released
<1>1. PICK g \in Goals, w \in 0 .. Len(cgraph) : Goal(g, w) /\ Bound(t, g, w) /\ w \in Nat
  BY <1>0, AGoal
<1>2. /\ t \in Party /\ Joined(t) /\ 0 \in Party /\ n_graph.threads >= 1
      /\ Comes(node[t], g, w) \/ (g = "compute" /\ node[t] = w + 1 /\ w + 1 = Len(cgraph))
  BY <1>0, <1>1, AGoal, BoundAt
<1>3. /\ UNCHANGED <<n_graph, last, nth, cgraph, n_passed, abort, aborted, did, chunk, part, mine>>
      /\ Len(cgraph) \in Nat /\ node[t] \in 0 .. Len(cgraph) /\ node[t] \in Nat
  BY <1>0, GraphFacts, LoopNode DEF Loop, shared, TypeOK
<1>4. Joined(t)' /\ ~Ahead(t) /\ ~Holds(t) /\ nth'[t] = n_graph.threads
  BY <1>0, <1>1, <1>2, <1>3 DEF Joined, Ahead, Arrived, Holds, Released, Goal, Work
<1>5. Sound(g, w) /\ Work(g, w)
  BY <1>1 DEF Goal
<1>6. CASE AtEnd(t) /\ GoToBarrier(t, "done", node[t])
  <2>1. /\ then'[t] = "done" /\ node'[t] = node[t]
        /\ pc'[t] = IF n_graph.threads = 1 THEN "done" ELSE "enter"
    BY <1>0, <1>6 DEF GoToBarrier, TypeOK
  <2>2. CASE Comes(node[t], g, w)
    <3>1. node[t] = w
      <4>1. node[t] <= w /\ \A k \in node[t] .. w - 1 : abort # k
        BY <2>2 DEF Comes
      <4>2. node[t] < w => node[t] \in node[t] .. w - 1 /\ node[t] # Len(cgraph)
        BY <1>1, <1>3
      <4>3. ~(node[t] < w)
        BY <1>6, <4>1, <4>2 DEF AtEnd
      <4>4. QED
        BY <1>1, <1>3, <4>1, <4>3
    <3>2. g = "stop" /\ (w = Len(cgraph) \/ abort = w)
      <4>1. g # "stop" => abort # w /\ w < Len(cgraph)
        BY <1>5, <2>2 DEF Comes, Sound
      <4>2. w = Len(cgraph) \/ abort = w
        BY <1>6, <3>1 DEF AtEnd
      <4>3. QED
        BY <1>3, <4>1, <4>2
    <3>3. CASE n_graph.threads # 1
      <4>1. pc'[t] = "enter" /\ AtBarrier(t, g, w)'
        BY <2>1, <3>1, <3>2, <3>3 DEF AtBarrier
      <4>2. Bound(t, g, w)'
        BY <1>4, <4>1 DEF Bound, Ahead
      <4>3. Work(g, w)'
        BY <1>0, <1>1, <1>3, <1>4, <1>5, <3>2, KeepWork
      <4>4. QED
        BY <1>1, <1>2, <1>3, <4>2, <4>3, KeepGoal
    <3>4. CASE n_graph.threads = 1
      <4>1. t = 0 /\ Party = {0}
        BY <1>2, <3>4, OneThread
      <4>2. \A u \in Party : Leaving(u)' /\ Joined(u)
        BY <1>2, <2>1, <3>4, <4>1 DEF Leaving
      <4>3. did' = Before(w)
        BY <1>3, <1>5, <3>2 DEF Work
      <4>4. aborted' \/ w = Len(cgraph)
        <5>1. abort = w => abort # -1
          BY <1>1
        <5>2. QED
          BY <1>3, <3>2, <5>1 DEF IInv, WorkersInOrder
      <4>5. QED
        BY <1>2, <1>3, <4>2, <4>3, <4>4, AllLeaving
    <3>5. QED
      BY <3>3, <3>4
  <2>3. CASE g = "compute" /\ node[t] = w + 1 /\ w + 1 = Len(cgraph)
    <3>0. Past(t, w)
      BY <1>0, <2>3 DEF Past
    <3>1. CASE n_graph.threads # 1
      <4>1. pc'[t] = "enter" /\ AtBarrier(t, g, w)'
        <5>1. ~(w + 1 < Len(cgraph'))
          BY <1>1, <1>3, <2>3
        <5>2. QED
          BY <2>1, <2>3, <3>1, <5>1 DEF AtBarrier
      <4>2. Bound(t, g, w)'
        BY <1>4, <4>1 DEF Bound, Ahead
      <4>3. ~Holds(t)' /\ pc'[t] \notin {"begin", "claim"}
        BY <4>1 DEF Holds, Released
      <4>4. Work(g, w)'
        BY <1>0, <1>1, <1>3, <1>4, <1>5, <2>3, <3>0, <4>3, KeepWork
      <4>5. QED
        BY <1>1, <1>2, <1>3, <4>2, <4>4, KeepGoal
    <3>2. CASE n_graph.threads = 1
      <4>1. t = 0 /\ Party = {0}
        BY <1>2, <3>2, OneThread
      <4>2. \A u \in Party : Leaving(u)' /\ Joined(u)
        BY <1>2, <2>1, <3>2, <4>1 DEF Leaving
      <4>3. did = Before(w + 1)
        <5>1. w \in 0 .. Len(cgraph) - 1 /\ Kind(w) # "nop"
          BY <1>1, <1>3, <1>5, <2>3 DEF Sound
        <5>2. QED
          BY <1>0, <1>2, <1>5, <2>3, <3>0, <4>1, <5>1, Completed
      <4>4. w + 1 \in 0 .. Len(cgraph)
        BY <1>1, <1>3, <2>3
      <4>5. PICK n \in 0 .. Len(cgraph) : n = w + 1
        BY <4>4
      <4>6. did' = Before(n) /\ n = Len(cgraph)
        BY <1>3, <2>3, <4>3, <4>5
      <4>7. QED
        BY <1>2, <1>3, <4>2, <4>6, AllLeaving
    <3>3. QED
      BY <3>1, <3>2
  <2>4. QED
    BY <1>2, <2>2, <2>3
<1>7. ASSUME ~AtEnd(t)
      PROVE  /\ Comes(node[t], g, w) /\ Current(t).kind = Kind(node[t])
             /\ Kind(node[t]) \in {"mul", "op", "nop"}
             /\ Kind(node[t]) # "nop" => node[t] = w
             /\ Kind(node[t]) = "nop" => node[t] + 1 <= w
  <2>1. Comes(node[t], g, w)
    BY <1>2, <1>7 DEF AtEnd
  <2>2. Current(t).kind = Kind(node[t]) /\ Kind(node[t]) \in {"mul", "op", "nop"}
    BY <1>0, <1>7, LoopNode
  <2>3. node[t] <= w /\ \A k \in node[t] .. w - 1 : Kind(k) = "nop"
    BY <2>1 DEF Comes
  <2>4. node[t] < w => node[t] \in node[t] .. w - 1
    BY <1>1, <1>3
  <2>5. Kind(node[t]) # "nop" => node[t] = w
    BY <1>1, <1>3, <2>3, <2>4
  <2>6. Kind(node[t]) = "nop" => node[t] # w
    BY <1>5, <1>7, <2>2 DEF Sound, AtEnd, Goals
  <2>7. Kind(node[t]) = "nop" => node[t] + 1 <= w
    BY <1>1, <1>3, <2>3, <2>6
  <2>8. QED
    BY <2>1, <2>2, <2>5, <2>7
<1>8. CASE ~AtEnd(t) /\ Current(t).kind = "nop" /\ node' = [node EXCEPT ![t] = @ + 1] /\ UNCHANGED <<pc, then>>
  <2>1. PICK n : n = node[t]
    OBVIOUS
  <2>2. n \in Nat /\ n + 1 <= w /\ Comes(n, g, w) /\ node'[t] = n + 1 /\ pc'[t] = "node"
    BY <1>0, <1>3, <1>7, <1>8, <2>1 DEF TypeOK
  <2>3. Comes(n + 1, g, w)'
    <3>1. \A k \in n + 1 .. w - 1 : k \in n .. w - 1
      BY <2>2
    <3>2. QED
      BY <1>3, <2>2, <3>1 DEF Comes, Kind
  <2>4. Bound(t, g, w)'
    BY <1>4, <2>2, <2>3 DEF Bound
  <2>5. ~Ahead(t)' /\ ~Past(t, w)' /\ ~Holds(t)'
    <3>1. n + 1 # w + 1
      BY <1>1, <2>2
    <3>2. QED
      BY <2>2, <3>1 DEF Ahead, Arrived, Past, Holds, Released
  <2>6. Work(g, w)'
    BY <1>0, <1>1, <1>3, <1>4, <1>5, <2>2, <2>5, KeepWork
  <2>7. QED
    BY <1>1, <1>2, <1>3, <2>4, <2>6, KeepGoal
<1>9. CASE ~AtEnd(t) /\ Current(t).kind # "nop" /\ pc' = [pc EXCEPT ![t] = Current(t).kind] /\ UNCHANGED <<then, node>>
  <2>1. /\ node[t] = w /\ Comes(node[t], g, w) /\ Kind(w) \in {"mul", "op"}
        /\ pc'[t] = Kind(w) /\ node'[t] = w /\ Kind(w)' = Kind(w)
    BY <1>0, <1>3, <1>7, <1>9 DEF TypeOK, Kind
  <2>2. g # "stop"
    BY <1>5, <1>9, <2>1 DEF Sound, AtEnd
  <2>3. IF Kind(w) = "mul" THEN g = "convert" ELSE g = "compute"
    BY <1>5, <2>1, <2>2 DEF Sound, Comes, Goals
  <2>4. Bound(t, g, w)'
    BY <1>4, <2>1, <2>3 DEF Bound
  <2>5. ~Ahead(t)' /\ ~Past(t, w)'
    BY <2>1 DEF Ahead, Arrived, Past
  <2>6. Work(g, w)'
    BY <1>0, <1>1, <1>3, <1>4, <1>5, <2>1, <2>3, <2>5, KeepWork
  <2>7. QED
    BY <1>1, <1>2, <1>3, <2>4, <2>6, KeepGoal
<1>10. QED
  BY <1>6, <1>8, <1>9 DEF Loop

LEMMA ComputedGoal ==
    ASSUME IInv, NEW t \in Threads, Computed(t), OnlyMoves(t), TypeOK', WorkersInOrder'
    PROVE  Running'
<1>0. TypeOK /\ pc[t] = "computed" /\ pc[t] \in Computing /\ ~Leaving(t)
  BY DEF IInv, Computed, Computing, Leaving, Released
<1>1. PICK g \in Goals, w \in 0 .. Len(cgraph) : Goal(g, w) /\ Bound(t, g, w) /\ w \in Nat
  BY <1>0, AGoal
<1>2. /\ t \in Party /\ Joined(t) /\ n_graph.threads >= 1
      /\ g = "compute" /\ node[t] = w
  BY <1>0, <1>1, AGoal, BoundAt
<1>3. /\ UNCHANGED <<n_graph, last, nth, cgraph, n_passed, did, chunk, part, mine>>
      /\ abort' = abort \/ abort' = w + 1
  BY <1>2 DEF Computed
<1>4. Joined(t)' /\ nth'[t] = n_graph.threads /\ Past(t, w) /\ ~Holds(t)
  BY <1>0, <1>1, <1>2, <1>3 DEF Joined, Past, Holds, Released, Goal, Work
<1>5. Sound(g, w) /\ Work(g, w) /\ Len(cgraph) \in Nat /\ w < Len(cgraph) /\ Kind(w) # "nop"
  BY <1>0, <1>1, <1>2, GraphFacts DEF Goal, Sound
<1>6. CASE ~(w + 1 < Len(cgraph))
  <2>1. pc'[t] = "node" /\ node'[t] = w + 1 /\ w + 1 = Len(cgraph')
    <3>1. pc'[t] = "node" /\ node'[t] = w + 1
      BY <1>0, <1>2, <1>6 DEF Computed, Met, TypeOK
    <3>2. QED
      BY <1>1, <1>3, <1>5, <1>6, <3>1
  <2>2. Bound(t, g, w)' /\ ~Holds(t)'
    BY <1>2, <1>4, <2>1 DEF Bound, Holds, Released
  <2>3. Work(g, w)'
    BY <1>0, <1>1, <1>2, <1>3, <1>4, <1>5, <2>1, <2>2, KeepWork
  <2>4. QED
    BY <1>1, <1>2, <1>3, <2>2, <2>3, KeepGoal
<1>7. CASE w + 1 < Len(cgraph)
  <2>1. /\ then'[t] = "node" /\ node'[t] = w + 1
        /\ pc'[t] = IF n_graph.threads = 1 THEN "node" ELSE "enter"
    BY <1>0, <1>2, <1>7 DEF Computed, Met, GoToBarrier, TypeOK
  <2>2. CASE n_graph.threads # 1
    <3>1. pc'[t] = "enter" /\ AtBarrier(t, g, w)'
      BY <1>2, <1>3, <1>7, <2>1, <2>2 DEF AtBarrier
    <3>2. Bound(t, g, w)'
      BY <1>4, <3>1 DEF Bound, Ahead
    <3>3. ~Holds(t)' /\ pc'[t] \notin {"begin", "claim"}
      BY <3>1 DEF Holds, Released
    <3>4. Work(g, w)'
      BY <1>0, <1>1, <1>2, <1>3, <1>4, <1>5, <3>3, KeepWork
    <3>5. QED
      BY <1>1, <1>2, <1>3, <3>2, <3>4, KeepGoal
  <2>3. CASE n_graph.threads = 1
    <3>1. t = 0 /\ Party = {0}
      BY <1>2, <2>3, OneThread
    <3>2. w \in 0 .. Len(cgraph) - 1 /\ w + 1 \in 0 .. Len(cgraph)
      BY <1>1, <1>5, <1>7
    <3>3. did = Before(w + 1)
      BY <1>0, <1>2, <1>4, <1>5, <3>1, <3>2, Completed
    <3>4. PICK n \in 0 .. Len(cgraph) : n = w + 1
      BY <3>2
    <3>5. Before(n)' = Before(n) /\ Party' = Party
      BY <1>3, SamePieces
    <3>6. did' = Before(n)' /\ HeadAt(n)'
      BY <1>3, <1>4, <2>1, <2>3, <3>1, <3>3, <3>4, <3>5 DEF HeadAt, AtHead
    <3>7. n \in 0 .. Len(cgraph') /\ n_graph'.threads >= 1
      BY <1>2, <1>3
    <3>8. Fresh'
      BY <3>6, <3>7 DEF Fresh
    <3>9. QED
      BY <3>8, NewGoalNext
  <2>4. QED
    BY <2>2, <2>3
<1>8. QED
  BY <1>6, <1>7

\* The steps that do a piece of the goal's work.
LEMMA OthersSame ==
    ASSUME TypeOK, NEW t \in Threads, OnlyMoves(t), n_passed' = n_passed, NEW w
    PROVE  \A u \in Party \ {t} : /\ u \in Threads /\ Still(u) /\ Joined(u)' = Joined(u) /\ Ahead(u)' = Ahead(u)
                                  /\ Holds(u)' = Holds(u) /\ Past(u, w)' = Past(u, w)
<1>1. Party \subseteq Threads
  BY GraphFacts
<1>2. QED
  BY <1>1, StillSame DEF OnlyMoves

LEMMA OpGoal ==
    ASSUME IInv, NEW t \in Threads, Op(t), OnlyMoves(t)
    PROVE  Running'
<1>0. TypeOK /\ pc[t] = "op" /\ pc[t] \in Computing /\ ~Leaving(t)
  BY DEF IInv, Op, Go, Computing, Leaving, Released
<1>1. PICK g \in Goals, w \in 0 .. Len(cgraph) : Goal(g, w) /\ Bound(t, g, w) /\ w \in Nat
  BY <1>0, AGoal
<1>2. /\ t \in Party /\ Joined(t) /\ n_graph.threads >= 1
      /\ g = "compute" /\ node[t] = w /\ Kind(w) = "op"
  BY <1>0, <1>1, AGoal, BoundAt
<1>3. /\ UNCHANGED <<cgraph, n_graph, last, node, nth, n_passed, abort>>
      /\ pc'[t] = "computed" /\ did' = did \cup {<<w, t>>}
  BY <1>0, <1>2 DEF Op, Go, Did, shared, local, TypeOK
<1>4. /\ Party' = Party /\ Pieces(w)' = Pieces(w) /\ Before(w)' = Before(w) /\ Kind(w)' = Kind(w)
      /\ Joined(t)' = Joined(t)
  BY <1>3, SamePieces DEF Joined
<1>5. Bound(t, g, w)'
  BY <1>2, <1>3, <1>4 DEF Bound
<1>6. <<w, t>> \in Pieces(w)
  BY <1>2 DEF Pieces, Share, Kind, Party
<1>7. Before(w) \subseteq did' /\ did' \subseteq Before(w) \cup Pieces(w)
  BY <1>1, <1>2, <1>3, <1>6 DEF Goal, Work
<1>8. \A u \in Party : Joined(u)' /\ pc'[u] # "begin" => nth'[u] = n_graph'.threads
  BY <1>0, <1>1, <1>2, <1>3, OthersSame DEF Goal, Work, Still
<1>9. OperatorDone(w)'
  <2>1. OperatorDone(w)
    BY <1>1, <1>2 DEF Goal, Work
  <2>2. ASSUME NEW u \in Party, Past(u, w)' PROVE <<w, u>> \in did'
    BY <1>0, <1>3, <2>1, <2>2, OthersSame DEF OperatorDone
  <2>3. QED
    BY <1>4, <2>2 DEF OperatorDone
<1>10. Work(g, w)'
  BY <1>2, <1>4, <1>7, <1>8, <1>9 DEF Work
<1>11. QED
  BY <1>1, <1>2, <1>3, <1>5, <1>10, KeepGoal

LEMMA ConvertGoal ==
    ASSUME IInv, NEW t \in Threads, Convert(t), OnlyMoves(t), TypeOK', WorkersInOrder'
    PROVE  Running'
<1>0. TypeOK /\ pc[t] = "mul" /\ pc[t] \in Computing /\ ~Leaving(t)
  BY DEF IInv, Convert, Computing, Leaving, Released
<1>1. PICK g \in Goals, w \in 0 .. Len(cgraph) : Goal(g, w) /\ Bound(t, g, w) /\ w \in Nat
  BY <1>0, AGoal
<1>2. /\ t \in Party /\ Joined(t) /\ 0 \in Party /\ n_graph.threads >= 1
      /\ g = "convert" /\ node[t] = w
  BY <1>0, <1>1, AGoal, BoundAt
<1>3. /\ UNCHANGED <<cgraph, n_graph, last, nth, n_passed, abort, did>>
      /\ then'[t] = "chunks" /\ node'[t] = w /\ part'[t] = w + 1 /\ mine'[t] = t
      /\ pc'[t] = IF n_graph.threads = 1 THEN "chunks" ELSE "enter"
      /\ chunk' = IF t = 0 THEN nth[t] ELSE chunk
  BY <1>0, <1>2 DEF Convert, GoToBarrier, ResetChunk, TypeOK
<1>4. /\ Party' = Party /\ Before(w)' = Before(w) /\ Kind(w)' = Kind(w)
      /\ Joined(t)' /\ nth'[t] = n_graph.threads /\ nth[t] = n_graph.threads
  BY <1>0, <1>1, <1>2, <1>3, SamePieces DEF Joined, Goal, Work
<1>5. Sound(g, w) /\ Work(g, w) /\ Before(w) = did
  BY <1>1, <1>2 DEF Goal, Work
<1>6. CASE n_graph.threads = 1
  <2>1. t = 0 /\ Party = {0}
    BY <1>2, <1>6, OneThread
  <2>2. w < Len(cgraph') /\ Kind(w)' = "mul"
    BY <1>2, <1>3, <1>4, <1>5 DEF Sound
  <2>3. ProductAt(w)'
    BY <1>3, <1>4, <1>6, <2>1, <2>2 DEF ProductAt, Holds
  <2>4. PICK n \in 0 .. Len(cgraph') : n = w
    BY <1>1, <1>3
  <2>5. did' = Before(n)' /\ ProductAt(n)' /\ n_graph'.threads >= 1
    BY <1>2, <1>3, <1>4, <1>5, <2>3, <2>4
  <2>6. Fresh'
    BY <2>5 DEF Fresh
  <2>7. QED
    BY <2>6, NewGoalNext
<1>7. CASE n_graph.threads # 1
  <2>1. Bound(t, g, w)' /\ pc'[t] = "enter"
    BY <1>2, <1>3, <1>4, <1>7 DEF Bound, Ahead, AtBarrier
  <2>2. \A u \in Party : Joined(u)' /\ pc'[u] # "begin" => nth'[u] = n_graph'.threads
    BY <1>0, <1>3, <1>4, <1>5, OthersSame DEF Work, Still
  <2>3. Converted(w)
    BY <1>2, <1>5 DEF Work
  <2>4. ASSUME NEW u \in Party, Ahead(u)' PROVE part'[u] = w + 1 /\ mine'[u] = u
    BY <1>0, <1>3, <2>3, <2>4, OthersSame DEF Converted, Still
  <2>5. Ahead(0)' => chunk' = n_graph'.threads
    BY <1>0, <1>2, <1>3, <1>4, <2>3, OthersSame DEF Converted
  <2>6. Converted(w)'
    BY <1>4, <2>4, <2>5 DEF Converted
  <2>7. Work(g, w)'
    BY <1>2, <1>3, <1>4, <1>5, <2>2, <2>6 DEF Work
  <2>8. QED
    BY <1>1, <1>2, <1>3, <2>1, <2>7, KeepGoal
<1>8. QED
  BY <1>6, <1>7

LEMMA ChunkGoal ==
    ASSUME IInv, NEW t \in Threads, Chunk(t), OnlyMoves(t)
    PROVE  Running'
<1>0. TypeOK /\ pc[t] = "chunks" /\ pc[t] \in Computing /\ ~Leaving(t)
  BY DEF IInv, Chunk, Computing, Leaving, Released
<1>1. PICK g \in Goals, w \in 0 .. Len(cgraph) : Goal(g, w) /\ Bound(t, g, w) /\ w \in Nat
  BY <1>0, AGoal
<1>2. /\ t \in Party /\ Joined(t) /\ n_graph.threads >= 1 /\ n_graph.threads \in Nat
      /\ g = "compute" /\ node[t] = w /\ Kind(w) = "mul"
  BY <1>0, <1>1, AGoal, BoundAt
<1>3. Sound(g, w) /\ Work(g, w) /\ ChunksClaimed(w) /\ nth[t] = n_graph.threads
  BY <1>0, <1>1, <1>2 DEF Goal, Work
<1>4. /\ UNCHANGED <<cgraph, n_graph, last, node, nth, n_passed, abort, chunk, part, mine>>
      /\ \/ /\ mine[t] < Count(w) /\ did' = did \cup {<<w, mine[t]>>}
            /\ pc'[t] = IF n_graph.threads >= Count(w) THEN "computed" ELSE "claim"
         \/ mine[t] >= Count(w) /\ did' = did /\ pc'[t] = "computed"
  BY <1>0, <1>2, <1>3 DEF Chunk, Did, Count, shared, local, TypeOK
<1>5. /\ Party' = Party /\ Pieces(w)' = Pieces(w) /\ Before(w)' = Before(w) /\ Kind(w)' = Kind(w)
      /\ Count(w)' = Count(w) /\ Joined(t)' = Joined(t)
  BY <1>4, SamePieces DEF Joined
<1>6. Count(w) \in Nat /\ chunk \in Nat /\ mine[t] \in Nat /\ mine[t] < chunk /\ Holds(t)
  <2>1. w \in 0 .. Len(cgraph) - 1
    BY <1>0, <1>1, <1>2, <1>3, GraphFacts DEF Sound
  <2>2. Count(w) \in Nat /\ chunk \in Nat /\ mine[t] \in Nat
    BY <1>0, <2>1, CountType DEF TypeOK
  <2>3. Holds(t)
    BY <1>0 DEF Holds
  <2>4. QED
    BY <1>2, <1>3, <2>2, <2>3 DEF ChunksClaimed
<1>7. pc'[t] \in {"computed", "claim"} /\ ~Holds(t)'
  BY <1>4 DEF Holds, Released
<1>8. Bound(t, g, w)'
  BY <1>2, <1>4, <1>5, <1>7 DEF Bound
<1>9. Before(w) \subseteq did' /\ did' \subseteq Before(w) \cup Pieces(w)
  <2>1. mine[t] < Count(w) => <<w, mine[t]>> \in Pieces(w)
    <3>1. mine[t] < Count(w) => mine[t] \in 0 .. Count(w) - 1
      BY <1>6
    <3>2. Pieces(w) = {w} \X (0 .. Count(w) - 1)
      BY <1>2 DEF Pieces, Share, Kind, Count
    <3>3. QED
      BY <3>1, <3>2
  <2>2. QED
    BY <1>2, <1>3, <1>4, <2>1 DEF Work
<1>10. \A u \in Party : Joined(u)' /\ pc'[u] # "begin" => nth'[u] = n_graph'.threads
  BY <1>0, <1>3, <1>4, OthersSame DEF Work, Still
<1>11. ChunksClaimed(w)'
  <2>1. chunk' >= n_graph'.threads
    BY <1>3, <1>4 DEF ChunksClaimed
  <2>2. \A u \in Party : part'[u] = w + 1 /\ Joined(u)' /\ pc'[u] # "begin"
    BY <1>0, <1>3, <1>4, <1>5, <1>7, OthersSame DEF ChunksClaimed, Still
  <2>3. ASSUME NEW u \in Party, Holds(u)'
        PROVE  /\ mine'[u] < chunk' /\ <<w, mine'[u]>> \notin did'
               /\ \A v \in Party \ {u} : Holds(v)' => mine'[v] # mine'[u]
    <3>1. u # t /\ Holds(u)
      BY <1>0, <1>4, <1>7, <2>3, OthersSame
    <3>2. /\ mine[u] < chunk /\ <<w, mine[u]>> \notin did /\ mine[t] # mine[u]
          /\ \A v \in Party \ {u} : Holds(v) => mine[v] # mine[u]
      BY <1>2, <1>3, <1>6, <3>1 DEF ChunksClaimed
    <3>3. <<w, mine[u]>> \notin did'
      BY <1>4, <3>2
    <3>4. \A v \in Party \ {u} : Holds(v)' => Holds(v)
      BY <1>0, <1>4, <1>7, OthersSame
    <3>5. QED
      BY <1>4, <3>2, <3>3, <3>4
  <2>4. ASSUME NEW c \in 0 .. chunk' - 1, c < Count(w)'
        PROVE  <<w, c>> \in did' \/ \E u \in Party : Holds(u)' /\ mine'[u] = c
    <3>1. c \in 0 .. chunk - 1 /\ c < Count(w)
      BY <1>4, <1>5, <2>4
    <3>2. <<w, c>> \in did \/ \E u \in Party : Holds(u) /\ mine[u] = c
      BY <1>3, <3>1 DEF ChunksClaimed
    <3>3. CASE <<w, c>> \in did
      BY <1>4, <3>3
    <3>4. CASE mine[t] = c
      <4>1. mine[t] < Count(w)
        BY <3>1, <3>4
      <4>2. did' = did \cup {<<w, mine[t]>>}
        BY <1>4, <1>6, <4>1
      <4>3. QED
        BY <3>4, <4>2
    <3>5. CASE \E u \in Party \ {t} : Holds(u) /\ mine[u] = c
      BY <1>0, <1>4, <3>5, OthersSame
    <3>6. QED
      BY <3>2, <3>3, <3>4, <3>5
  <2>5. \A p \in did' : p[1] = w => p[2] < chunk'
    BY <1>3, <1>4, <1>6 DEF ChunksClaimed
  <2>6. ASSUME NEW u \in Party
        PROVE  (pc'[u] = "claim" => n_graph'.threads < Count(w)') /\ (Past(u, w)' => chunk' >= Count(w)')
    <3>1. CASE u # t
      BY <1>0, <1>3, <1>4, <1>5, <3>1, OthersSame DEF ChunksClaimed, Still
    <3>2. CASE u = t
      <4>1. pc'[t] = "claim" => n_graph.threads < Count(w)
        BY <1>2, <1>4, <1>6
      <4>2. pc'[t] = "computed" => chunk >= Count(w)
        <5>1. chunk >= n_graph.threads
          BY <1>3 DEF ChunksClaimed
        <5>2. QED
          BY <1>2, <1>4, <1>6, <5>1
      <4>3. Past(t, w)' => pc'[t] = "computed"
        BY <1>7 DEF Past, Ahead, Arrived
      <4>4. QED
        BY <1>4, <1>5, <3>2, <4>1, <4>2, <4>3
    <3>3. QED
      BY <3>1, <3>2
  <2>7. QED
    BY <1>5, <2>1, <2>2, <2>3, <2>4, <2>5, <2>6 DEF ChunksClaimed
<1>12. Work(g, w)'
  BY <1>2, <1>5, <1>9, <1>10, <1>11 DEF Work
<1>13. QED
  BY <1>1, <1>2, <1>4, <1>8, <1>12, KeepGoal

LEMMA ClaimGoal ==
    ASSUME IInv, NEW t \in Threads, Claim(t), OnlyMoves(t)
    PROVE  Running'
<1>0. TypeOK /\ pc[t] = "claim" /\ pc[t] \in Computing /\ ~Leaving(t)
  BY DEF IInv, Claim, Go, Computing, Leaving, Released
<1>1. PICK g \in Goals, w \in 0 .. Len(cgraph) : Goal(g, w) /\ Bound(t, g, w) /\ w \in Nat
  BY <1>0, AGoal
<1>2. /\ t \in Party /\ Joined(t) /\ n_graph.threads >= 1 /\ n_graph.threads \in Nat
      /\ g = "compute" /\ node[t] = w /\ Kind(w) = "mul"
  BY <1>0, <1>1, AGoal, BoundAt
<1>3. Sound(g, w) /\ Work(g, w) /\ ChunksClaimed(w) /\ nth[t] = n_graph.threads /\ chunk \in Nat
  BY <1>0, <1>1, <1>2 DEF Goal, Work, TypeOK
<1>4. /\ UNCHANGED <<cgraph, n_graph, last, node, nth, n_passed, abort, part, did>>
      /\ pc'[t] = "chunks" /\ mine'[t] = chunk /\ \A u \in Threads \ {t} : mine'[u] = mine[u]
  BY <1>0 DEF Claim, Go, TypeOK
<1>5. /\ Party' = Party /\ Pieces(w)' = Pieces(w) /\ Before(w)' = Before(w) /\ Kind(w)' = Kind(w)
      /\ Count(w)' = Count(w) /\ Joined(t)' = Joined(t)
  BY <1>4, SamePieces DEF Joined
<1>6. PICK k \in Nat : k = chunk' /\ k = chunk + 1
  <2>1. chunk' = chunk + 1
    BY DEF Claim
  <2>2. QED
    BY <1>3, <2>1
<1>7. Holds(t)' /\ ~Holds(t) /\ ~Past(t, w)'
  BY <1>0, <1>4 DEF Holds, Released, Past, Ahead, Arrived
<1>8. Bound(t, g, w)'
  BY <1>2, <1>4, <1>5 DEF Bound
<1>9. \A u \in Party : Joined(u)' /\ pc'[u] # "begin" => nth'[u] = n_graph'.threads
  BY <1>0, <1>3, <1>4, OthersSame DEF Work, Still
<1>10. ChunksClaimed(w)'
  <2>1. chunk >= n_graph.threads /\ k >= n_graph.threads
    <3>1. chunk >= n_graph.threads
      BY <1>3 DEF ChunksClaimed
    <3>2. QED
      BY <1>2, <1>3, <1>6, <3>1
  <2>2. \A u \in Party : part'[u] = w + 1 /\ Joined(u)' /\ pc'[u] # "begin"
    BY <1>0, <1>3, <1>4, <1>5, OthersSame DEF ChunksClaimed, Still
  <2>3. \A u \in Party \ {t} : Holds(u)' =>
           /\ mine'[u] = mine[u] /\ mine[u] \in Nat /\ mine[u] < chunk /\ <<w, mine[u]>> \notin did
           /\ \A v \in Party \ {u} : Holds(v) => mine[v] # mine[u]
    BY <1>0, <1>3, <1>4, OthersSame DEF ChunksClaimed, TypeOK
  <2>4. <<w, chunk>> \notin did
    BY <1>3 DEF ChunksClaimed
  <2>5. ASSUME NEW u \in Party, Holds(u)'
        PROVE  /\ mine'[u] < k /\ <<w, mine'[u]>> \notin did'
               /\ \A v \in Party \ {u} : Holds(v)' => mine'[v] # mine'[u]
    <3>1. CASE u = t
      <4>1. chunk < k
        BY <1>3, <1>6
      <4>2. ASSUME NEW v \in Party \ {t}, Holds(v)' PROVE mine'[v] # chunk
        <5>1. mine'[v] = mine[v] /\ mine[v] \in Nat /\ mine[v] < chunk
          BY <2>3, <4>2
        <5>2. QED
          BY <1>3, <5>1
      <4>3. QED
        BY <1>4, <2>4, <3>1, <4>1, <4>2
    <3>2. CASE u # t
      <4>1. mine'[u] = mine[u] /\ mine[u] < k /\ mine[u] # chunk /\ <<w, mine[u]>> \notin did
        BY <1>3, <1>6, <2>3, <2>5, <3>2
      <4>2. \A v \in Party \ {u, t} : Holds(v)' => mine'[v] # mine'[u]
        BY <1>0, <1>4, <2>3, <2>5, <3>2, OthersSame
      <4>3. QED
        BY <1>4, <4>1, <4>2
    <3>3. QED
      BY <3>1, <3>2
  <2>6. ASSUME NEW c \in 0 .. k - 1, c < Count(w)
        PROVE  <<w, c>> \in did' \/ \E u \in Party : Holds(u)' /\ mine'[u] = c
    <3>1. CASE c = chunk
      BY <1>2, <1>4, <1>7, <3>1
    <3>2. CASE c # chunk
      <4>1. c \in 0 .. chunk - 1
        BY <1>3, <1>6, <3>2
      <4>2. <<w, c>> \in did \/ \E u \in Party : Holds(u) /\ mine[u] = c
        BY <1>3, <2>6, <4>1 DEF ChunksClaimed
      <4>3. \A u \in Party : Holds(u) => u # t /\ Holds(u)' /\ mine'[u] = mine[u]
        BY <1>0, <1>4, <1>7, OthersSame
      <4>4. QED
        BY <1>4, <4>2, <4>3
    <3>3. QED
      BY <3>1, <3>2
  <2>7. \A p \in did' : p[1] = w => p[2] < k
    <3> SUFFICES ASSUME NEW p \in did, p[1] = w PROVE p[2] < k
      BY <1>4
    <3>1. p[2] < chunk /\ p[2] \in Nat
      BY <1>0, <1>3 DEF ChunksClaimed, TypeOK
    <3>2. QED
      BY <1>3, <1>6, <3>1
  <2>8. \A u \in Party : pc'[u] = "claim" => n_graph.threads < Count(w)
    BY <1>0, <1>3, <1>4, OthersSame DEF ChunksClaimed, Still
  <2>9. ASSUME NEW u \in Party, Past(u, w)' PROVE k >= Count(w)
    <3>1. u # t /\ Past(u, w)
      BY <1>0, <1>4, <1>7, <2>9, OthersSame
    <3>2. chunk >= Count(w)
      BY <1>3, <3>1 DEF ChunksClaimed
    <3>3. Count(w) \in Nat
      <4>1. w \in 0 .. Len(cgraph) - 1
        BY <1>0, <1>1, <1>2, <1>3, GraphFacts DEF Sound
      <4>2. QED
        BY <1>0, <4>1, CountType
    <3>4. QED
      BY <1>3, <1>6, <3>2, <3>3
  <2>10. QED
    BY <1>4, <1>5, <1>6, <2>1, <2>2, <2>5, <2>6, <2>7, <2>8, <2>9 DEF ChunksClaimed
<1>11. Work(g, w)'
  BY <1>2, <1>3, <1>4, <1>5, <1>9, <1>10 DEF Work
<1>12. QED
  BY <1>1, <1>2, <1>4, <1>8, <1>11, KeepGoal

\* The last one lets everybody pass: the goal is reached, and the next begins.
LEMMA PassGoal ==
    ASSUME IInv, NEW t \in Threads, Pass(t), OnlyMoves(t), TypeOK', WorkersInOrder'
    PROVE  Over' \/ Running'
<1>0. TypeOK /\ pc[t] = "pass" /\ pc[t] \in Computing /\ ~Leaving(t) /\ Party \subseteq Threads
  BY GraphFacts DEF IInv, Pass, Go, Computing, Leaving, Released
<1>1. PICK g \in Goals, w \in 0 .. Len(cgraph) : Goal(g, w) /\ Bound(t, g, w) /\ w \in Nat
  BY <1>0, AGoal
<1>2. /\ t \in Party /\ Joined(t) /\ 0 \in Party /\ n_graph.threads >= 1 /\ n_graph.threads \in Nat
      /\ Sound(g, w) /\ Work(g, w) /\ Len(cgraph) \in Nat
  BY <1>0, <1>1, AGoal, GraphFacts DEF Goal
<1>3. /\ UNCHANGED <<cgraph, n_graph, last, then, node, nth, mine, abort, aborted, chunk, part, did>>
      /\ pc'[t] = then[t]
      /\ \A u \in Party : Arrived(u)
      /\ \A u \in Party \ {t} : pc[u] = "spin" /\ Released(u)'
  BY Passed DEF Pass
<1>4. Party' = Party /\ \A n : Before(n)' = Before(n) /\ Kind(n)' = Kind(n)
  BY <1>3, SamePieces
<1>5. ASSUME NEW u \in Party
      PROVE  /\ Joined(u) /\ Joined(u)' /\ AtBarrier(u, g, w) /\ Ahead(u) /\ Past(u, w)
             /\ pc[u] # "begin" /\ nth[u] = n_graph.threads
  <2>1. u \in Threads /\ Bound(u, g, w) /\ Arrived(u) /\ pc[u] # "begin"
    BY <1>0, <1>1, <1>3 DEF Goal, Arrived
  <2>2. Joined(u)
    BY <1>0, <2>1, Unjoined DEF IInv, Ahead
  <2>3. AtBarrier(u, g, w)
    BY <1>0, <2>1, <2>2, BoundAt
  <2>4. nth[u] = n_graph.threads
    BY <1>2, <2>1, <2>2 DEF Work
  <2>5. QED
    BY <1>3, <2>1, <2>2, <2>3, <2>4 DEF Joined, Ahead, Past
<1>6. ASSUME NEW u \in Party PROVE pc'[u] = then'[u] \/ Released(u)'
  BY <1>3
<1>7. ASSUME NEW n \in 0 .. Len(cgraph), did = Before(n), HeadAt(n)' \/ ProductAt(n)'
      PROVE  Running'
  <2>1. did' = Before(n)' /\ n \in 0 .. Len(cgraph') /\ n_graph'.threads >= 1
    BY <1>2, <1>3, <1>4, <1>7
  <2>2. Fresh'
    BY <1>7, <2>1 DEF Fresh
  <2>3. QED
    BY <2>2, NewGoalNext
<1>8. ASSUME NEW n \in 0 .. Len(cgraph), did = Before(n), aborted \/ n = Len(cgraph), \A u \in Party : then[u] = "done"
      PROVE  Over'
  <2>1. \A u \in Party : Leaving(u)' /\ Joined(u)
    BY <1>3, <1>5, <1>6, <1>8 DEF Leaving
  <2>2. did' = Before(n) /\ (aborted' \/ n = Len(cgraph))
    BY <1>3, <1>8
  <2>3. QED
    BY <1>2, <1>3, <2>1, <2>2, AllLeaving
<1>9. CASE g = "convert"
  <2>1. did = Before(w)
    BY <1>2, <1>9 DEF Work
  <2>2. Converted(w) /\ Kind(w) = "mul" /\ w < Len(cgraph)
    BY <1>2, <1>9 DEF Work, Sound
  <2>3. chunk' = n_graph'.threads
    BY <1>2, <1>3, <1>5, <2>2 DEF Converted
  <2>4. ASSUME NEW u \in Party
        PROVE  /\ Joined(u)' /\ Holds(u)' /\ node'[u] = w /\ nth'[u] = n_graph'.threads
               /\ part'[u] = w + 1 /\ mine'[u] = u
    <3>1. then'[u] = "chunks" /\ node'[u] = w
      BY <1>3, <1>5, <1>9 DEF AtBarrier
    <3>2. QED
      BY <1>3, <1>5, <1>6, <2>2, <3>1 DEF Converted, Holds
  <2>5. ProductAt(w)'
    BY <1>3, <1>4, <2>2, <2>3, <2>4 DEF ProductAt
  <2>6. QED
    BY <1>1, <1>7, <2>1, <2>5
<1>10. CASE g = "compute"
  <2>1. w \in 0 .. Len(cgraph) - 1 /\ w + 1 \in 0 .. Len(cgraph) /\ Kind(w) # "nop"
    BY <1>1, <1>2, <1>10 DEF Sound
  <2>2. did = Before(w + 1)
    BY <1>0, <1>2, <1>5, <1>10, <2>1, Completed
  <2>3. CASE w + 1 < Len(cgraph)
    <3>1. ASSUME NEW u \in Party
          PROVE  AtHead(u, w + 1)' /\ nth'[u] = n_graph'.threads
      <4>1. then'[u] = "node" /\ node'[u] = w + 1
        BY <1>3, <1>5, <1>10, <2>3 DEF AtBarrier
      <4>2. QED
        BY <1>3, <1>5, <1>6, <4>1 DEF AtHead
    <3>2. PICK n \in 0 .. Len(cgraph) : n = w + 1
      BY <2>1
    <3>3. HeadAt(n)'
      BY <1>4, <3>1, <3>2 DEF HeadAt
    <3>4. QED
      BY <1>7, <2>2, <3>2, <3>3
  <2>4. CASE ~(w + 1 < Len(cgraph))
    <3>1. PICK n \in 0 .. Len(cgraph) : n = w + 1
      BY <2>1
    <3>2. n = Len(cgraph)
      BY <1>1, <1>2, <2>1, <2>4, <3>1
    <3>3. \A u \in Party : then[u] = "done"
      BY <1>5, <1>10, <2>4 DEF AtBarrier
    <3>4. QED
      BY <1>8, <2>2, <3>1, <3>2, <3>3
  <2>5. QED
    BY <2>3, <2>4
<1>11. CASE g = "stop"
  <2>1. did = Before(w)
    BY <1>2, <1>11 DEF Work
  <2>2. aborted \/ w = Len(cgraph)
    <3>1. w = Len(cgraph) \/ abort = w
      BY <1>2, <1>11 DEF Sound
    <3>2. abort = w => abort # -1
      BY <1>1
    <3>3. QED
      BY <3>1, <3>2 DEF IInv, WorkersInOrder
  <2>3. \A u \in Party : then[u] = "done"
    BY <1>5, <1>11 DEF AtBarrier
  <2>4. QED
    BY <1>1, <1>8, <2>1, <2>2, <2>3
<1>12. QED
  BY <1>1, <1>9, <1>10, <1>11 DEF Goals

-----------------------------------------------------------------------------
(* Steps of threads outside the last graph.                                *)

\* A thread that is not in the graph, and at most begins it, changes no goal.
LEMMA Outsider ==
    ASSUME IInv, NEW t \in Threads, NEW g \in Goals, NEW w \in 0 .. Len(cgraph), Goal(g, w),
           n_graph.threads >= 1, UNCHANGED <<cgraph, n_graph, n_passed, abort, did, chunk, part>>,
           \A u \in Threads \ {t} : Still(u) /\ last'[u] = last[u],
           t # 0, t \in Party => ~Joined(t) /\ (~Joined(t)' \/ pc'[t] = "begin"),
           ~Ahead(t)', ~Holds(t)', ~Past(t, w)', pc'[t] # "claim"
    PROVE  Running'
<1>1. /\ TypeOK /\ Party' = Party /\ Party \subseteq Threads /\ w \in Nat /\ 0 \in Party
      /\ Kind(w)' = Kind(w) /\ Count(w)' = Count(w) /\ Pieces(w)' = Pieces(w) /\ Before(w)' = Before(w)
  <2>1. n_graph.threads \in 0 .. N /\ N \in Nat /\ Party \subseteq Threads /\ w \in Nat
    BY GraphFacts, Constants DEF IInv
  <2>2. 0 \in Party
    BY <2>1 DEF Party
  <2>3. QED
    BY <2>1, <2>2, SamePieces DEF IInv
<1>2. \A u \in Party \ {t} : /\ u \in Threads /\ Still(u) /\ Joined(u)' = Joined(u) /\ Ahead(u)' = Ahead(u)
                             /\ Holds(u)' = Holds(u) /\ Past(u, w)' = Past(u, w)
  BY <1>1, StillSame
<1>3. Sound(g, w)' /\ Work(g, w)
  BY <1>1 DEF Goal, Sound
<1>4. ASSUME NEW u \in Party PROVE Bound(u, g, w)'
  <2>1. CASE u # t
    BY <1>1, <1>2, <2>1, KeepBound DEF Goal
  <2>2. CASE u = t
    <3>1. Comes(0, g, w)
      BY <2>2 DEF Goal, Bound
    <3>2. Comes(0, g, w)'
      BY <3>1 DEF Comes, Kind
    <3>3. QED
      BY <2>2, <3>2 DEF Bound
  <2>3. QED
    BY <2>1, <2>2
<1>5. \A u \in Party : Joined(u)' /\ pc'[u] # "begin" => nth'[u] = n_graph'.threads
  BY <1>2, <1>3 DEF Work, Still
<1>6. \A u \in Party : (Ahead(u)' => u # t) /\ (Past(u, w)' => u # t) /\ (Holds(u)' => u # t)
  OBVIOUS
<1>7. g = "convert" => Converted(w)'
  <2> SUFFICES ASSUME g = "convert" PROVE Converted(w)'
    OBVIOUS
  <2>1. Converted(w)
    BY <1>3 DEF Work
  <2>2. \A u \in Party : Ahead(u)' => part'[u] = w + 1 /\ mine'[u] = u
    BY <1>2, <1>6, <2>1 DEF Converted, Still
  <2>3. Ahead(0)' => chunk' = n_graph'.threads
    BY <1>1, <1>2, <2>1 DEF Converted
  <2>4. QED
    BY <1>1, <2>2, <2>3 DEF Converted
<1>8. g = "compute" /\ Kind(w)' = "op" => OperatorDone(w)'
  BY <1>1, <1>2, <1>3, <1>6 DEF Work, OperatorDone
<1>9. g = "compute" /\ Kind(w)' = "mul" => ChunksClaimed(w)'
  <2> SUFFICES ASSUME g = "compute", Kind(w) = "mul" PROVE ChunksClaimed(w)'
    BY <1>1
  <2>1. ChunksClaimed(w)
    BY <1>3 DEF Work
  <2>2. t \notin Party
    BY <2>1 DEF ChunksClaimed
  <2>3. \A u \in Party : /\ Still(u) /\ Joined(u)' = Joined(u) /\ Holds(u)' = Holds(u) /\ Past(u, w)' = Past(u, w)
                         /\ pc'[u] = pc[u] /\ mine'[u] = mine[u] /\ part'[u] = part[u]
    BY <1>2, <2>2 DEF Still
  <2>4. QED
    BY <1>1, <2>1, <2>3 DEF ChunksClaimed
<1>10. Work(g, w)'
  BY <1>1, <1>3, <1>5, <1>7, <1>8, <1>9 DEF Work
<1>11. Goal(g, w)' /\ n_graph'.threads >= 1 /\ w \in 0 .. Len(cgraph')
  BY <1>1, <1>3, <1>4, <1>10 DEF Goal
<1>12. QED
  BY <1>11 DEF Running

LEMMA LeavingGoal ==
    ASSUME IInv, NEW t \in Threads, ComputeStep(t), Leaving(t)
    PROVE  Over' \/ (pc'[0] \in Computing /\ Running')
<1>0. TypeOK /\ OnlyMoves(t) /\ 0 \in Threads /\ Party \subseteq Threads
  BY StepFrame, Constants, GraphFacts DEF IInv
<1>1. /\ (Spin(t) /\ pc'[t] = "done" /\ then'[t] = "done") \/ (Done(t) /\ pc'[t] \in Outside \cup Between)
      /\ UNCHANGED <<cgraph, n_graph, n_passed, chunk, abort, aborted, last, part, did>>
  BY LeavingStep
<1>2. (pc'[t] = "done" /\ then'[t] = "done") \/ pc'[t] \in Outside \cup Between
  BY <1>1
<1>3. pc'[t] \in Computing => Leaving(t)'
  BY <1>2 DEF Leaving, Computing, Outside, Between
<1>4. \A u \in Threads \ {t} : Still(u) /\ Leaving(u)' = Leaving(u) /\ pc'[u] = pc[u]
  BY <1>0, <1>1, StillSame DEF OnlyMoves, Still
<1>5. Party' = Party /\ \A n : Before(n)' = Before(n)
  BY <1>1, SamePieces
<1>6. CASE Over
  <2>1. pc'[0] \notin Computing \/ Leaving(0)'
    BY <1>0, <1>3, <1>4, <1>6 DEF Over
  <2>2. \A u \in Party' \ {0} : last'[u] = n_graph' /\ (pc'[u] \in Computing => Leaving(u)')
    BY <1>0, <1>1, <1>3, <1>4, <1>5, <1>6 DEF Over
  <2>3. Leaving(0)' /\ pc'[0] \in Computing =>
           \E n \in 0 .. Len(cgraph') : did' = Before(n)' /\ (aborted' \/ n = Len(cgraph'))
    <3>1. Leaving(0)' /\ pc'[0] \in Computing => Leaving(0) /\ pc[0] \in Computing
      BY <1>0, <1>4, StepPc
    <3>2. QED
      BY <1>1, <1>5, <1>6, <3>1 DEF Over
  <2>4. QED
    BY <2>1, <2>2, <2>3 DEF Over
<1>7. CASE pc[0] \in Computing /\ Running
  <2>1. n_graph.threads >= 1 /\ 0 \in Party
    <3>1. n_graph.threads \in 0 .. N /\ N \in Nat /\ n_graph.threads >= 1
      BY <1>0, <1>7, GraphFacts, Constants DEF Running
    <3>2. QED
      BY <3>1 DEF Party
  <2>2. PICK g \in Goals, w \in 0 .. Len(cgraph) : Goal(g, w)
    BY <1>7 DEF Running
  <2>3. t \in Party => ~Joined(t) /\ ~Joined(t)'
    BY <1>0, <1>1, <2>2, BoundAt DEF Goal, Joined
  <2>4. t # 0
    BY <2>1, <2>3 DEF Joined
  <2>5. ~Ahead(t)' /\ ~Holds(t)' /\ ~Past(t, w)' /\ pc'[t] # "claim"
    BY <1>2 DEF Ahead, Arrived, Holds, Released, Past, Outside, Between
  <2>6. \A u \in Threads \ {t} : Still(u) /\ last'[u] = last[u]
    BY <1>1, <1>4
  <2>7. UNCHANGED part
    BY <1>1
  <2>8. Running'
    BY <1>1, <2>1, <2>2, <2>3, <2>4, <2>5, <2>6, Outsider
  <2>9. QED
    BY <1>0, <1>4, <1>7, <2>4, <2>8
<1>8. QED
  BY <1>6, <1>7 DEF IInv

LEMMA StepGoal ==
    ASSUME IInv, NEW t \in Threads, ComputeStep(t)
    PROVE  Over' \/ (pc'[0] \in Computing /\ Running')
<1>0. OnlyMoves(t) /\ TypeOK' /\ WorkersInOrder' /\ pc[t] \in Computing
  BY StepFrame, StepType, StepOrder, StepPc DEF IInv
<1>1. CASE Leaving(t)
  BY <1>1, LeavingGoal
<1>2. CASE ~Leaving(t)
  <2>1. /\ pc[0] \in Computing /\ pc[t] # "done"
    BY <1>0, <1>2, AGoal, BoundAt DEF IInv
  <2>2. pc'[0] \in Computing
    <3>1. t = 0 => pc'[0] \in Computing
      BY <2>1, StepPc
    <3>2. t # 0 => pc'[0] = pc[0]
      BY <1>0, Constants DEF OnlyMoves, Still
    <3>3. QED
      BY <2>1, <3>1, <3>2
  <2>3. Over' \/ Running'
    <3>1. ~Done(t)
      BY <2>1 DEF Done, Go
    <3>2. QED
      BY <1>0, <1>2, <3>1, BeginGoal, LoopGoal, OpGoal, ConvertGoal, ChunkGoal, ClaimGoal, ComputedGoal,
         EnterGoal, AddGoal, ResetGoal, PassGoal, SpinGoal DEF ComputeStep
  <2>4. QED
    BY <2>2, <2>3
<1>3. QED
  BY <1>1, <1>2

LEMMA ComputePreserves ==
    ASSUME IInv, NEW t \in Threads, ComputeStep(t)
    PROVE  IInv'
BY StepType, StepOrder, StepBarrier, StepGoal DEF IInv

\* A worker between graphs: it takes the new graph, and begins it if it is one
\* of its threads, or it does not.
Takes(t) == last[t] # n_graph /\ last'[t] = n_graph /\ (IF t \in Party THEN pc'[t] = "begin" ELSE pc'[t] \in Between)
Waits(t) == last'[t] = last[t] /\ pc'[t] \in Between

LEMMA WorkerMoves ==
    ASSUME IInv, NEW t \in Workers, WorkerStep(t)
    PROVE  /\ UNCHANGED <<cgraph, n_graph, n_barrier, n_passed, chunk, stop, pause, abort, aborted,
                          then, node, nth, mine, seen, part, did>>
           /\ pc[t] \in Between /\ pc' \in [Threads -> Computing \cup Outside \cup Between]
           /\ last' \in [Threads -> [count : 0 .. MaxGraphs, threads : 0 .. N]]
           /\ pending' \in [Threads -> BOOLEAN]
           /\ \A u \in Threads \ {t} : Still(u) /\ last'[u] = last[u]
           /\ pending'[t] => pc'[t] = "begin"
           /\ Takes(t) \/ Waits(t)
<1>0. TypeOK /\ t \in Threads /\ t \in Nat
  BY Constants DEF IInv
<1>1. /\ UNCHANGED <<cgraph, n_graph, n_barrier, n_passed, chunk, stop, pause, abort, aborted,
                     then, node, nth, mine, seen, part, did>>
      /\ pc[t] \in Between
  BY DEF WorkerStep, Top, Pausing, CheckStop, Poll, CheckLocked, shared, local, Between
<1>2. ~pending[t]
  BY <1>0, <1>1 DEF IInv, WorkersInOrder, Between
<1>3. n_graph.threads \in 0 .. N /\ N \in Nat /\ (t \in Party <=> t < n_graph.threads)
  <2>1. n_graph.threads \in 0 .. N /\ N \in Nat
    BY <1>0, GraphFacts, Constants
  <2>2. QED
    BY <1>0, <2>1 DEF Party
<1> DEFINE Good == /\ pc' = [pc EXCEPT ![t] = pc'[t]] /\ pc'[t] \in Between \cup {"begin"}
                   /\ last' = [last EXCEPT ![t] = last'[t]] /\ last'[t] \in {last[t], n_graph}
                   /\ pending' = [pending EXCEPT ![t] = pending'[t]] /\ pending'[t] \in BOOLEAN
                   /\ pending'[t] => pc'[t] = "begin"
                   /\ Takes(t) \/ Waits(t)
<1>4. ASSUME Top(t) \/ Pausing(t) \/ CheckStop(t) PROVE Good
  <2>1. pc' = [pc EXCEPT ![t] = pc'[t]] /\ pc'[t] \in Between
    BY <1>0, <1>4 DEF Top, Pausing, CheckStop, Between, TypeOK
  <2>2. last' = last /\ pending' = pending
    BY <1>4 DEF Top, Pausing, CheckStop, local
  <2>3. last' = [last EXCEPT ![t] = last'[t]] /\ pending' = [pending EXCEPT ![t] = pending'[t]]
    BY <1>0, <2>2 DEF TypeOK
  <2>4. ~pending'[t] /\ pending'[t] \in BOOLEAN
    BY <1>0, <1>2, <2>2 DEF TypeOK
  <2>5. QED
    BY <2>1, <2>2, <2>3, <2>4 DEF Waits
<1>5. ASSUME Note(t) PROVE /\ last' = [last EXCEPT ![t] = last'[t]]
                           /\ pending' = [pending EXCEPT ![t] = pending'[t]]
                           /\ NewGraph(t) => last'[t] = n_graph /\ (pending'[t] <=> t \in Party)
                           /\ ~NewGraph(t) => last'[t] = last[t] /\ ~pending'[t]
                           /\ pending'[t] \in BOOLEAN
  <2>1. CASE NewGraph(t)
    <3>1. last' = [last EXCEPT ![t] = n_graph] /\ pending' = [pending EXCEPT ![t] = t < n_graph.threads]
      BY <1>5, <2>1 DEF Note
    <3>2. last'[t] = n_graph /\ (pending'[t] <=> t < n_graph.threads)
      BY <1>0, <3>1 DEF TypeOK
    <3>3. (t < n_graph.threads) \in BOOLEAN
      OBVIOUS
    <3>4. pending'[t] = (t < n_graph.threads)
      BY <1>0, <3>1 DEF TypeOK
    <3>5. last' = [last EXCEPT ![t] = last'[t]]
      BY <3>1, <3>2
    <3>6. pending' = [pending EXCEPT ![t] = pending'[t]]
      BY ONLY <3>1, <3>4
    <3>7. pending'[t] \in BOOLEAN
      BY ONLY <3>3, <3>4
    <3>8. pending'[t] <=> t \in Party
      BY <1>3, <3>2
    <3>9. QED
      BY <2>1, <3>2, <3>5, <3>6, <3>7, <3>8
  <2>2. CASE ~NewGraph(t)
    <3>1. last' = last /\ pending' = pending
      BY <1>5, <2>2 DEF Note
    <3>2. last' = [last EXCEPT ![t] = last'[t]] /\ pending' = [pending EXCEPT ![t] = pending'[t]]
      BY <1>0, <3>1 DEF TypeOK
    <3>3. ~pending'[t] /\ pending'[t] \in BOOLEAN
      BY <1>0, <1>2, <3>1 DEF TypeOK
    <3>4. QED
      BY <2>2, <3>1, <3>2, <3>3
  <2>3. QED
    BY <2>1, <2>2
<1>6. ASSUME Poll(t) PROVE Good
  <2>1. Note(t)
    BY <1>6 DEF Poll
  <2>2. pc' = [pc EXCEPT ![t] = IF pending'[t] THEN "begin" ELSE "locked"]
    BY <1>6 DEF Poll
  <2>3. pc'[t] = (IF pending'[t] THEN "begin" ELSE "locked") /\ pc' = [pc EXCEPT ![t] = pc'[t]]
    BY <1>0, <2>2 DEF TypeOK
  <2>4. NewGraph(t) => last[t] # n_graph
    BY DEF NewGraph
  <2>5. Takes(t) \/ Waits(t)
    BY <1>5, <2>1, <2>3, <2>4 DEF Takes, Waits, Between
  <2>6. QED
    BY <1>5, <2>1, <2>3, <2>5 DEF Between
<1>7. ASSUME CheckLocked(t) PROVE Good
  <2>1. Note(t)
    BY <1>7 DEF CheckLocked
  <2>2. pc' = [pc EXCEPT ![t] = IF ~Ready(t) THEN "waiting" ELSE IF pending'[t] THEN "begin" ELSE "top"]
    BY <1>7 DEF CheckLocked
  <2>3. /\ pc'[t] = IF ~Ready(t) THEN "waiting" ELSE IF pending'[t] THEN "begin" ELSE "top"
        /\ pc' = [pc EXCEPT ![t] = pc'[t]]
    BY <1>0, <2>2 DEF TypeOK
  <2>4. NewGraph(t) => last[t] # n_graph /\ Ready(t)
    BY DEF NewGraph, Ready
  <2>5. Takes(t) \/ Waits(t)
    BY <1>5, <2>1, <2>3, <2>4 DEF Takes, Waits, Between
  <2>6. pending'[t] => pc'[t] = "begin"
    BY <1>5, <2>1, <2>3, <2>4
  <2>7. QED
    BY <1>5, <2>1, <2>3, <2>5, <2>6 DEF Between
<1>8. Good
  BY <1>4, <1>6, <1>7 DEF WorkerStep
<1>9. pc' \in [Threads -> Computing \cup Outside \cup Between]
  <2>1. pc \in [Threads -> Computing \cup Outside \cup Between]
    BY <1>0 DEF TypeOK
  <2>2. pc'[t] \in Computing \cup Outside \cup Between
    BY <1>8 DEF Computing
  <2>3. QED
    BY <1>8, <2>1, <2>2
<1>10. /\ last' \in [Threads -> [count : 0 .. MaxGraphs, threads : 0 .. N]]
       /\ pending' \in [Threads -> BOOLEAN]
  <2>1. /\ last \in [Threads -> [count : 0 .. MaxGraphs, threads : 0 .. N]]
        /\ n_graph \in [count : 0 .. MaxGraphs, threads : 0 .. N]
        /\ pending \in [Threads -> BOOLEAN]
    BY <1>0 DEF TypeOK
  <2>2. last'[t] \in [count : 0 .. MaxGraphs, threads : 0 .. N]
    BY <1>0, <1>8, <2>1
  <2>3. QED
    BY <1>8, <2>1, <2>2
<1>11. \A u \in Threads \ {t} : Still(u) /\ last'[u] = last[u]
  BY <1>0, <1>1, <1>8 DEF Still, TypeOK
<1>12. QED
  BY <1>1, <1>8, <1>9, <1>10, <1>11

LEMMA WorkerPreserves ==
    ASSUME IInv, NEW t \in Workers, WorkerStep(t)
    PROVE  IInv'
<1>0. TypeOK /\ WorkersInOrder /\ t \in Threads /\ 0 \in Threads /\ t # 0 /\ Workers \subseteq Threads
      /\ Party \subseteq Threads
  BY Constants, GraphFacts DEF IInv
<1>1. /\ UNCHANGED <<cgraph, n_graph, n_barrier, n_passed, chunk, stop, pause, abort, aborted,
                     then, node, nth, mine, seen, part, did>>
      /\ pc[t] \in Between /\ pc' \in [Threads -> Computing \cup Outside \cup Between]
      /\ last' \in [Threads -> [count : 0 .. MaxGraphs, threads : 0 .. N]]
      /\ pending' \in [Threads -> BOOLEAN]
      /\ \A u \in Threads \ {t} : Still(u) /\ last'[u] = last[u]
      /\ pending'[t] => pc'[t] = "begin"
      /\ Takes(t) \/ Waits(t)
  BY WorkerMoves
<1>2. TypeOK'
  BY <1>0, <1>1 DEF TypeOK
<1>3. Party' = Party /\ (\A n : Before(n)' = Before(n))
      /\ \A u \in Threads \ {t} : pc'[u] = pc[u] /\ seen'[u] = seen[u] /\ Leaving(u)' = Leaving(u)
  BY <1>1, SamePieces, StillSame DEF Still
<1>4. pc'[t] \in Between \cup {"begin"} /\ pc'[0] = pc[0] /\ pc[t] \notin Computing
  BY <1>0, <1>1, <1>3 DEF Takes, Waits, Between, Computing
<1>5. WorkersInOrder'
  <2>1. ASSUME NEW u \in Workers
        PROVE  /\ pc'[u] \notin Outside
               /\ pending'[u] => pc'[u] = "begin"
               /\ last'[u].count <= n_graph'.count
               /\ last'[u].count = n_graph'.count => last'[u] = n_graph'
               /\ pc'[u] \in Computing => IF last'[u] = n_graph' THEN u \in Party' ELSE Leaving(u)'
    <3>1. CASE u # t
      BY <1>0, <1>1, <1>3, <2>1, <3>1 DEF WorkersInOrder, Still
    <3>2. CASE u = t
      <4>1. pc'[u] \notin Outside /\ (pending'[u] => pc'[u] = "begin")
        BY <1>1, <1>4, <3>2 DEF Outside, Between
      <4>2. last'[u] = n_graph \/ last'[u] = last[u]
        BY <1>1, <3>2 DEF Takes, Waits
      <4>3. n_graph.count <= n_graph.count
        <5>1. n_graph.count \in 0 .. MaxGraphs /\ MaxGraphs \in Nat
          BY <1>0, GraphFacts, Constants
        <5>2. QED
          BY <5>1
      <4>4. last'[u].count <= n_graph'.count /\ (last'[u].count = n_graph'.count => last'[u] = n_graph')
        BY <1>0, <1>1, <4>2, <4>3 DEF WorkersInOrder
      <4>5. pc'[u] \in Computing => last'[u] = n_graph /\ u \in Party
        BY <1>1, <3>2 DEF Takes, Waits, Between, Computing
      <4>6. QED
        BY <1>1, <1>3, <4>1, <4>4, <4>5
    <3>3. QED
      BY <3>1, <3>2
  <2>2. QED
    BY <1>0, <1>1, <1>4, <2>1 DEF WorkersInOrder
<1>6. BarrierCounts'
  <2>1. Arrived(t)' = Arrived(t)
    BY <1>1, <1>4 DEF Arrived, Between
  <2>2. pc'[t] \notin {"add", "spin", "reset", "pass"} /\ pc[t] \notin {"reset", "pass"}
    BY <1>1, <1>4 DEF Between
  <2>3. QED
    BY <1>0, <1>1, <1>3, <2>1, <2>2, KeepBarrier
<1>7. CASE Over
  <2>1. ASSUME NEW u \in Party' \ {0} PROVE last'[u] = n_graph' /\ (pc'[u] \in Computing => Leaving(u)')
    <3>1. CASE u # t
      BY <1>0, <1>1, <1>3, <1>7, <2>1, <3>1 DEF Over
    <3>2. CASE u = t
      <4>1. last[t] = n_graph
        BY <1>3, <1>7, <2>1, <3>2 DEF Over
      <4>2. Waits(t)
        BY <1>1, <4>1 DEF Takes
      <4>3. QED
        BY <1>1, <3>2, <4>1, <4>2 DEF Waits, Between, Computing
    <3>3. QED
      BY <3>1, <3>2
  <2>2. Leaving(0)' = Leaving(0)
    BY <1>0, <1>3
  <2>3. Over'
    BY <1>1, <1>3, <1>4, <1>7, <2>1, <2>2 DEF Over
  <2>4. QED
    BY <1>2, <1>5, <1>6, <2>3 DEF IInv
<1>8. CASE pc[0] \in Computing /\ Running
  <2>1. PICK g \in Goals, w \in 0 .. Len(cgraph) : Goal(g, w)
    BY <1>8 DEF Running
  <2>2. t \in Party => ~Joined(t)
    BY <1>0, <1>4, <2>1, BoundAt DEF Goal
  <2>3. t \in Party => ~Joined(t)' \/ pc'[t] = "begin"
    BY <1>1, <2>2 DEF Takes, Waits, Joined
  <2>4. ~Ahead(t)' /\ ~Holds(t)' /\ ~Past(t, w)' /\ pc'[t] # "claim"
    BY <1>4 DEF Ahead, Arrived, Holds, Released, Past, Between
  <2>5. n_graph.threads >= 1 /\ UNCHANGED <<cgraph, n_graph, n_passed, abort, did, chunk, part>>
    BY <1>1, <1>8 DEF Running
  <2>6. Running'
    BY <1>0, <1>1, <2>1, <2>2, <2>3, <2>4, <2>5, Outsider
  <2>7. QED
    BY <1>2, <1>4, <1>5, <1>6, <1>8, <2>6 DEF IInv
<1>9. QED
  BY <1>7, <1>8 DEF IInv

-----------------------------------------------------------------------------
(* Thread 0 between graphs.                                                *)

\* A broadcast moves no thread into or out of a graph.
LEMMA WokenType ==
    ASSUME TypeOK
    PROVE  /\ Woken \in [Threads -> Computing \cup Outside \cup Between]
           /\ \A u \in Threads : Woken[u] = pc[u] \/ (pc[u] \in Between /\ Woken[u] \in Between)
<1>1. pc \in [Threads -> Computing \cup Outside \cup Between]
  BY DEF TypeOK
<1>2. \A u \in Threads : Woken[u] = IF pc[u] = "waiting" THEN "locked" ELSE IF pc[u] = "paused" THEN "top" ELSE pc[u]
  BY DEF Woken
<1>3. \A u \in Threads : Woken[u] = pc[u] \/ (pc[u] \in Between /\ Woken[u] \in Between)
  BY <1>2 DEF Between
<1>4. \A u \in Threads : Woken[u] \in Computing \cup Outside \cup Between
  BY <1>1, <1>3
<1>5. Woken = [u \in Threads |-> Woken[u]]
  BY DEF Woken
<1>6. QED
  BY <1>3, <1>4, <1>5

\* While thread 0 is between graphs, the last one stays over.
LEMMA StaysOver ==
    ASSUME IInv, pc[0] \in Outside, pc'[0] \in Outside, TypeOK',
           UNCHANGED <<n_graph, n_barrier, n_passed, then, seen, last, pending>>,
           \A u \in Workers : pc'[u] = pc[u] \/ {pc[u], pc'[u]} \subseteq Between,
           pc'[0] = "kick" => n_graph.count < MaxGraphs /\ abort' = -1 /\ did' = {},
           abort' # -1 => aborted'
    PROVE  IInv'
<1>0. TypeOK /\ WorkersInOrder /\ 0 \in Threads /\ Workers \subseteq Threads /\ Threads = Workers \cup {0}
      /\ Party \subseteq Threads /\ Party' = Party
  BY Constants, GraphFacts DEF IInv, Party
<1>1. pc[0] \notin Computing /\ pc'[0] \notin Computing
  BY DEF Outside, Computing
<1>2. Over
  BY <1>1 DEF IInv
<1>3. \A u \in Workers : /\ pc[u] \in Computing \/ pc'[u] \in Computing => pc'[u] = pc[u]
                         /\ Leaving(u)' = Leaving(u) /\ Arrived(u)' = Arrived(u)
                         /\ (pc'[u] \in Outside => pc[u] \in Outside)
  BY DEF Between, Outside, Computing, Leaving, Released, Arrived
<1>4. Arrived(0)' = Arrived(0)
  BY DEF Outside, Arrived
<1>5. WorkersInOrder'
  <2>1. ASSUME NEW u \in Workers
        PROVE  /\ pc'[u] \notin Outside
               /\ pending'[u] => pc'[u] = "begin"
               /\ last'[u].count <= n_graph'.count
               /\ last'[u].count = n_graph'.count => last'[u] = n_graph'
               /\ pc'[u] \in Computing => IF last'[u] = n_graph' THEN u \in Party' ELSE Leaving(u)'
    <3>1. pc[u] = "begin" => pc[u] \in Computing
      BY DEF Computing
    <3>2. QED
      BY <1>0, <1>3, <3>1 DEF WorkersInOrder
  <2>2. QED
    BY <1>0, <1>1, <2>1 DEF WorkersInOrder
<1>6. BarrierCounts'
  <2>1. \A u \in Threads : pc'[u] \in {"add", "spin", "reset", "pass"} \/ pc[u] \in {"add", "spin", "reset", "pass"}
                              => pc'[u] = pc[u]
    BY <1>0, <1>3 DEF Outside, Computing
  <2>2. {u \in Party : Arrived(u)}' = {u \in Party : Arrived(u)}
    BY <1>0, <1>3, <1>4
  <2>3. (\E u \in Threads : pc'[u] = "pass") <=> (\E u \in Threads : pc[u] = "pass")
    BY <2>1
  <2>4. n_barrier' = IF \E u \in Threads : pc'[u] = "pass" THEN 0 ELSE Cardinality({u \in Party : Arrived(u)}')
    BY <2>2, <2>3 DEF IInv, BarrierCounts
  <2>5. \A u \in Threads : pc'[u] \in {"reset", "pass"} =>
           /\ \A v \in Party' : Arrived(v)'
           /\ \A v \in Threads \ {u} : pc'[v] \notin {"reset", "pass"}
    BY <1>0, <1>3, <1>4, <2>1 DEF IInv, BarrierCounts
  <2>6. \A u \in Threads : (pc'[u] = "add" => seen'[u] = n_passed') /\ (pc'[u] = "spin" => seen'[u] <= n_passed')
    BY <2>1 DEF IInv, BarrierCounts
  <2>7. QED
    BY <2>4, <2>5, <2>6 DEF BarrierCounts
<1>7. Over'
  BY <1>0, <1>1, <1>2, <1>3 DEF Over
<1>8. QED
  BY <1>5, <1>6, <1>7 DEF IInv

LEMMA CallerPreserves ==
    ASSUME IInv, Caller \/ Join
    PROVE  IInv'
<1>0. TypeOK /\ WorkersInOrder /\ 0 \in Threads /\ Workers \subseteq Threads /\ 0 \notin Workers
  BY Constants DEF IInv
<1>1. /\ Woken \in [Threads -> Computing \cup Outside \cup Between]
      /\ \A u \in Threads : Woken[u] = pc[u] \/ (pc[u] \in Between /\ Woken[u] \in Between)
  BY <1>0, WokenType
<1>2. ASSUME NEW g \in Graphs, Start(g) PROVE IInv'
  <2>1. pc[0] \in Outside /\ pc'[0] \in Outside /\ \A u \in Workers : pc'[u] = pc[u]
    BY <1>0, <1>2 DEF Start, Go, Outside, TypeOK
  <2>2. TypeOK'
    <3>1. abort' \in -1 .. Len(cgraph') /\ chunk' \in Nat /\ did' \subseteq Nat \X Nat
      <4>1. g \in Seq(Nodes)
        BY GraphsAssumption
      <4>2. Len(g) \in Nat
        BY <4>1
      <4>3. QED
        BY <1>2, <4>2 DEF Start
    <3>2. pc' \in [Threads -> Computing \cup Outside \cup Between] /\ part' \in [Threads -> Nat]
      BY <1>0, <1>2 DEF Start, Go, Outside, TypeOK
    <3>3. QED
      BY <1>0, <1>2, <3>1, <3>2 DEF Start, local, TypeOK
  <2>3. n_graph.count < MaxGraphs /\ abort' = -1 /\ did' = {}
    BY <1>2 DEF Start
  <2>4. UNCHANGED <<n_graph, n_barrier, n_passed, then, seen, last, pending>>
    BY <1>2 DEF Start, local
  <2>5. QED
    BY <2>1, <2>2, <2>3, <2>4, StaysOver
<1>3. ASSUME Pause \/ Resume \/ Free PROVE IInv'
  <2>1. pc[0] = "idle" /\ pc' \in {Woken, [Woken EXCEPT ![0] = "join"]}
    BY <1>3 DEF Pause, Resume, Free
  <2>2. Woken[0] = "idle"
    BY <1>0, <1>1, <2>1 DEF Between
  <2>3. /\ pc[0] \in Outside /\ pc'[0] \in {"idle", "join"}
        /\ pc' \in [Threads -> Computing \cup Outside \cup Between]
        /\ \A u \in Workers : pc'[u] = Woken[u]
    BY <1>0, <1>1, <2>1, <2>2 DEF Outside
  <2>4. \A u \in Workers : pc'[u] = pc[u] \/ {pc[u], pc'[u]} \subseteq Between
    BY <1>0, <1>1, <2>3
  <2>5. /\ UNCHANGED <<cgraph, n_graph, n_barrier, n_passed, chunk, abort, aborted, local, part, did>>
        /\ {stop', pause'} \subseteq BOOLEAN
    BY <1>0, <1>3 DEF Pause, Resume, Free, TypeOK
  <2>6. TypeOK'
    BY <1>0, <2>3, <2>5 DEF TypeOK, local
  <2>7. pc'[0] \in Outside /\ pc'[0] # "kick" /\ (abort' # -1 => aborted')
    BY <1>0, <2>3, <2>5 DEF Outside, WorkersInOrder
  <2>8. QED
    BY <2>3, <2>4, <2>5, <2>6, <2>7, StaysOver DEF local
<1>4. ASSUME Join PROVE IInv'
  <2>1. pc[0] \in Outside /\ pc'[0] = "freed" /\ \A u \in Workers : pc'[u] = pc[u]
    BY <1>0, <1>4 DEF Join, Go, Outside, TypeOK
  <2>2. pc' \in [Threads -> Computing \cup Outside \cup Between]
    BY <1>0, <1>4 DEF Join, Go, Outside, TypeOK
  <2>3. TypeOK'
    BY <1>0, <1>4, <2>2 DEF Join, shared, local, TypeOK
  <2>4. UNCHANGED <<n_graph, n_barrier, n_passed, then, seen, last, pending, abort, aborted>>
    BY <1>4 DEF Join, shared, local
  <2>5. pc'[0] \in Outside /\ pc'[0] # "kick" /\ (abort' # -1 => aborted')
    BY <1>0, <2>1, <2>4 DEF Outside, WorkersInOrder
  <2>6. QED
    BY <2>1, <2>3, <2>4, <2>5, StaysOver
<1>5. QED
  BY <1>2, <1>3, <1>4 DEF Caller

\* Nobody is counted in the barrier while the graph is over.
LEMMA NobodyArrived ==
    ASSUME IInv, pc[0] \in Outside
    PROVE  /\ Over /\ n_barrier = 0
           /\ \A u \in Workers : pc[u] \in Computing => Leaving(u)
           /\ \A u \in Threads : ~Arrived(u) /\ pc[u] \notin {"begin", "add", "reset", "pass"}
<1>0. TypeOK /\ WorkersInOrder /\ Threads = Workers \cup {0} /\ 0 \notin Workers /\ Party \subseteq Threads
  BY Constants, GraphFacts DEF IInv
<1>1. Over
  BY DEF IInv, Outside, Computing
<1>2. \A u \in Workers : pc[u] \in Computing => Leaving(u)
  BY <1>0, <1>1 DEF WorkersInOrder, Over
<1>3. ASSUME NEW u \in Threads PROVE ~Arrived(u) /\ pc[u] \notin {"begin", "add", "reset", "pass"}
  <2>1. CASE u = 0
    BY <2>1 DEF Outside, Arrived
  <2>2. CASE u \in Workers
    <3>1. pc[u] \notin {"begin", "add", "reset", "pass"}
      BY <1>2, <2>2 DEF Computing, Leaving, Released
    <3>2. pc[u] = "spin" => Released(u)
      BY <1>2, <2>2 DEF Computing, Leaving
    <3>3. ~(Released(u) /\ Ahead(u))
      BY <1>0, NotBoth
    <3>4. QED
      BY <3>1, <3>2, <3>3 DEF Ahead, Arrived
  <2>3. QED
    BY <1>0, <2>1, <2>2
<1>4. n_barrier = 0
  <2>1. {u \in Party : Arrived(u)} = {}
    BY <1>0, <1>3
  <2>2. QED
    BY <1>3, <2>1, FS_EmptySet DEF IInv, BarrierCounts
<1>5. QED
  BY <1>1, <1>2, <1>3, <1>4

LEMMA KickoffPreserves ==
    ASSUME IInv, NEW threads \in 1 .. N + 1, Kickoff(threads)
    PROVE  IInv'
<1>0. TypeOK /\ WorkersInOrder /\ 0 \in Threads /\ Workers \subseteq Threads /\ 0 \notin Workers
      /\ Threads = Workers \cup {0} /\ N \in Nat \ {0} /\ MaxGraphs \in Nat /\ n_graph.count \in 0 .. MaxGraphs
  BY Constants, GraphFacts DEF IInv
<1>1. pc[0] = "kick" /\ pc[0] \in Outside
  BY DEF Kickoff, Outside
<1>2. n_graph.count < MaxGraphs /\ abort = -1 /\ did = {}
  BY <1>0, <1>1 DEF WorkersInOrder
<1>3. /\ UNCHANGED <<cgraph, n_barrier, n_passed, chunk, stop, abort, aborted, local, part, did>>
      /\ pause' = FALSE /\ pc' = [Woken EXCEPT ![0] = "begin"]
  BY DEF Kickoff
<1>4. PICK c \in 0 .. MaxGraphs, m \in 1 .. N : c = n_graph.count + 1 /\ n_graph' = [count |-> c, threads |-> m]
  <2>1. n_graph.count + 1 \in 0 .. MaxGraphs
    BY <1>0, <1>2
  <2>2. (IF threads > N THEN N ELSE threads) \in 1 .. N
    BY <1>0
  <2>3. QED
    BY <2>1, <2>2 DEF Kickoff
<1>5. n_graph'.count = c /\ n_graph'.threads = m /\ m >= 1 /\ m \in Nat /\ n_graph.count < c
  BY <1>0, <1>4
<1>6. /\ pc' \in [Threads -> Computing \cup Outside \cup Between] /\ pc'[0] = "begin"
      /\ \A u \in Workers : pc'[u] = pc[u] \/ (pc[u] \in Between /\ pc'[u] \in Between)
  <2>1. /\ Woken \in [Threads -> Computing \cup Outside \cup Between]
        /\ \A u \in Threads : Woken[u] = pc[u] \/ (pc[u] \in Between /\ Woken[u] \in Between)
    BY <1>0, WokenType
  <2>2. "begin" \in Computing
    BY DEF Computing
  <2>3. QED
    BY <1>0, <1>3, <2>1, <2>2
<1>7. TypeOK'
  <2>1. n_graph' \in [count : 0 .. MaxGraphs, threads : 0 .. N]
    <3>1. m \in 0 .. N
      BY <1>0, <1>4
    <3>2. QED
      BY <1>4, <3>1
  <2>2. QED
    BY <1>0, <1>3, <1>6, <2>1 DEF TypeOK, local
<1>8. /\ n_barrier = 0 /\ \A u \in Workers : pc[u] \in Computing => Leaving(u)
      /\ \A u \in Threads : ~Arrived(u) /\ pc[u] \notin {"begin", "add", "reset", "pass"}
  BY <1>1, NobodyArrived
<1>9. \A u \in Workers : /\ pc[u] \in Computing \/ pc'[u] \in Computing => pc'[u] = pc[u]
                         /\ Leaving(u)' = Leaving(u) /\ ~Arrived(u)'
                         /\ (pc'[u] \in Outside => pc[u] \in Outside)
                         /\ pc'[u] \notin {"begin", "add", "reset", "pass"}
  BY <1>0, <1>3, <1>6, <1>8 DEF Between, Outside, Computing, Leaving, Released, Arrived, local
<1>10. ASSUME NEW u \in Workers PROVE last'[u] # n_graph' /\ last'[u].count <= n_graph'.count /\ last'[u].count # n_graph'.count
  <2>1. last[u].count <= n_graph.count
    BY <1>0 DEF WorkersInOrder
  <2>2. last[u].count \in 0 .. MaxGraphs /\ last'[u] = last[u]
    BY <1>0, <1>3 DEF TypeOK, local
  <2>3. last[u].count < c
    BY <1>0, <1>4, <2>1, <2>2
  <2>4. last'[u].count <= c /\ last'[u].count # c
    BY <1>4, <2>2, <2>3
  <2>5. QED
    BY <1>5, <2>4
<1>11. WorkersInOrder'
  <2>1. ASSUME NEW u \in Workers
        PROVE  /\ pc'[u] \notin Outside
               /\ pending'[u] => pc'[u] = "begin"
               /\ last'[u].count <= n_graph'.count
               /\ last'[u].count = n_graph'.count => last'[u] = n_graph'
               /\ pc'[u] \in Computing => IF last'[u] = n_graph' THEN u \in Party' ELSE Leaving(u)'
    BY <1>0, <1>3, <1>8, <1>9, <1>10 DEF WorkersInOrder, local
  <2>2. pc'[0] \in Computing /\ pc'[0] # "kick"
    BY <1>6 DEF Computing
  <2>3. abort' # -1 => aborted'
    BY <1>0, <1>3 DEF WorkersInOrder
  <2>4. QED
    BY <1>5, <2>1, <2>2, <2>3 DEF WorkersInOrder
<1>12. \A u \in Threads : ~Arrived(u)' /\ pc'[u] \notin {"add", "reset", "pass"}
  BY <1>0, <1>6, <1>9 DEF Arrived
<1>13. BarrierCounts'
  <2>1. Party' \subseteq Threads
    BY <1>0, <1>4, <1>5 DEF Party, Threads
  <2>2. {u \in Party : Arrived(u)}' = {}
    BY <1>12, <2>1
  <2>3. n_barrier' = Cardinality({u \in Party : Arrived(u)}')
    BY <1>3, <1>8, <2>2, FS_EmptySet
  <2>4. n_barrier' = IF \E u \in Threads : pc'[u] = "pass" THEN 0 ELSE Cardinality({u \in Party : Arrived(u)}')
    BY <1>12, <2>3
  <2>5. \A u \in Threads : pc'[u] = "spin" => seen'[u] <= n_passed'
    <3> SUFFICES ASSUME NEW u \in Threads, pc'[u] = "spin" PROVE seen'[u] <= n_passed'
      OBVIOUS
    <3>1. u \in Workers /\ pc'[u] \in Computing
      BY <1>0, <1>6 DEF Computing
    <3>2. pc[u] = "spin"
      BY <1>9, <3>1
    <3>3. QED
      BY <1>3, <3>2 DEF IInv, BarrierCounts, local
  <2>6. QED
    BY <1>12, <2>4, <2>5 DEF BarrierCounts
<1>14. Fresh'
  <2>1. HeadAt(0)'
    <3>1. ASSUME NEW u \in Party' PROVE AtHead(u, 0)' /\ (Joined(u)' => pc'[u] = "begin")
      <4>1. u \in Threads
        BY <1>0, <1>4, <1>5 DEF Party, Threads
      <4>2. u # 0 => ~Joined(u)'
        BY <1>0, <1>10, <4>1 DEF Joined
      <4>3. QED
        BY <1>6, <4>2 DEF AtHead
    <3>2. QED
      BY <3>1 DEF HeadAt
  <2>2. did' = Before(0)' /\ 0 \in 0 .. Len(cgraph')
    <3>1. Len(cgraph') \in Nat
      BY <1>0, <1>3, GraphFacts
    <3>2. Before(0)' = {}
      BY DEF Before
    <3>3. QED
      BY <1>2, <1>3, <3>1, <3>2
  <2>3. QED
    BY <1>5, <1>7, <1>11, <2>1, <2>2 DEF Fresh
<1>15. pc'[0] \in Computing /\ Running'
  BY <1>6, <1>14, NewGoalNext DEF Computing
<1>16. QED
  BY <1>7, <1>11, <1>13, <1>15 DEF IInv

-----------------------------------------------------------------------------
(* The theorems.                                                           *)

LEMMA InitIInv == Init => IInv
<1> SUFFICES ASSUME Init PROVE IInv
  OBVIOUS
<1>0. /\ N \in Nat \ {0} /\ MaxGraphs \in Nat /\ 0 \in Threads /\ 0 \notin Workers /\ Workers \subseteq Threads
      /\ Threads = Workers \cup {0} /\ MayPause \in BOOLEAN
  BY Constants, ChoicesAssumption
<1>1. Party = {} /\ n_graph.threads = 0 /\ n_graph.count = 0
  BY DEF Init, None, Party
<1>2. pc[0] = "idle" /\ (\A u \in Workers : pc[u] = "top") /\ \A u \in Threads : ~pending[u] /\ last[u] = n_graph
  BY <1>0 DEF Init
<1>3. TypeOK
  <2>1. pc \in [Threads -> Computing \cup Outside \cup Between]
    BY <1>0 DEF Init, Outside, Between
  <2>2. n_graph \in [count : 0 .. MaxGraphs, threads : 0 .. N]
        /\ last \in [Threads -> [count : 0 .. MaxGraphs, threads : 0 .. N]]
    BY <1>0 DEF Init, None
  <2>3. cgraph = <<>> /\ Len(cgraph) = 0
    BY DEF Init
  <2>4. abort \in -1 .. Len(cgraph) /\ n_barrier \in 0 .. N /\ {n_passed, chunk} \subseteq Nat
    BY <1>0, <2>3 DEF Init
  <2>5. /\ {stop, pause, aborted} \subseteq BOOLEAN /\ pending \in [Threads -> BOOLEAN] /\ did \subseteq Nat \X Nat
    BY <1>0 DEF Init
  <2>6. /\ then \in [Threads -> {"node", "chunks", "done"}] /\ node \in [Threads -> Nat]
        /\ nth \in [Threads -> 0 .. N] /\ mine \in [Threads -> Nat] /\ seen \in [Threads -> Nat]
        /\ part \in [Threads -> Nat]
    BY <1>0 DEF Init
  <2>7. QED
    BY <2>1, <2>2, <2>3, <2>4, <2>5, <2>6 DEF TypeOK
<1>4. WorkersInOrder
  <2>1. pc[0] \notin Computing /\ pc[0] \in Outside /\ pc[0] # "kick" /\ abort = -1
    BY <1>2 DEF Init, Computing, Outside
  <2>2. \A u \in Workers : pc[u] \notin Outside /\ pc[u] \notin Computing
    BY <1>2 DEF Computing, Outside
  <2>3. \A u \in Workers : ~pending[u] /\ last[u] = n_graph /\ last[u].count <= n_graph.count
    BY <1>0, <1>1, <1>2
  <2>4. QED
    BY <2>1, <2>2, <2>3 DEF WorkersInOrder
<1>5. BarrierCounts
  <2>1. \A u \in Threads : pc[u] \notin {"add", "spin", "reset", "pass"}
    BY <1>0, <1>2
  <2>2. {u \in Party : Arrived(u)} = {} /\ n_barrier = 0
    BY <1>1 DEF Init
  <2>3. n_barrier = Cardinality({u \in Party : Arrived(u)})
    BY <2>2, FS_EmptySet
  <2>4. QED
    BY <2>1, <2>3 DEF BarrierCounts
<1>6. Over
  BY <1>1, <1>2 DEF Over, Computing
<1>7. QED
  BY <1>3, <1>4, <1>5, <1>6 DEF IInv

LEMMA Stutters ==
    ASSUME IInv, UNCHANGED vars
    PROVE  IInv'
<1>1. TypeOK'
  BY DEF IInv, TypeOK, vars
<1>2. WorkersInOrder'
  BY DEF IInv, WorkersInOrder, Leaving, Released, Party, vars
<1>3. BarrierCounts'
  BY DEF IInv, BarrierCounts, Arrived, Party, vars
<1>4. UNCHANGED <<cgraph, n_graph>>
  BY DEF vars
<1>5. Party' = Party /\ \A n : Kind(n)' = Kind(n) /\ Count(n)' = Count(n) /\ Pieces(n)' = Pieces(n) /\ Before(n)' = Before(n)
  BY <1>4, SamePieces
<1>6. \A u, w : /\ Joined(u)' = Joined(u) /\ Arrived(u)' = Arrived(u) /\ Released(u)' = Released(u)
                /\ Leaving(u)' = Leaving(u) /\ Ahead(u)' = Ahead(u) /\ Holds(u)' = Holds(u)
                /\ Past(u, w)' = Past(u, w)
  BY DEF vars, Joined, Arrived, Released, Leaving, Ahead, Holds, Past
<1>7. Over => Over'
  BY <1>5, <1>6 DEF Over, vars
<1>8. \A g, w : Sound(g, w)' = Sound(g, w)
  BY <1>5 DEF Sound, vars
<1>9. \A u, g, w : Bound(u, g, w)' = Bound(u, g, w)
  <2>1. \A n, g, w : Comes(n, g, w)' = Comes(n, g, w)
    BY <1>5 DEF Comes, vars
  <2>2. \A u, g, w : AtBarrier(u, g, w)' = AtBarrier(u, g, w)
    BY DEF AtBarrier, vars
  <2>3. UNCHANGED <<cgraph, pc, then, node>>
    BY DEF vars
  <2>4. QED
    BY <1>5, <1>6, <2>1, <2>2, <2>3 DEF Bound
<1>10. \A g, w : Work(g, w)' = Work(g, w)
  <2>1. UNCHANGED <<n_graph, chunk, pc, nth, mine, part, did>>
    BY DEF vars
  <2>2. \A w : Converted(w)' = Converted(w) /\ OperatorDone(w)' = OperatorDone(w)
    BY <1>5, <1>6, <2>1 DEF Converted, OperatorDone
  <2>3. \A w : ChunksClaimed(w)' = ChunksClaimed(w)
    BY <1>5, <1>6, <2>1 DEF ChunksClaimed
  <2>4. QED
    BY <1>5, <1>6, <2>1, <2>2, <2>3 DEF Work
<1>11. Running => Running'
  BY <1>4, <1>5, <1>8, <1>9, <1>10 DEF Running, Goal
<1>12. QED
  BY <1>1, <1>2, <1>3, <1>7, <1>11 DEF IInv, vars

LEMMA NextIInv == IInv /\ [Next]_vars => IInv'
BY ComputePreserves, WorkerPreserves, CallerPreserves, KickoffPreserves, Stutters DEF Next, Main

LEMMA IInvQuiet == IInv => Quiet
<1> SUFFICES ASSUME IInv PROVE Quiet
  OBVIOUS
<1>1. TypeOK /\ Workers \subseteq Threads
  BY Constants DEF IInv
<1>2. ASSUME pc[0] \in Outside
      PROVE  /\ n_barrier = 0
             /\ \A t \in Workers :
                 /\ ~pending[t]
                 /\ pc[t] \in Computing => then[t] = "done" /\
                       (pc[t] = "done" \/ (pc[t] = "spin" /\ n_passed # seen[t]))
  <2>1. /\ n_barrier = 0 /\ \A u \in Workers : pc[u] \in Computing => Leaving(u)
        /\ \A u \in Threads : pc[u] # "begin"
    BY <1>2, NobodyArrived
  <2>2. \A u \in Workers : seen[u] \in Nat /\ n_passed \in Nat
    BY <1>1 DEF TypeOK
  <2>3. \A u \in Workers : ~pending[u]
    BY <1>1, <2>1 DEF IInv, WorkersInOrder
  <2>4. \A u \in Workers : Released(u) => pc[u] = "spin" /\ n_passed # seen[u]
    BY <2>2 DEF Released
  <2>5. QED
    BY <2>1, <2>3, <2>4 DEF Leaving
<1>3. QED
  BY <1>1, <1>2 DEF Quiet

LEMMA IInvNodesInOrder == IInv => NodesInOrder
<1> SUFFICES ASSUME IInv PROVE NodesInOrder
  OBVIOUS
<1>0. TypeOK /\ 0 \in Threads
  BY Constants DEF IInv
<1>1. ASSUME NEW t \in Threads, Working(t)
      PROVE  /\ t \in Party /\ Before(node[t]) \subseteq did
             /\ pc[t] \in {"chunks", "claim"} =>
                  ChunksClaimed(node[t]) /\ nth[t] = n_graph.threads
  <2>1. pc[t] \in Computing /\ ~Leaving(t) /\ pc[t] # "begin"
    BY <1>1 DEF Working, Computing, Leaving, Released
  <2>2. PICK g \in Goals, w \in 0 .. Len(cgraph) : Goal(g, w) /\ Bound(t, g, w)
    BY <2>1, AGoal
  <2>3. t \in Party /\ Joined(t) /\ Work(g, w)
    BY <2>1, <2>2, AGoal DEF Goal
  <2>4. node[t] = w /\ (pc[t] \in {"chunks", "claim"} => g = "compute" /\ Kind(w) = "mul")
    BY <1>0, <1>1, <2>2, <2>3, BoundAt DEF Working
  <2>5. QED
    BY <2>1, <2>3, <2>4 DEF Work
<1>2. \A t \in Threads : Working(t) => Before(node[t]) \subseteq did
  BY <1>1
<1>3. ASSUME NEW t \in Threads, pc[t] \in {"chunks", "claim"}
      PROVE  \A u \in 0 .. nth[t] - 1 : part[u] = node[t] + 1
  <2>1. ChunksClaimed(node[t]) /\ nth[t] = n_graph.threads
    BY <1>1, <1>3 DEF Working
  <2>2. QED
    BY <2>1 DEF ChunksClaimed, Party
<1>4. ASSUME NEW t \in Threads, pc[t] = "chunks"
      PROVE  /\ <<node[t], mine[t]>> \notin did
             /\ \A u \in Threads \ {t} : pc[u] = "chunks" => mine[u] # mine[t]
  <2>1. t \in Party /\ ChunksClaimed(node[t]) /\ Holds(t)
    BY <1>1, <1>4 DEF Working, Holds
  <2>2. ASSUME NEW u \in Threads \ {t}, pc[u] = "chunks" PROVE u \in Party /\ Holds(u)
    BY <1>1, <2>2 DEF Working, Holds
  <2>3. QED
    BY <2>1, <2>2 DEF ChunksClaimed
<1>5. ASSUME pc[0] = "done"
      PROVE  \E n \in 0 .. Len(cgraph) : did = Before(n) /\ (aborted \/ n = Len(cgraph))
  <2>1. pc[0] \in Computing
    BY <1>5 DEF Computing
  <2>2. Leaving(0)
    <3>1. ~(\E g \in Goals, w \in 0 .. Len(cgraph) : Bound(0, g, w) /\ Joined(0))
      BY <1>0, <1>5, BoundAt
    <3>2. QED
      BY <1>0, <2>1, <3>1, AGoal
  <2>3. ~Running
    <3>1. ASSUME Running PROVE FALSE
      <4>1. n_graph.threads \in 0 .. N /\ n_graph.threads >= 1 /\ N \in Nat
        BY <1>0, <3>1, GraphFacts, Constants DEF Running
      <4>2. 0 \in Party /\ Joined(0)
        BY <4>1 DEF Party, Joined
      <4>3. QED
        BY <1>0, <2>2, <3>1, <4>2, BoundAt DEF Running, Goal
    <3>2. QED
      BY <3>1
  <2>4. QED
    BY <2>1, <2>2, <2>3 DEF IInv, Over
<1>6. QED
  BY <1>2, <1>3, <1>4, <1>5 DEF NodesInOrder

\* The invariant of the pool, kept by every step.
THEOREM Invariance == Spec => []IInv
BY InitIInv, NextIInv, PTL DEF Spec

\* "No worker threads should be accessing the parameters below at this stage":
\* while thread 0 is between graphs, no worker has work, and those still in the
\* code of the last graph are past its last barrier.
THEOREM BetweenGraphs == Spec => []Quiet
BY Invariance, IInvQuiet, PTL

\* Nodes are computed one after the other, the work buffer is read when it is
\* all converted, every chunk of a product is computed once, and a graph that
\* returns is computed up to its end or to where it was aborted.
THEOREM GraphsAreComputed == Spec => []NodesInOrder
BY Invariance, IInvNodesInOrder, PTL
=============================================================================
