------------------------------ MODULE ThreadPool ------------------------------
(***************************************************************************)
(* The worker threads under the model server's decode: ggml_threadpool of  *)
(* ggml/src/ggml-cpu/ggml-cpu.c, as built without OpenMP.  Thread 0 starts *)
(* a graph; each thread of it walks the nodes, meets the others at a       *)
(* barrier after each node, and in a matrix product claims chunks from a   *)
(* shared counter.  Between graphs the workers poll, then sleep on a       *)
(* condition variable; the pool can be paused, resumed and freed.          *)
(*                                                                         *)
(* A load, a store or a fetch_add of an atomic is a step of its own, and a *)
(* section under the mutex is one step.  The atomics are sequentially      *)
(* consistent here; the fences the relaxed ones rely on are not modelled.  *)
(* A graph is a sequence of nodes: "mul" with the number of chunks its     *)
(* size suggests, "op" for an operator that each thread does a part of,    *)
(* "nop" for one that is skipped.                                          *)
(***************************************************************************)
EXTENDS Integers, Sequences, FiniteSets

CONSTANTS
    N,           \* threads of the pool, thread 0 among them
    Graphs,      \* what may be computed: sequences of nodes
    ChunkFactor, \* 4: chunks per thread below which a product is split by thread
    MaxGraphs,   \* bound: graphs computed
    MayPause,    \* does the caller pause and resume the pool?
    MayAbort     \* is there an abort callback?

Threads == 0 .. N - 1
Workers == 1 .. N - 1
Nodes == [kind : {"mul", "op", "nop"}, chunks : Nat]

ASSUME NAssumption == N \in Nat \ {0} /\ ChunkFactor \in Nat /\ MaxGraphs \in Nat
ASSUME GraphsAssumption == \A g \in Graphs : g \in Seq(Nodes)
ASSUME ChoicesAssumption == {MayPause, MayAbort} \subseteq BOOLEAN

VARIABLES
    cgraph,               \* the graph of the pool
    n_graph,              \* graphs started so far and the threads of the last
    n_barrier, n_passed,  \* threads at the barrier; barriers passed
    chunk,                \* current_chunk
    stop, pause,
    abort,                \* node to stop at, -1 for none
    aborted,              \* ec == GGML_STATUS_ABORTED
    pc,                   \* per thread: what it does next
    then,                 \* per thread: what it does after the barrier
    node,                 \* per thread: node_n
    nth,                  \* per thread: params.nth
    mine,                 \* per thread: the chunk it computes
    seen,                 \* per thread: the n_passed it waits to change
    last, pending,        \* per worker: last_graph, pending
    part,                 \* per thread: the node its part of the work buffer is of
    did                   \* pieces of work done: <<node, chunk or thread>>

shared == <<cgraph, n_graph, n_barrier, n_passed, chunk, stop, pause, abort, aborted>>
local == <<then, node, nth, mine, seen, last, pending>>
vars == <<cgraph, n_graph, n_barrier, n_passed, chunk, stop, pause, abort, aborted,
          pc, then, node, nth, mine, seen, last, pending, part, did>>

None == [count |-> 0, threads |-> 0]

\* ggml_threadpool_new: the workers start at the top of their loop.
Init ==
    /\ cgraph = <<>> /\ n_graph = None
    /\ n_barrier = 0 /\ n_passed = 0 /\ chunk = 0
    /\ stop = FALSE /\ pause \in {FALSE, MayPause}
    /\ abort = -1 /\ aborted = FALSE
    /\ pc = [t \in Threads |-> IF t = 0 THEN "idle" ELSE "top"]
    /\ then = [t \in Threads |-> "done"] /\ node = [t \in Threads |-> 0]
    /\ nth = [t \in Threads |-> 0] /\ mine = [t \in Threads |-> 0]
    /\ seen = [t \in Threads |-> 0] /\ last = [t \in Threads |-> None]
    /\ pending = [t \in Threads |-> FALSE]
    /\ part = [t \in Threads |-> 0] /\ did = {}

Go(t, from, to) == pc[t] = from /\ pc' = [pc EXCEPT ![t] = to]

Unwoken == pc   \* mutant: nobody is woken

\* ggml_cond_broadcast: the sleepers check again.
Woken ==
    [t \in Threads |-> IF pc[t] = "waiting" THEN "locked" ELSE IF pc[t] = "paused" THEN "top" ELSE pc[t]]

-----------------------------------------------------------------------------
(***************************************************************************)
(* Thread 0 between graphs.                                                *)
(***************************************************************************)

\* ggml_graph_compute resets the parameters of the graph.
Start(g) ==
    /\ n_graph.count < MaxGraphs
    /\ Go(0, "idle", "kick")
    /\ cgraph' = g /\ chunk' = 0 /\ abort' = -1 /\ aborted' = FALSE
    /\ did' = {} /\ part' = [t \in Threads |-> 0]
    /\ UNCHANGED <<n_graph, n_barrier, n_passed, stop, pause, local>>

\* kickoff, under the mutex: the new graph, its threads, and everybody wakes.
Kickoff(threads) ==
    /\ pc[0] = "kick"
    /\ n_graph' = [count |-> n_graph.count + 1, threads |-> IF threads > N THEN N ELSE threads]
    /\ pause' = FALSE
    /\ pc' = [Woken EXCEPT ![0] = "begin"]
    /\ UNCHANGED <<cgraph, n_barrier, n_passed, chunk, stop, abort, aborted, local, part, did>>

Pause ==
    /\ MayPause /\ pc[0] = "idle" /\ ~pause
    /\ pause' = TRUE /\ pc' = Woken
    /\ UNCHANGED <<cgraph, n_graph, n_barrier, n_passed, chunk, stop, abort, aborted, local, part, did>>

Resume ==
    /\ pc[0] = "idle" /\ pause
    /\ pause' = FALSE /\ pc' = Woken
    /\ UNCHANGED <<cgraph, n_graph, n_barrier, n_passed, chunk, stop, abort, aborted, local, part, did>>

\* ggml_threadpool_free, until the workers are joined.
Free ==
    /\ pc[0] = "idle"
    /\ stop' = TRUE /\ pause' = FALSE
    /\ pc' = [Woken EXCEPT ![0] = "join"]
    /\ UNCHANGED <<cgraph, n_graph, n_barrier, n_passed, chunk, abort, aborted, local, part, did>>

Join ==
    /\ \A t \in Workers : pc[t] = "exited"
    /\ Go(0, "join", "freed")
    /\ UNCHANGED <<shared, local, part, did>>

-----------------------------------------------------------------------------
(***************************************************************************)
(* A worker between graphs: ggml_graph_compute_secondary_thread.           *)
(***************************************************************************)

Top(t) ==
    /\ pc[t] = "top" /\ pc' = [pc EXCEPT ![t] = IF pause THEN "pausing" ELSE "stop?"]
    /\ UNCHANGED <<shared, local, part, did>>

Pausing(t) ==
    /\ pc[t] = "pausing" /\ pc' = [pc EXCEPT ![t] = IF pause THEN "paused" ELSE "top"]
    /\ UNCHANGED <<shared, local, part, did>>

CheckStop(t) ==
    /\ pc[t] = "stop?" /\ pc' = [pc EXCEPT ![t] = IF stop THEN "exited" ELSE "poll"]
    /\ UNCHANGED <<shared, local, part, did>>

\* ggml_graph_compute_thread_ready, which also takes note of a new graph.
NewGraph(t) == ~(stop \/ pause) /\ n_graph # last[t]
Ready(t) == stop \/ pause \/ n_graph # last[t]
Note(t) ==
    IF NewGraph(t)
    THEN /\ last' = [last EXCEPT ![t] = n_graph]
         /\ pending' = [pending EXCEPT ![t] = t < n_graph.threads]
    ELSE UNCHANGED <<last, pending>>

\* Polling ends with work, without, or by its number of rounds.
Poll(t) ==
    /\ pc[t] = "poll"
    /\ Note(t)
    /\ pc' = [pc EXCEPT ![t] = IF pending'[t] THEN "begin" ELSE "locked"]
    /\ UNCHANGED <<shared, then, node, nth, mine, seen, part, did>>

\* Under the mutex: ready, or asleep on the condition variable.
CheckLocked(t) ==
    /\ pc[t] = "locked"
    /\ Note(t)
    /\ pc' = [pc EXCEPT ![t] = IF ~Ready(t) THEN "waiting"
                               ELSE IF pending'[t] THEN "begin" ELSE "top"]
    /\ UNCHANGED <<shared, then, node, nth, mine, seen, part, did>>

-----------------------------------------------------------------------------
(***************************************************************************)
(* ggml_graph_compute_thread, run by thread 0 and by the graph's workers.  *)
(***************************************************************************)

Begin(t) ==
    /\ Go(t, "begin", "node")
    /\ pending' = [pending EXCEPT ![t] = FALSE]
    /\ nth' = [nth EXCEPT ![t] = n_graph.threads]
    /\ node' = [node EXCEPT ![t] = 0]
    /\ UNCHANGED <<shared, then, mine, seen, last, part, did>>

Current(t) == cgraph[node[t] + 1]
AtEnd(t) == node[t] = Len(cgraph) \/ abort = node[t]

\* ggml_barrier, which a graph of one thread does not need; the thread goes on
\* with "to" (node n next).
GoToBarrier(t, to, n) ==
    /\ then' = [then EXCEPT ![t] = to]
    /\ node' = [node EXCEPT ![t] = n]
    /\ pc' = [pc EXCEPT ![t] = IF n_graph.threads = 1 THEN to ELSE "enter"]

\* The head of the loop: the last barrier, a node to skip, a node to compute.
Loop(t) ==
    /\ pc[t] = "node"
    /\ \/ AtEnd(t) /\ GoToBarrier(t, "done", node[t])
       \/ /\ ~AtEnd(t) /\ Current(t).kind = "nop"
          /\ node' = [node EXCEPT ![t] = @ + 1] /\ UNCHANGED <<pc, then>>
       \/ /\ ~AtEnd(t) /\ Current(t).kind # "nop"
          /\ pc' = [pc EXCEPT ![t] = Current(t).kind] /\ UNCHANGED <<then, node>>
    /\ UNCHANGED <<shared, nth, mine, seen, last, pending, part, did>>

Did(t, piece) == did' = did \cup {<<node[t], piece>>}

\* Another operator: every thread computes its own part.
Op(t) ==
    /\ Go(t, "op", "computed")
    /\ Did(t, t)
    /\ UNCHANGED <<shared, local, part>>

\* mul_mat converts its part of src1 into the work buffer; thread 0 resets the
\* chunk counter: the first nth chunks are taken already.
ResetChunk(t) == chunk' = IF t = 0 THEN nth[t] ELSE chunk
Convert(t) ==
    /\ pc[t] = "mul"
    /\ part' = [part EXCEPT ![t] = node[t] + 1]
    /\ ResetChunk(t)
    /\ mine' = [mine EXCEPT ![t] = t]
    /\ GoToBarrier(t, "chunks", node[t])
    /\ UNCHANGED <<cgraph, n_graph, n_barrier, n_passed, stop, pause, abort, aborted,
                   nth, seen, last, pending, did>>

\* Too few chunks for the threads: one chunk per thread.
NumChunks(n, threads) ==
    IF cgraph[n + 1].chunks < threads * ChunkFactor THEN threads ELSE cgraph[n + 1].chunks

Chunk(t) ==
    /\ pc[t] = "chunks"
    /\ LET count == NumChunks(node[t], nth[t]) IN
       \/ /\ mine[t] < count
          /\ Did(t, mine[t])
          /\ pc' = [pc EXCEPT ![t] = IF nth[t] >= count THEN "computed" ELSE "claim"]
       \/ /\ mine[t] >= count
          /\ pc' = [pc EXCEPT ![t] = "computed"] /\ UNCHANGED did
    /\ UNCHANGED <<shared, local, part>>

Claim(t) ==
    /\ Go(t, "claim", "chunks")
    /\ mine' = [mine EXCEPT ![t] = chunk]
    /\ chunk' = chunk + 1
    /\ UNCHANGED <<cgraph, n_graph, n_barrier, n_passed, stop, pause, abort, aborted,
                   then, node, nth, seen, last, pending, part, did>>

MetNobody(t) ==   \* mutant: no barrier between nodes
    /\ node' = [node EXCEPT ![t] = @ + 1]
    /\ pc' = [pc EXCEPT ![t] = "node"] /\ UNCHANGED then

\* The node is computed: thread 0 asks the abort callback; all meet, except
\* after the last node.
Met(t) ==
    IF node[t] + 1 < Len(cgraph) THEN GoToBarrier(t, "node", node[t] + 1)
    ELSE /\ node' = [node EXCEPT ![t] = @ + 1]
         /\ pc' = [pc EXCEPT ![t] = "node"] /\ UNCHANGED then
Computed(t) ==
    /\ pc[t] = "computed"
    /\ \/ UNCHANGED <<abort, aborted>>
       \/ /\ MayAbort /\ t = 0
          /\ abort' = node[t] + 1 /\ aborted' = TRUE
    /\ Met(t)
    /\ UNCHANGED <<cgraph, n_graph, n_barrier, n_passed, chunk, stop, pause,
                   nth, mine, seen, last, pending, part, did>>

\* The barrier: read n_barrier_passed, add to n_barrier; the last one resets
\* n_barrier before it lets the others pass.
Enter(t) ==
    /\ Go(t, "enter", "add")
    /\ seen' = [seen EXCEPT ![t] = n_passed]
    /\ UNCHANGED <<shared, then, node, nth, mine, last, pending, part, did>>

LastInEarly == n_barrier >= n_graph.threads - 2   \* mutant: one thread early
LastIn == n_barrier = n_graph.threads - 1
Add(t) ==
    /\ pc[t] = "add"
    /\ n_barrier' = n_barrier + 1
    /\ pc' = [pc EXCEPT ![t] = IF LastIn THEN "reset" ELSE "spin"]
    /\ UNCHANGED <<cgraph, n_graph, n_passed, chunk, stop, pause, abort, aborted, local, part, did>>

Reset(t) ==
    /\ Go(t, "reset", "pass")
    /\ n_barrier' = 0
    /\ UNCHANGED <<cgraph, n_graph, n_passed, chunk, stop, pause, abort, aborted, local, part, did>>

Pass(t) ==
    /\ Go(t, "pass", then[t])
    /\ n_passed' = n_passed + 1 /\ seen' = [seen EXCEPT ![t] = 0]
    /\ UNCHANGED <<cgraph, n_graph, n_barrier, chunk, stop, pause, abort, aborted,
                   then, node, nth, mine, last, pending, part, did>>

Spin(t) ==
    /\ n_passed # seen[t]
    /\ Go(t, "spin", then[t])
    /\ seen' = [seen EXCEPT ![t] = 0]
    /\ UNCHANGED <<shared, then, node, nth, mine, last, pending, part, did>>

\* The thread's locals go out of scope.
Done(t) ==
    /\ Go(t, "done", IF t = 0 THEN "idle" ELSE "top")
    /\ node' = [node EXCEPT ![t] = 0] /\ nth' = [nth EXCEPT ![t] = 0]
    /\ mine' = [mine EXCEPT ![t] = 0]
    /\ UNCHANGED <<shared, then, seen, last, pending, part, did>>

ComputeStep(t) ==
    \/ Begin(t) \/ Loop(t) \/ Op(t) \/ Convert(t) \/ Chunk(t) \/ Claim(t) \/ Computed(t)
    \/ Enter(t) \/ Add(t) \/ Reset(t) \/ Pass(t) \/ Spin(t) \/ Done(t)
WorkerStep(t) == Top(t) \/ Pausing(t) \/ CheckStop(t) \/ Poll(t) \/ CheckLocked(t)

Caller == \/ \E g \in Graphs : Start(g)
          \/ Pause \/ Resume \/ Free
Main == Join \/ \E threads \in 1 .. N + 1 : Kickoff(threads)

Next ==
    \/ Caller \/ Main
    \/ \E t \in Threads : ComputeStep(t)
    \/ \E t \in Workers : WorkerStep(t)

Spec == Init /\ [][Next]_vars

\* The operating system runs every thread; the caller need not call again.
FairSpec ==
    /\ Spec
    /\ WF_vars(Main)
    /\ \A t \in Threads : WF_vars(ComputeStep(t))
    /\ \A t \in Workers : WF_vars(WorkerStep(t))

-----------------------------------------------------------------------------
(***************************************************************************)
(* Properties.                                                             *)
(***************************************************************************)

Computing == {"begin", "node", "op", "mul", "chunks", "claim", "computed", "enter", "add", "reset", "pass", "spin", "done"}
Outside == {"idle", "kick", "join", "freed"}
Between == {"top", "pausing", "paused", "stop?", "exited", "poll", "locked", "waiting"}
TypeOK ==
    /\ cgraph \in Graphs \cup {<<>>}
    /\ n_graph \in [count : 0 .. MaxGraphs, threads : 0 .. N]
    /\ n_barrier \in 0 .. N /\ {n_passed, chunk} \subseteq Nat
    /\ {stop, pause, aborted} \subseteq BOOLEAN /\ abort \in -1 .. Len(cgraph)
    /\ pc \in [Threads -> Computing \cup Outside \cup Between]
    /\ then \in [Threads -> {"node", "chunks", "done"}]
    /\ node \in [Threads -> Nat]
    /\ nth \in [Threads -> 0 .. N]
    /\ mine \in [Threads -> Nat] /\ seen \in [Threads -> Nat] /\ part \in [Threads -> Nat]
    /\ last \in [Threads -> [count : 0 .. MaxGraphs, threads : 0 .. N]]
    /\ pending \in [Threads -> BOOLEAN]
    /\ did \subseteq Nat \X Nat

\* ggml_graph_compute: "No worker threads should be accessing the parameters
\* below at this stage".  While thread 0 is between graphs, a worker is at most
\* on its way out of the last barrier, and no thread is counted in it.
Quiet ==
    /\ TypeOK
    /\ pc[0] \in Outside =>
        /\ n_barrier = 0
        /\ \A t \in Workers :
            /\ ~pending[t]
            /\ pc[t] \in Computing => then[t] = "done" /\
                  (pc[t] = "done" \/ (pc[t] = "spin" /\ n_passed # seen[t]))

\* The pieces of node n, of the graph's kind of node.
Share(n) == IF cgraph[n + 1].kind = "op" THEN n_graph.threads ELSE NumChunks(n, n_graph.threads)
Pieces(n) == IF cgraph[n + 1].kind = "nop" THEN {} ELSE {n} \X (0 .. Share(n) - 1)
Before(n) == UNION {Pieces(m) : m \in 0 .. n - 1}

\* mul_mat, graph_compute_thread: no chunk is computed twice or skipped, however
\* the claims interleave; a thread starts a node when all before it is computed
\* and reads the work buffer when all of it is this node's; and when the graph
\* returns, everything is computed, or everything up to where it was aborted.
Working(t) == pc[t] \in {"op", "mul", "chunks", "claim"}
NodesInOrder ==
    /\ \A t \in Threads : Working(t) => Before(node[t]) \subseteq did
    /\ \A t \in Threads : pc[t] \in {"chunks", "claim"} =>
        \A u \in 0 .. nth[t] - 1 : part[u] = node[t] + 1
    /\ \A t \in Threads : pc[t] = "chunks" /\ mine[t] < NumChunks(node[t], nth[t]) =>
        /\ <<node[t], mine[t]>> \notin did
        /\ \A u \in Threads \ {t} : pc[u] = "chunks" => mine[u] # mine[t]
    /\ pc[0] = "done" =>
        \E n \in 0 .. Len(cgraph) : did = Before(n) /\ (aborted \/ n = Len(cgraph))

\* A graph that is started returns, whatever the workers slept or polled through
\* before, and a pool that is freed gets all its workers back.
EveryGraphReturns ==
    /\ pc[0] = "kick" ~> pc[0] = "idle"
    /\ pc[0] = "join" ~> pc[0] = "freed"
=============================================================================
