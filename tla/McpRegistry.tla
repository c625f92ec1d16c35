------------------------------ MODULE McpRegistry ------------------------------
(***************************************************************************)
(* Which tools the orchestrator knows and where a tool name leads:         *)
(* MCPOrchestrator (mcp_orchestrator.py) discovers the tools of each       *)
(* server, ToolRegistry (tool_registry.py) names and routes them.  The     *)
(* startup of api.py fills the registry and refuses to come up without the *)
(* required tools; POST /tools/refresh empties and refills it, outside the *)
(* request lock, while agent runs read it between their own awaits.        *)
(*                                                                         *)
(* A coroutine runs until it awaits.  "running" names the task that has    *)
(* begun a stretch of code without an await and has not reached its end.   *)
(***************************************************************************)
EXTENDS Integers, Sequences, FiniteSets, SequencesExt

CONSTANTS
    Order,         \* names of the configured servers, in order
    Local,         \* those whose command loads a module in this process
    NativeTools,   \* what the MCP object of a local server lists
    ManualTools,   \* what introspection of its module finds
    RequiredServer, RequiredTools,
    MaxAttempts,   \* STARTUP_MAX_ATTEMPTS
    Startup,       \* the task of the startup handler
    Refreshes,     \* tasks of POST /tools/refresh
    Runs,          \* agent runs that use the registry
    None           \* no task, no server, no route, no file

Server == ToSet(Order)
Tool == UNION {NativeTools[s] \cup ManualTools[s] : s \in Local} \cup RequiredTools
Task == Refreshes \cup {Startup}
Route == Server \X Tool

\* A plain name is <<None, tool>>, a namespaced one <<server, tool>>.
Name == (Server \cup {None}) \X Tool
Plain(t) == <<None, t>>

\* Anything a discovery of s may answer: the listing, or introspection, which
\* keeps what was converted of a listing that failed half way.
Answers(s) == {NativeTools[s]} \cup {ManualTools[s] \cup part : part \in SUBSET NativeTools[s]}

ASSUME ServersAssumption ==
    /\ Order \in Seq(Server) /\ IsInjective(Order) /\ Order # <<>>
    /\ Local \subseteq Server /\ None \notin Server
ASSUME RequiredAssumption ==   \* the listing and the names introspection knows
    /\ RequiredServer \in Local
    /\ RequiredTools \subseteq NativeTools[RequiredServer] \cap ManualTools[RequiredServer]
ASSUME TasksAssumption == Startup \notin Refreshes /\ None \notin Task /\ MaxAttempts \in Nat \ {0}

VARIABLES
    phase,     \* "starting", "up", or "down": startup raised
    configs,   \* _server_configs
    servers,   \* _servers, all "initialized"
    attempts,  \* of the server being initialised
    failed,    \* mcp_init_errors
    memory,    \* _tool_discovery_cache: entries young enough to be used
    disk,      \* the cache file if it is young enough and readable
    routes,    \* _tools and _tool_routes: name -> server and tool
    pc, at,    \* of each task: what it does, and the index of its server
    force,     \* force_refresh of each task
    running,   \* the task that has not reached an await
    shown      \* to each run: the tools of its current turn, by name

caches == <<memory, disk>>
boot == <<phase, configs, servers, attempts, failed>>
tasks == <<pc, at, force, running>>
vars == <<boot, caches, routes, tasks, shown>>

Files == UNION {{[owner |-> s, tools |-> ts] : ts \in Answers(s)} : s \in Local}

Init ==
    /\ phase = "starting" /\ configs = {} /\ servers = {} /\ attempts = 0 /\ failed = {}
    /\ memory = <<>>
    /\ disk \in Files \cup {None}      \* an earlier process wrote it
    /\ routes = <<>>
    /\ pc = [k \in Task |-> IF k = Startup THEN "init" ELSE "idle"]
    /\ at = [k \in Task |-> 1]
    /\ force = [k \in Task |-> TRUE]
    /\ running = None
    /\ shown = [r \in Runs |-> <<>>]

-----------------------------------------------------------------------------
(* ToolRegistry.                                                           *)

RegisterReplacing(s, ts, rs) ==   \* mutant: forgets the other servers
    [n \in {s} \X ts |-> n] @@ [n \in {None} \X ts |-> <<s, n[2]>>]

\* register_tools_from_mcp_discovery: namespaced names always, a plain name
\* only if nobody has it.
Register(s, ts, rs) ==
    [n \in ({s} \X ts) \cup DOMAIN rs \cup ({None} \X ts) |->
        IF n \in {s} \X ts THEN n ELSE IF n \in DOMAIN rs THEN rs[n] ELSE <<s, n[2]>>]

ResolvePlainFirst(n) ==   \* mutant: the part after the dot is looked up
    IF Plain(n[2]) \in DOMAIN routes THEN routes[Plain(n[2])] ELSE None

\* resolve_tool_call; None stands for the ValueError.
Resolve(n) ==
    IF n \in DOMAIN routes THEN routes[n]
    ELSE IF n[1] \in {p[1] : p \in Range(routes)} THEN n ELSE None

ToolListPerName ==   \* mutant: deduplicates by the tool's own name
    [n \in {m \in DOMAIN routes : m[1] = None} |-> routes[n]]

\* to_openai_format: each tool of each server once, under its shortest name.
ToolList ==
    [n \in {m \in DOMAIN routes : \A l \in DOMAIN routes :
              routes[l] = routes[m] => l = m \/ l[1] # None} |-> routes[n]]

Ready ==
    /\ RequiredServer \in servers
    /\ \A t \in RequiredTools : Plain(t) \in DOMAIN routes

-----------------------------------------------------------------------------
(* discover_tools, shared by the startup handler and by refreshes.         *)

At(k) == Order[at[k]]

\* The task may run: it is in the middle of its stretch, or it was resumed.
Scheduled(k) == running \in {None, k}

\* The tools ts of k's server are registered and the next server is begun;
\* after the last one a refresh returns and the startup handler decides.
FinishWith(k, ts) ==
    /\ routes' = Register(At(k), ts, routes)
    /\ at' = [at EXCEPT ![k] = IF @ < Len(Order) THEN @ + 1 ELSE 1]
    /\ IF k = Startup
       THEN /\ pc' = [pc EXCEPT ![k] = IF at[k] < Len(Order) THEN "init" ELSE "decide"]
            /\ running' = None
       ELSE /\ pc' = [pc EXCEPT ![k] = IF at[k] < Len(Order) THEN "discover" ELSE "idle"]
            /\ running' = IF at[k] < Len(Order) THEN k ELSE None
    /\ UNCHANGED force

\* A young cache entry is used unless the caller forces a refresh.
FromMemory(k) ==
    /\ pc[k] = "discover" /\ Scheduled(k)
    /\ ~force[k] /\ At(k) \in DOMAIN memory
    /\ FinishWith(k, memory[At(k)])
    /\ UNCHANGED <<boot, caches, shown>>

Remember(s, ts) == memory' = [x \in DOMAIN memory \cup {s} |-> IF x = s THEN ts ELSE memory[x]]

\* A server that is not loaded in this process has no tools yet.
MetadataOnly(k) ==
    /\ pc[k] = "discover" /\ Scheduled(k)
    /\ force[k] \/ At(k) \notin DOMAIN memory
    /\ At(k) \notin Local
    /\ Remember(At(k), {})
    /\ FinishWith(k, {})
    /\ UNCHANGED <<boot, disk, shown>>

\* await get_tools() or list_tools(): other tasks may run.
AskServer(k) ==
    /\ pc[k] = "discover" /\ Scheduled(k)
    /\ force[k] \/ At(k) \notin DOMAIN memory
    /\ At(k) \in Local
    /\ pc' = [pc EXCEPT ![k] = "waiting"]
    /\ running' = None
    /\ UNCHANGED <<boot, caches, routes, at, force, shown>>

\* _save_disk_tool_cache: one file for all servers; a failed write is only
\* logged and may leave the old file or a torn one.
SaveToDisk(s, ts) == disk' \in {[owner |-> s, tools |-> ts], disk, None}

\* The server lists its tools.
ListingReturns(k) ==
    /\ pc[k] = "waiting" /\ running = None
    /\ NativeTools[At(k)] # {}
    /\ Remember(At(k), NativeTools[At(k)])
    /\ SaveToDisk(At(k), NativeTools[At(k)])
    /\ FinishWith(k, NativeTools[At(k)])
    /\ UNCHANGED <<boot, shown>>

LoadFromDiskAnybody(s) ==   \* mutant: the file is not asked whose it is
    IF disk # None THEN disk.tools ELSE {}

\* _load_disk_tool_cache: only this server's tools.
LoadFromDisk(s) ==
    IF disk # None /\ disk.owner = s THEN disk.tools ELSE {}

\* The listing times out and the file on disk answers.
ListingTimesOut(k) ==
    /\ pc[k] = "waiting" /\ running = None
    /\ LoadFromDisk(At(k)) # {}
    /\ Remember(At(k), LoadFromDisk(At(k)))
    /\ FinishWith(k, LoadFromDisk(At(k)))
    /\ UNCHANGED <<boot, disk, shown>>

\* The listing raises, is empty, or times out with no use of the file: what
\* introspection finds is added to what was converted before.
ListingFails(k) ==
    /\ pc[k] = "waiting" /\ running = None
    /\ \E part \in SUBSET NativeTools[At(k)] :
          LET ts == ManualTools[At(k)] \cup part
          IN  /\ Remember(At(k), ts)
              /\ IF ts # {} THEN SaveToDisk(At(k), ts) ELSE UNCHANGED disk
              /\ FinishWith(k, ts)
    /\ UNCHANGED <<boot, shown>>

\* DISCOVERY_CACHE_TTL_SECONDS pass, or those of the file.
EntryAges(s) ==
    /\ s \in DOMAIN memory
    /\ memory' = Restrict(memory, DOMAIN memory \ {s})
    /\ UNCHANGED <<boot, disk, routes, tasks, shown>>

FileAges ==
    /\ disk # None
    /\ disk' = None
    /\ UNCHANGED <<boot, memory, routes, tasks, shown>>

-----------------------------------------------------------------------------
(* The startup handler.                                                    *)

\* initialize_server: a local server's module is loaded, of any other only
\* the metadata is kept.
ServerStarts ==
    /\ pc[Startup] = "init"
    /\ configs' = configs \cup {At(Startup)}
    /\ servers' = servers \cup {At(Startup)}
    /\ attempts' = 0
    /\ pc' = [pc EXCEPT ![Startup] = "discover"]
    /\ UNCHANGED <<phase, failed, caches, routes, at, force, running, shown>>

NextServer ==
    /\ at' = [at EXCEPT ![Startup] = IF @ < Len(Order) THEN @ + 1 ELSE 1]
    /\ pc' = [pc EXCEPT ![Startup] = IF at[Startup] < Len(Order) THEN "init" ELSE "decide"]

RetryLeftOffByOne == attempts < MaxAttempts   \* mutant

RetryLeft == attempts + 1 < MaxAttempts

\* Loading the module raises: tried again after a pause if that may help.
ServerFails ==
    /\ pc[Startup] = "init" /\ At(Startup) \in Local
    /\ configs' = configs \cup {At(Startup)}
    /\ \/ /\ RetryLeft
          /\ attempts' = attempts + 1
          /\ UNCHANGED <<failed, pc, at>>
       \/ /\ attempts' = 0
          /\ failed' = failed \cup {At(Startup)}
          /\ NextServer
    /\ UNCHANGED <<phase, servers, caches, routes, force, running, shown>>

MayComeUpIfReady == Ready   \* mutant: only the required server counts

MayComeUp == failed = {} /\ Ready

Decide ==
    /\ pc[Startup] = "decide"
    /\ pc' = [pc EXCEPT ![Startup] = "idle"]
    /\ phase' = IF MayComeUp THEN "up" ELSE "down"
    /\ UNCHANGED <<configs, servers, attempts, failed, caches, routes, at, force, running, shown>>

-----------------------------------------------------------------------------
(* POST /tools/refresh.                                                    *)

StartRefresh(k, clear, forced) ==
    /\ phase = "up" /\ running = None /\ pc[k] = "idle"
    /\ routes' = <<>>
    /\ memory' = IF clear THEN <<>> ELSE memory
    /\ force' = [force EXCEPT ![k] = forced]
    /\ pc' = [pc EXCEPT ![k] = "discover"]
    /\ running' = k
    /\ UNCHANGED <<boot, disk, at, shown>>

-----------------------------------------------------------------------------
(* Agent runs.  A tool call resolves its name in the registry of that      *)
(* moment, which changes nothing.                                          *)

\* A turn begins: the model is told the tools.
Show(r) ==
    /\ phase = "up" /\ running = None
    /\ shown' = [shown EXCEPT ![r] = ToolList]
    /\ UNCHANGED <<boot, caches, routes, tasks>>

Next ==
    \/ ServerStarts \/ ServerFails \/ Decide
    \/ \E k \in Task : \/ FromMemory(k) \/ MetadataOnly(k) \/ AskServer(k)
                       \/ ListingReturns(k) \/ ListingTimesOut(k) \/ ListingFails(k)
    \/ \E k \in Refreshes, clear, forced \in BOOLEAN : StartRefresh(k, clear, forced)
    \/ \E s \in Server : EntryAges(s)
    \/ FileAges
    \/ \E r \in Runs : Show(r)

Spec == Init /\ [][Next]_vars

-----------------------------------------------------------------------------
(* Properties.                                                             *)

TypeOK ==
    /\ phase \in {"starting", "up", "down"}
    /\ configs \subseteq Server /\ servers \subseteq configs /\ failed \subseteq configs
    /\ attempts \in 0 .. MaxAttempts - 1
    /\ DOMAIN memory \subseteq Server /\ \A s \in DOMAIN memory : memory[s] \subseteq Tool
    /\ disk = None \/ disk \in [owner : Local, tools : SUBSET Tool]
    /\ DOMAIN routes \subseteq Name /\ Range(routes) \subseteq Route
    /\ pc \in [Task -> {"idle", "init", "discover", "waiting", "decide"}]
    /\ at \in [Task -> 1 .. Len(Order)]
    /\ force \in [Task -> BOOLEAN]
    /\ running \in Refreshes \cup {None}
    /\ DOMAIN shown = Runs
    /\ \A r \in Runs : DOMAIN shown[r] \subseteq Name /\ Range(shown[r]) \subseteq Route

Offers(s) == IF s \in Local THEN NativeTools[s] \cup ManualTools[s] ELSE {}

\* Once the startup handler has let the system come up, every configured
\* server is initialised: reconnect_server answers "already_initialized", its
\* backoff never runs, and _servers does not change under the loop of
\* refresh_tools, which awaits while it iterates over it.
NothingToReconnect == phase = "up" => servers = configs /\ configs = Server

\* A server's name stands only for tools of its own module, whatever timed
\* out, raised half way or came from a file another server has written.
OwnTools == \A p \in Range(routes) : p[2] \in Offers(p[1])

\* A model is shown every registered tool of every server, once, by a name
\* that leads to it.
ShownOnce ==
    LET offered == ToolList
    IN  /\ \A n \in DOMAIN offered : Resolve(n) = offered[n]
        /\ \A p \in Range(routes) : \E n \in DOMAIN offered :
              offered[n] = p /\ \A m \in DOMAIN offered : offered[m] = p => m = n

\* Overlapping refreshes clear the registry under each other, but when none is
\* left every tool that both ways of discovery find is registered, and the
\* system is ready.
CompleteWhenQuiet ==
    (phase = "up" /\ \A k \in Refreshes : pc[k] = "idle")
       => /\ Ready
          /\ \A s \in Local : \A t \in NativeTools[s] \cap ManualTools[s] :
                <<s, t>> \in DOMAIN routes /\ Plain(t) \in DOMAIN routes

\* A run may call, at every await, a tool by a name its turn was shown, while
\* refreshes change the registry.  Such a call is refused or reaches the tool
\* that was shown; only the plain name of a tool that two servers offer may
\* lead to the other one.
CallsReachWhatWasShown ==
    running = None =>
       \A r \in Runs : \A n \in DOMAIN shown[r] :
          LET want == shown[r][n]
              got == Resolve(n)
          IN  got \notin {None, want}
                 => /\ n[1] = None /\ got[2] = want[2]
                    /\ \E s \in Server \ {want[1]} : want[2] \in Offers(s)

\* What is up is complete: every server, and between refreshes every tool.
Complete == NothingToReconnect /\ CompleteWhenQuiet

\* Names are faithful when they are shown and when they are used.
NamesAreFaithful == ShownOnce /\ CallsReachWhatWasShown

\* "Register plain alias only when unique" (tool_registry.py:96).
PlainOnlyWhenUnique ==
    \A s1, s2 \in Server, t \in Tool :
       {<<s1, t>>, <<s2, t>>} \subseteq DOMAIN routes /\ Plain(t) \in DOMAIN routes => s1 = s2
=============================================================================
