--------------------------- MODULE McpRegistryProofs ---------------------------
(***************************************************************************)
(* The tool registry, for any servers, tools, refreshes and agent runs.    *)
(*                                                                         *)
(* Three things are kept by every step: the routes have the shape that     *)
(* registration gives them (RoutesWellFormed); every list of tools that    *)
(* the discovery remembers, in memory or on disk, lies between what both   *)
(* ways of discovery find and what either finds (Remembered); and a server *)
(* whose tools are missing from the registry lies ahead of a task that is  *)
(* still on its way through the servers, or could not be started           *)
(* (MissingIsAhead).                                                       *)
(***************************************************************************)
EXTENDS McpRegistry, TLAPS

\* What both ways of discovery find of a local server.
Certain(s) == IF s \in Local THEN NativeTools[s] \cap ManualTools[s] ELSE {}
Between(s, ts) == Certain(s) \subseteq ts /\ ts \subseteq Offers(s)

\* A namespaced name leads to itself; a plain one to a tool of that name that
\* is also registered under its namespaced name, which in turn has a plain one.
RoutesWellFormed(rs) ==
    /\ DOMAIN rs \subseteq Name
    /\ \A n \in DOMAIN rs :
          /\ n[1] # None => rs[n] = n /\ Plain(n[2]) \in DOMAIN rs
          /\ n[1] = None => rs[n] \in DOMAIN rs /\ rs[n][1] # None /\ rs[n][2] = n[2]
          /\ rs[n][2] \in Offers(rs[n][1])

Remembered ==
    /\ \A s \in DOMAIN memory : Between(s, memory[s])
    /\ disk # None => disk.owner \in Local /\ Between(disk.owner, disk.tools)

\* What a run was shown under a name is a tool of that name, of that server if
\* the name has one.
ShownByName ==
    \A r \in Runs : \A n \in DOMAIN shown[r] :
        /\ n[1] # None => shown[r][n] = n
        /\ n[1] = None => shown[r][n][2] = n[2]

\* The startup handler has dealt with server i; what may be said of it then.
Passed(i) == pc[Startup] \in {"decide", "idle"} \/ i < at[Startup]
StartupInOrder ==
    /\ pc[Startup] = "idle" <=> phase # "starting"
    /\ \A i \in 1 .. Len(Order) : Passed(i) => Order[i] \in configs /\ Order[i] \in servers \cup failed
    /\ pc[Startup] \in {"discover", "waiting"} => At(Startup) \in servers
    /\ phase = "up" => failed = {}

\* Refreshes run only once the system is up, and each begins at the first server.
RefreshesInOrder ==
    /\ \A k \in Task : pc[k] = "waiting" => At(k) \in Local
    /\ \A k \in Refreshes : /\ pc[k] \in {"idle", "discover", "waiting"}
                            /\ pc[k] = "idle" => at[k] = 1
                            /\ pc[k] # "idle" => phase = "up"

OnItsWay(k) == pc[k] \in {"init", "discover", "waiting"}
Registered(s) == \A t \in Certain(s) : <<s, t>> \in DOMAIN routes
MissingIsAhead ==
    \A i \in 1 .. Len(Order) :
        \/ Registered(Order[i]) \/ Order[i] \in failed
        \/ \E k \in Task : OnItsWay(k) /\ at[k] <= i

IInv ==
    /\ TypeOK /\ RoutesWellFormed(routes) /\ Remembered /\ ShownByName
    /\ StartupInOrder /\ RefreshesInOrder /\ MissingIsAhead

-----------------------------------------------------------------------------
(* Registration.                                                           *)

\* Registering tools that the server offers keeps the shape of the routes and
\* every name they have, and gives each tool both its names.
LEMMA RegisterKeeps ==
    ASSUME NEW s \in Server, NEW ts, ts \subseteq Tool, ts \subseteq Offers(s),
           NEW rs, RoutesWellFormed(rs)
    PROVE  /\ RoutesWellFormed(Register(s, ts, rs))
           /\ DOMAIN rs \subseteq DOMAIN Register(s, ts, rs)
           /\ \A t \in ts : <<s, t>> \in DOMAIN Register(s, ts, rs)
<1>0. s # None
  BY ServersAssumption
<1>more. PICK more : more = Register(s, ts, rs)
  OBVIOUS
<1>1. /\ DOMAIN more = ({s} \X ts) \cup DOMAIN rs \cup ({None} \X ts)
      /\ \A n \in {s} \X ts : more[n] = n
      /\ \A n \in DOMAIN rs : n \notin {s} \X ts => more[n] = rs[n]
      /\ \A n \in {None} \X ts : n \notin {s} \X ts /\ n \notin DOMAIN rs => more[n] = <<s, n[2]>>
  BY <1>more DEF Register
<1>2. DOMAIN more \subseteq Name
  BY <1>1 DEF RoutesWellFormed, Name
<1>3. ASSUME NEW n \in {s} \X ts
      PROVE  /\ n[1] # None /\ more[n] = n /\ Plain(n[2]) \in DOMAIN more
             /\ more[n][2] \in Offers(more[n][1])
  BY <1>0, <1>1 DEF Plain
<1>4. ASSUME NEW n \in DOMAIN rs, n \notin {s} \X ts
      PROVE  /\ n[1] # None => more[n] = n /\ Plain(n[2]) \in DOMAIN more
             /\ n[1] = None => more[n] \in DOMAIN more /\ more[n][1] # None /\ more[n][2] = n[2]
             /\ more[n][2] \in Offers(more[n][1])
  BY <1>1, <1>4 DEF RoutesWellFormed
<1>5. ASSUME NEW n \in {None} \X ts, n \notin {s} \X ts, n \notin DOMAIN rs
      PROVE  /\ n[1] = None /\ more[n] \in DOMAIN more /\ more[n][1] # None /\ more[n][2] = n[2]
             /\ more[n][2] \in Offers(more[n][1])
  <2>1. more[n] = <<s, n[2]>> /\ n[2] \in ts /\ n[1] = None
    BY <1>1, <1>5
  <2>2. QED
    BY <1>0, <1>1, <2>1
<1>6. RoutesWellFormed(more)
  BY <1>1, <1>2, <1>3, <1>4, <1>5 DEF RoutesWellFormed
<1>7. QED
  BY <1>more, <1>1, <1>6

-----------------------------------------------------------------------------
(* The inductive invariant.                                                *)

LEMMA Constants ==
    /\ Len(Order) \in Nat \ {0} /\ \A i \in 1 .. Len(Order) : Order[i] \in Server
    /\ \A s \in Server : \E i \in 1 .. Len(Order) : Order[i] = s
    /\ None \notin Server /\ Local \subseteq Server /\ Startup \notin Refreshes /\ MaxAttempts \in Nat \ {0}
<1>1. Order \in Seq(Server) /\ Order # <<>>
  BY ServersAssumption
<1>2. Len(Order) \in Nat \ {0} /\ \A i \in 1 .. Len(Order) : Order[i] \in Server
  BY <1>1
<1>3. \A s \in Server : \E i \in 1 .. Len(Order) : Order[i] = s
  BY <1>1 DEF Server, ToSet
<1>4. QED
  BY <1>2, <1>3, ServersAssumption, TasksAssumption

LEMMA OfferedTools == \A s \in Server : Offers(s) \subseteq Tool
BY DEF Offers, Tool

LEMMA AnswersBetween == \A s \in Local : \A ts \in Answers(s) : Between(s, ts)
BY DEF Answers, Between, Certain, Offers

LEMMA InitIInv == Init => IInv
<1> SUFFICES ASSUME Init PROVE IInv
  OBVIOUS
<1> USE Constants
<1>1. disk = None \/ (disk \in [owner : Local, tools : SUBSET Tool] /\ Between(disk.owner, disk.tools))
  <2>1. ASSUME NEW s \in Local, NEW ts \in Answers(s), disk = [owner |-> s, tools |-> ts]
        PROVE  disk \in [owner : Local, tools : SUBSET Tool] /\ Between(disk.owner, disk.tools)
    <3>1. Between(s, ts) /\ ts \subseteq Tool
      BY AnswersBetween, OfferedTools DEF Between
    <3>2. QED
      BY <2>1, <3>1
  <2>2. QED
    BY <2>1 DEF Init, Files
<1>2. TypeOK
  <2>1. DOMAIN routes = {} /\ DOMAIN memory = {} /\ \A r \in Runs : DOMAIN shown[r] = {}
    BY DEF Init
  <2>2. Range(routes) = {} /\ \A r \in Runs : Range(shown[r]) = {}
    BY <2>1 DEF Range
  <2>3. QED
    BY <1>1, <2>1, <2>2 DEF Init, TypeOK
<1>3. RoutesWellFormed(routes) /\ Remembered /\ ShownByName
  BY <1>1 DEF Init, RoutesWellFormed, Remembered, ShownByName
<1>4. StartupInOrder /\ RefreshesInOrder /\ MissingIsAhead
  BY DEF Init, StartupInOrder, RefreshesInOrder, MissingIsAhead, Passed, OnItsWay, Task
<1>5. QED
  BY <1>2, <1>3, <1>4 DEF IInv

LEMMA Facts ==
    ASSUME IInv
    PROVE  /\ pc \in [Task -> {"idle", "init", "discover", "waiting", "decide"}]
           /\ at \in [Task -> 1 .. Len(Order)] /\ Startup \in Task /\ Refreshes \subseteq Task
           /\ \A k \in Task : At(k) \in Server
BY Constants DEF IInv, TypeOK, At, Task

Finishes(k) == FromMemory(k) \/ MetadataOnly(k) \/ ListingReturns(k) \/ ListingTimesOut(k) \/ ListingFails(k)

\* Whichever way a server's tools are found, they are its own and include all
\* that both ways find.
LEMMA FoundTools ==
    ASSUME IInv, NEW k \in Task, Finishes(k)
    PROVE  \E ts \in SUBSET Tool :
              /\ Between(At(k), ts) /\ FinishWith(k, ts) /\ pc[k] \in {"discover", "waiting"}
              /\ memory' = memory \/ Remember(At(k), ts)
              /\ disk' = disk \/ (At(k) \in Local /\ SaveToDisk(At(k), ts))
              /\ UNCHANGED <<boot, shown>>
<1> DEFINE s == At(k)
<1>1. s \in Server /\ (pc[k] = "waiting" => s \in Local)
  BY Facts DEF IInv, RefreshesInOrder
<1>2. ASSUME NEW ts, Between(s, ts) PROVE ts \in SUBSET Tool
  BY <1>1, <1>2, OfferedTools DEF Between
<1>3. CASE FromMemory(k)
  <2>1. Between(s, memory[s]) /\ FinishWith(k, memory[s])
    BY <1>3 DEF FromMemory, IInv, Remembered
  <2>2. memory[s] \in SUBSET Tool
    BY <1>2, <2>1
  <2>3. QED
    BY <1>3, <2>1, <2>2 DEF FromMemory, caches
<1>4. CASE MetadataOnly(k)
  <2>1. Between(s, {})
    BY <1>4 DEF MetadataOnly, Between, Certain
  <2>2. QED
    BY <1>4, <2>1 DEF MetadataOnly
<1>5. CASE ListingReturns(k)
  <2>1. Between(s, NativeTools[s])
    BY <1>1, <1>5 DEF ListingReturns, Between, Certain, Offers
  <2>2. NativeTools[s] \in SUBSET Tool
    BY <1>2, <2>1
  <2>3. QED
    BY <1>1, <1>5, <2>1, <2>2 DEF ListingReturns
<1>6. CASE ListingTimesOut(k)
  <2>1. LoadFromDisk(s) = disk.tools /\ disk # None /\ disk.owner = s
    BY <1>6 DEF ListingTimesOut, LoadFromDisk
  <2>2. Between(s, LoadFromDisk(s))
    BY <2>1 DEF IInv, Remembered
  <2>3. LoadFromDisk(s) \in SUBSET Tool
    BY <1>2, <2>2
  <2>4. QED
    BY <1>6, <2>2, <2>3 DEF ListingTimesOut
<1>7. CASE ListingFails(k)
  <2>1. PICK part \in SUBSET NativeTools[s] :
           LET ts == ManualTools[s] \cup part
           IN  /\ Remember(s, ts)
               /\ IF ts # {} THEN SaveToDisk(s, ts) ELSE UNCHANGED disk
               /\ FinishWith(k, ts)
    BY <1>7 DEF ListingFails
  <2> DEFINE ts == ManualTools[s] \cup part
  <2>2. Between(s, ts)
    BY <1>1, <1>7 DEF ListingFails, Between, Certain, Offers
  <2>3. ts \in SUBSET Tool
    <3> HIDE DEF ts
    <3>1. QED
      BY <1>2, <2>2
  <2>4. QED
    BY <1>1, <1>7, <2>1, <2>2, <2>3 DEF ListingFails
<1>8. QED
  BY <1>3, <1>4, <1>5, <1>6, <1>7 DEF Finishes

\* What a task's own step may be, as far as the servers and the routes go.
LEMMA StepKinds ==
    ASSUME IInv, [Next]_vars
    PROVE  \/ UNCHANGED vars
           \/ \E k \in Task : Finishes(k)
           \/ ServerStarts \/ ServerFails \/ Decide
           \/ \E k \in Task : AskServer(k)
           \/ \E k \in Refreshes, clear, forced \in BOOLEAN : StartRefresh(k, clear, forced)
           \/ (\E s \in Server : EntryAges(s)) \/ FileAges \/ (\E r \in Runs : Show(r))
BY DEF Next, Finishes

\* The routes are only ever registered to, or cleared.
LEMMA NextRoutes ==
    ASSUME IInv, [Next]_vars
    PROVE  RoutesWellFormed(routes')
<1>1. RoutesWellFormed(routes)
  BY DEF IInv
<1>2. ASSUME NEW k \in Task, Finishes(k) PROVE RoutesWellFormed(routes')
  <2>1. PICK ts \in SUBSET Tool : Between(At(k), ts) /\ FinishWith(k, ts)
    BY <1>2, FoundTools
  <2>2. At(k) \in Server /\ ts \subseteq Tool /\ ts \subseteq Offers(At(k))
    BY <2>1, Facts DEF Between
  <2>3. RoutesWellFormed(Register(At(k), ts, routes))
    BY <1>1, <2>2, RegisterKeeps
  <2>4. QED
    BY <2>1, <2>3 DEF FinishWith
<1>3. ASSUME NEW k \in Refreshes, NEW clear, NEW forced, StartRefresh(k, clear, forced)
      PROVE  RoutesWellFormed(routes')
  BY <1>3 DEF StartRefresh, RoutesWellFormed
<1>4. CASE UNCHANGED routes
  BY <1>1, <1>4
<1>5. QED
  BY <1>2, <1>3, <1>4, StepKinds
  DEF ServerStarts, ServerFails, Decide, AskServer, EntryAges, FileAges, Show, vars, caches

LEMMA NextRemembered ==
    ASSUME IInv, [Next]_vars
    PROVE  /\ Remembered' /\ DOMAIN memory' \subseteq Server
           /\ \A s \in DOMAIN memory' : memory'[s] \subseteq Tool
           /\ disk' = None \/ disk' \in [owner : Local, tools : SUBSET Tool]
<1>1. /\ Remembered /\ DOMAIN memory \subseteq Server
      /\ \A s \in DOMAIN memory : memory[s] \subseteq Tool
      /\ disk = None \/ disk \in [owner : Local, tools : SUBSET Tool]
  BY DEF IInv, TypeOK
<1>2. ASSUME NEW k \in Task, Finishes(k)
      PROVE  /\ DOMAIN memory' \subseteq Server
             /\ \A s \in DOMAIN memory' : Between(s, memory'[s]) /\ memory'[s] \subseteq Tool
             /\ disk' # None => /\ disk' \in [owner : Local, tools : SUBSET Tool]
                                /\ Between(disk'.owner, disk'.tools)
  <2>1. PICK ts \in SUBSET Tool :
           /\ Between(At(k), ts)
           /\ memory' = memory \/ Remember(At(k), ts)
           /\ disk' = disk \/ (At(k) \in Local /\ SaveToDisk(At(k), ts))
    BY <1>2, FoundTools
  <2>2. At(k) \in Server
    BY Facts
  <2>3. ASSUME memory' = memory
        PROVE  /\ DOMAIN memory' \subseteq Server
               /\ \A s \in DOMAIN memory' : Between(s, memory'[s]) /\ memory'[s] \subseteq Tool
    BY <1>1, <2>3 DEF Remembered
  <2>4. ASSUME Remember(At(k), ts)
        PROVE  /\ DOMAIN memory' \subseteq Server
               /\ \A s \in DOMAIN memory' : Between(s, memory'[s]) /\ memory'[s] \subseteq Tool
    BY <1>1, <2>1, <2>2, <2>4 DEF Remember, Remembered
  <2>5. ASSUME disk' = disk, disk' # None
        PROVE  disk' \in [owner : Local, tools : SUBSET Tool] /\ Between(disk'.owner, disk'.tools)
    BY <1>1, <2>5 DEF Remembered
  <2>6. ASSUME At(k) \in Local /\ disk' = [owner |-> At(k), tools |-> ts]
        PROVE  disk' \in [owner : Local, tools : SUBSET Tool] /\ Between(disk'.owner, disk'.tools)
    BY <2>1, <2>6
  <2>7. disk' = disk \/ disk' = None \/ (At(k) \in Local /\ disk' = [owner |-> At(k), tools |-> ts])
    BY <2>1 DEF SaveToDisk
  <2>8. /\ DOMAIN memory' \subseteq Server
        /\ \A s \in DOMAIN memory' : Between(s, memory'[s]) /\ memory'[s] \subseteq Tool
    BY <2>1, <2>3, <2>4
  <2>9. disk' # None => disk' \in [owner : Local, tools : SUBSET Tool] /\ Between(disk'.owner, disk'.tools)
    BY <2>5, <2>6, <2>7
  <2>10. QED
    BY <2>8, <2>9
<1>3. ASSUME NEW k \in Task, Finishes(k)
      PROVE  /\ Remembered' /\ DOMAIN memory' \subseteq Server
             /\ \A s \in DOMAIN memory' : memory'[s] \subseteq Tool
             /\ disk' = None \/ disk' \in [owner : Local, tools : SUBSET Tool]
  BY <1>2, <1>3 DEF Remembered
<1>4. CASE /\ disk' \in {disk, None}
           /\ DOMAIN memory' \subseteq DOMAIN memory /\ \A s \in DOMAIN memory' : memory'[s] = memory[s]
  BY <1>1, <1>4 DEF Remembered
<1>5. ASSUME NEW k \in Refreshes, NEW clear, NEW forced, StartRefresh(k, clear, forced)
      PROVE  /\ disk' = disk /\ DOMAIN memory' \subseteq DOMAIN memory
             /\ \A s \in DOMAIN memory' : memory'[s] = memory[s]
  BY <1>5 DEF StartRefresh
<1>6. ASSUME NEW x \in Server, EntryAges(x)
      PROVE  /\ disk' = disk /\ DOMAIN memory' \subseteq DOMAIN memory
             /\ \A s \in DOMAIN memory' : memory'[s] = memory[s]
  BY <1>6 DEF EntryAges, Restrict
<1>7. CASE FileAges
  BY <1>1, <1>4, <1>7 DEF FileAges
<1>8. CASE UNCHANGED <<memory, disk>>
  BY <1>4, <1>8
<1>9. QED
  BY <1>3, <1>4, <1>5, <1>6, <1>7, <1>8, StepKinds
  DEF ServerStarts, ServerFails, Decide, AskServer, Show, vars, caches

\* A route leads to a namespaced name that is registered itself.
LEMMA RoutesType ==
    ASSUME NEW rs, RoutesWellFormed(rs)
    PROVE  \A n \in DOMAIN rs : rs[n] \in Route /\ rs[n] \in DOMAIN rs /\ rs[n][1] # None
<1> SUFFICES ASSUME NEW n \in DOMAIN rs
             PROVE  rs[n] \in Route /\ rs[n] \in DOMAIN rs /\ rs[n][1] # None
  OBVIOUS
<1>1. rs[n] \in DOMAIN rs /\ rs[n][1] # None
  BY DEF RoutesWellFormed
<1>2. rs[n] \in Name
  BY <1>1 DEF RoutesWellFormed
<1>3. QED
  BY <1>1, <1>2 DEF Name, Route

LEMMA NextShownByName ==
    ASSUME IInv, [Next]_vars
    PROVE  /\ ShownByName' /\ DOMAIN shown' = Runs
           /\ \A r \in Runs : DOMAIN shown'[r] \subseteq Name /\ Range(shown'[r]) \subseteq Route
<1>0. /\ ShownByName /\ RoutesWellFormed(routes) /\ DOMAIN shown = Runs
      /\ \A r \in Runs : DOMAIN shown[r] \subseteq Name /\ Range(shown[r]) \subseteq Route
  BY DEF IInv, TypeOK
<1>1. \A n \in DOMAIN ToolList : n \in DOMAIN routes /\ ToolList[n] = routes[n]
  BY DEF ToolList
<1>2. DOMAIN shown' = Runs /\ \A r \in Runs : shown'[r] = shown[r] \/ shown'[r] = ToolList
  <2>1. ASSUME NEW x \in Runs, Show(x)
        PROVE  DOMAIN shown' = Runs /\ \A r \in Runs : shown'[r] = shown[r] \/ shown'[r] = ToolList
    <3>1. shown' = [shown EXCEPT ![x] = ToolList]
      BY <2>1 DEF Show
    <3> HIDE DEF ToolList
    <3>2. QED
      BY <1>0, <3>1
  <2>2. CASE UNCHANGED shown
    BY <1>0, <2>2
  <2>3. ASSUME NEW k \in Task, Finishes(k) PROVE UNCHANGED shown
    BY <2>3, FoundTools
  <2>4. QED
    BY <2>1, <2>2, <2>3, StepKinds
    DEF ServerStarts, ServerFails, Decide, AskServer, StartRefresh, EntryAges, FileAges, vars
<1>3. ASSUME NEW r \in Runs, NEW n \in DOMAIN shown'[r]
      PROVE  /\ n \in Name /\ shown'[r][n] \in Route
             /\ n[1] # None => shown'[r][n] = n
             /\ n[1] = None => shown'[r][n][2] = n[2]
  <2>1. CASE shown'[r] = shown[r]
    BY <1>0, <2>1 DEF ShownByName, Range
  <2>2. CASE shown'[r] = ToolList
    <3>1. n \in DOMAIN routes /\ shown'[r][n] = routes[n]
      BY <1>1, <1>3, <2>2
    <3>2. QED
      BY <1>0, <3>1, RoutesType DEF RoutesWellFormed
  <2>3. QED
    BY <1>2, <2>1, <2>2
<1>4. ShownByName'
  BY <1>3 DEF ShownByName
<1>5. \A r \in Runs : DOMAIN shown'[r] \subseteq Name /\ Range(shown'[r]) \subseteq Route
  BY <1>3 DEF Range
<1>6. QED
  BY <1>2, <1>4, <1>5

\* The control of the tasks keeps its type.
LEMMA NextTasks ==
    ASSUME IInv, [Next]_vars
    PROVE  /\ pc' \in [Task -> {"idle", "init", "discover", "waiting", "decide"}]
           /\ at' \in [Task -> 1 .. Len(Order)]
           /\ force' \in [Task -> BOOLEAN]
           /\ running' \in Refreshes \cup {None}
<1> USE Constants, Facts
<1>0. force \in [Task -> BOOLEAN] /\ running \in Refreshes \cup {None}
  BY DEF IInv, TypeOK
<1>1. ASSUME NEW i \in 1 .. Len(Order)
      PROVE  (IF i < Len(Order) THEN i + 1 ELSE 1) \in 1 .. Len(Order)
  OBVIOUS
<1>2. ASSUME NEW k \in Task, at' = [at EXCEPT ![k] = IF @ < Len(Order) THEN @ + 1 ELSE 1]
      PROVE  at' \in [Task -> 1 .. Len(Order)]
  <2>1. at' = [at EXCEPT ![k] = IF at[k] < Len(Order) THEN at[k] + 1 ELSE 1]
    BY <1>2
  <2>2. (IF at[k] < Len(Order) THEN at[k] + 1 ELSE 1) \in 1 .. Len(Order)
    BY <1>1
  <2>3. QED
    BY <2>1, <2>2
<1>3. ASSUME NEW k \in Task, Finishes(k)
      PROVE  /\ pc' \in [Task -> {"idle", "init", "discover", "waiting", "decide"}]
             /\ at' \in [Task -> 1 .. Len(Order)]
             /\ force' = force /\ running' \in Refreshes \cup {None}
  <2>1. PICK ts \in SUBSET Tool : FinishWith(k, ts)
    BY <1>3, FoundTools
  <2>2. at' \in [Task -> 1 .. Len(Order)]
    BY <1>2, <2>1 DEF FinishWith
  <2>3. force' = force /\ running' \in Refreshes \cup {None}
    BY <2>1 DEF FinishWith, Task
  <2>4. pc' \in [Task -> {"idle", "init", "discover", "waiting", "decide"}]
    BY <2>1 DEF FinishWith
  <2>5. QED
    BY <2>2, <2>3, <2>4
<1>4. CASE ServerStarts
  BY <1>0, <1>4 DEF ServerStarts
<1>5. CASE ServerFails
  <2>1. at' \in [Task -> 1 .. Len(Order)]
    BY <1>2, <1>5 DEF ServerFails, NextServer
  <2>2. QED
    BY <1>0, <1>5, <2>1 DEF ServerFails, NextServer
<1>6. CASE Decide
  BY <1>0, <1>6 DEF Decide
<1>7. ASSUME NEW k \in Task, AskServer(k)
      PROVE  /\ pc' \in [Task -> {"idle", "init", "discover", "waiting", "decide"}]
             /\ at' = at /\ force' = force /\ running' = None
  BY <1>7 DEF AskServer
<1>8. ASSUME NEW k \in Refreshes, NEW clear \in BOOLEAN, NEW forced \in BOOLEAN,
             StartRefresh(k, clear, forced)
      PROVE  /\ pc' \in [Task -> {"idle", "init", "discover", "waiting", "decide"}]
             /\ at' = at /\ force' \in [Task -> BOOLEAN] /\ running' = k
  BY <1>0, <1>8 DEF StartRefresh
<1>9. CASE UNCHANGED tasks
  BY <1>0, <1>9 DEF tasks
<1>10. QED
  BY <1>0, <1>3, <1>4, <1>5, <1>6, <1>7, <1>8, <1>9, StepKinds
  DEF EntryAges, FileAges, Show, vars

LEMMA NextBoot ==
    ASSUME IInv, [Next]_vars
    PROVE  /\ phase' \in {"starting", "up", "down"}
           /\ configs' \subseteq Server /\ servers' \subseteq configs' /\ failed' \subseteq configs'
           /\ attempts' \in 0 .. MaxAttempts - 1
<1> USE Constants, Facts
<1>0. /\ phase \in {"starting", "up", "down"}
      /\ configs \subseteq Server /\ servers \subseteq configs /\ failed \subseteq configs
      /\ attempts \in 0 .. MaxAttempts - 1
  BY DEF IInv, TypeOK
<1>1. CASE ServerStarts
  BY <1>0, <1>1 DEF ServerStarts
<1>2. CASE ServerFails
  BY <1>0, <1>2 DEF ServerFails, RetryLeft
<1>3. CASE Decide
  BY <1>0, <1>3 DEF Decide
<1>4. CASE UNCHANGED boot
  BY <1>0, <1>4 DEF boot
<1>5. ASSUME NEW k \in Task, Finishes(k) PROVE UNCHANGED boot
  BY <1>5, FoundTools
<1>6. QED
  BY <1>1, <1>2, <1>3, <1>4, <1>5, StepKinds
  DEF AskServer, StartRefresh, EntryAges, FileAges, Show, vars

LEMMA NextTypeOK ==
    ASSUME IInv, [Next]_vars
    PROVE  TypeOK'
<1>1. RoutesWellFormed(routes')
  BY NextRoutes
<1>2. DOMAIN routes' \subseteq Name /\ Range(routes') \subseteq Route
  BY <1>1, RoutesType DEF RoutesWellFormed, Range
<1>3. QED
  BY <1>2, NextRemembered, NextShownByName, NextTasks, NextBoot DEF TypeOK

\* The startup handler goes on to the next server, or decides after the last:
\* what it has passed then is what it had passed and the server it was at.
LEMMA Advances ==
    ASSUME IInv, pc[Startup] \notin {"decide", "idle"},
           pc'[Startup] = IF at[Startup] < Len(Order) THEN "init" ELSE "decide",
           at'[Startup] = IF at[Startup] < Len(Order) THEN at[Startup] + 1 ELSE 1
    PROVE  \A i \in 1 .. Len(Order) : Passed(i)' => Passed(i) \/ Order[i] = At(Startup)
<1> SUFFICES ASSUME NEW i \in 1 .. Len(Order), Passed(i)'
             PROVE  i < at[Startup] \/ i = at[Startup]
  BY DEF Passed, At
<1>1. at[Startup] \in 1 .. Len(Order) /\ Len(Order) \in Nat
  BY Facts, Constants
<1>2. CASE at[Startup] < Len(Order)
  <2>1. i < at'[Startup] /\ at'[Startup] = at[Startup] + 1
    BY <1>2 DEF Passed
  <2>2. i < at[Startup] + 1
    BY ONLY <2>1
  <2>3. QED
    BY <1>1, <2>2
<1>3. CASE at[Startup] = Len(Order)
  BY <1>1, <1>3
<1>4. QED
  BY <1>1, <1>2, <1>3

LEMMA NextStartupInOrder ==
    ASSUME IInv, [Next]_vars
    PROVE  StartupInOrder'
<1> USE Constants, Facts
<1>0. StartupInOrder
  BY DEF IInv
<1>1. CASE UNCHANGED <<phase, configs, servers, failed, pc[Startup], at[Startup]>>
  BY <1>0, <1>1 DEF StartupInOrder, Passed, At
<1>2. ASSUME NEW k \in Task, Finishes(k), k # Startup
      PROVE  UNCHANGED <<phase, configs, servers, failed, pc[Startup], at[Startup]>>
  BY <1>2, FoundTools DEF FinishWith, boot
<1>3. CASE Finishes(Startup)
  <2>1. PICK ts \in SUBSET Tool :
           FinishWith(Startup, ts) /\ pc[Startup] \in {"discover", "waiting"} /\ UNCHANGED boot
    BY <1>3, FoundTools
  <2>2. /\ pc'[Startup] = IF at[Startup] < Len(Order) THEN "init" ELSE "decide"
        /\ at'[Startup] = IF at[Startup] < Len(Order) THEN at[Startup] + 1 ELSE 1
    BY <2>1 DEF FinishWith
  <2>3. \A i \in 1 .. Len(Order) : Passed(i)' => Passed(i) \/ Order[i] = At(Startup)
    BY <2>1, <2>2, Advances
  <2>4. UNCHANGED <<phase, configs, servers, failed>> /\ At(Startup) \in servers
    BY <1>0, <2>1 DEF StartupInOrder, boot
  <2>5. At(Startup) \in configs
    BY <2>4 DEF IInv, TypeOK
  <2>6. \A i \in 1 .. Len(Order) : Passed(i)' => Order[i] \in configs' /\ Order[i] \in servers' \cup failed'
    BY <1>0, <2>3, <2>4, <2>5 DEF StartupInOrder
  <2>7. pc'[Startup] \in {"init", "decide"}
    BY <2>2
  <2>8. QED
    BY <1>0, <2>1, <2>4, <2>6, <2>7 DEF StartupInOrder
<1>4. CASE ServerStarts
  <2>1. /\ pc[Startup] = "init" /\ pc'[Startup] = "discover" /\ at' = at
        /\ configs' = configs \cup {At(Startup)} /\ servers' = servers \cup {At(Startup)}
        /\ UNCHANGED <<phase, failed>>
    BY <1>4 DEF ServerStarts
  <2>2. \A i \in 1 .. Len(Order) : Passed(i)' => Passed(i)
    BY <2>1 DEF Passed
  <2>3. At(Startup)' = At(Startup)
    BY <2>1 DEF At
  <2>4. QED
    BY <1>0, <2>1, <2>2, <2>3 DEF StartupInOrder
<1>5. CASE ServerFails
  <2>1. /\ pc[Startup] = "init" /\ configs' = configs \cup {At(Startup)}
        /\ UNCHANGED <<phase, servers>>
    BY <1>5 DEF ServerFails
  <2>2. phase = "starting"
    BY <1>0, <2>1 DEF StartupInOrder, IInv, TypeOK
  <2>3. CASE UNCHANGED <<failed, pc, at>>
    BY <1>0, <2>1, <2>2, <2>3 DEF StartupInOrder, Passed
  <2>4. CASE failed' = failed \cup {At(Startup)} /\ NextServer
    <3>1. /\ pc'[Startup] = IF at[Startup] < Len(Order) THEN "init" ELSE "decide"
          /\ at'[Startup] = IF at[Startup] < Len(Order) THEN at[Startup] + 1 ELSE 1
      BY <2>4 DEF NextServer
    <3>2. \A i \in 1 .. Len(Order) : Passed(i)' => Passed(i) \/ Order[i] = At(Startup)
      BY <2>1, <3>1, Advances
    <3>3. \A i \in 1 .. Len(Order) : Passed(i)' => Order[i] \in configs' /\ Order[i] \in servers' \cup failed'
      BY <1>0, <2>1, <2>4, <3>2 DEF StartupInOrder
    <3>4. pc'[Startup] \in {"init", "decide"}
      BY <3>1
    <3>5. QED
      BY <2>1, <2>2, <3>3, <3>4 DEF StartupInOrder
  <2>5. QED
    BY <1>5, <2>3, <2>4 DEF ServerFails
<1>6. CASE Decide
  <2>1. /\ pc[Startup] = "decide" /\ pc'[Startup] = "idle"
        /\ phase' \in {"up", "down"} /\ (phase' = "up" => failed = {})
        /\ UNCHANGED <<configs, servers, failed>>
    BY <1>6 DEF Decide, MayComeUp
  <2>2. \A i \in 1 .. Len(Order) : Order[i] \in configs /\ Order[i] \in servers \cup failed
    BY <1>0, <2>1 DEF StartupInOrder, Passed
  <2>3. QED
    BY <2>1, <2>2 DEF StartupInOrder
<1>7. ASSUME NEW k \in Task, AskServer(k) PROVE StartupInOrder'
  <2>1. CASE k # Startup
    BY <1>1, <1>7, <2>1 DEF AskServer, boot
  <2>2. CASE k = Startup
    <3>1. /\ pc[Startup] = "discover" /\ pc'[Startup] = "waiting"
          /\ UNCHANGED <<phase, configs, servers, failed, at>>
      BY <1>7, <2>2 DEF AskServer, boot
    <3>2. QED
      BY <1>0, <3>1 DEF StartupInOrder, Passed, At
  <2>3. QED
    BY <2>1, <2>2
<1>8. ASSUME NEW k \in Refreshes, NEW clear, NEW forced, StartRefresh(k, clear, forced)
      PROVE  UNCHANGED <<phase, configs, servers, failed, pc[Startup], at[Startup]>>
  BY <1>8 DEF StartRefresh, boot
<1>9. CASE UNCHANGED boot /\ UNCHANGED tasks
  BY <1>1, <1>9 DEF boot, tasks
<1>10. QED
  BY <1>1, <1>2, <1>3, <1>4, <1>5, <1>6, <1>7, <1>8, <1>9, StepKinds
  DEF EntryAges, FileAges, Show, vars

LEMMA NextRefreshesInOrder ==
    ASSUME IInv, [Next]_vars
    PROVE  RefreshesInOrder'
<1> USE Constants, Facts
<1>0. RefreshesInOrder
  BY DEF IInv
<1>1. CASE UNCHANGED <<phase, pc, at>>
  BY <1>0, <1>1 DEF RefreshesInOrder, At
<1>2. ASSUME NEW k \in Task, Finishes(k) PROVE RefreshesInOrder'
  <2>1. PICK ts \in SUBSET Tool :
           FinishWith(k, ts) /\ pc[k] \in {"discover", "waiting"} /\ UNCHANGED boot
    BY <1>2, FoundTools
  <2>2. \A x \in Task \ {k} : pc'[x] = pc[x] /\ at'[x] = at[x]
    BY <2>1 DEF FinishWith
  <2>3. CASE k = Startup
    <3>1. pc'[k] \in {"init", "decide"}
      BY <2>1, <2>3 DEF FinishWith
    <3>2. QED
      BY <1>0, <2>1, <2>2, <2>3, <3>1 DEF RefreshesInOrder, At, boot
  <2>4. CASE k # Startup
    <3>1. pc'[k] = "discover" \/ (pc'[k] = "idle" /\ at'[k] = 1)
      BY <2>1, <2>4 DEF FinishWith
    <3>2. k \in Refreshes /\ phase' = phase /\ phase = "up"
      BY <1>0, <2>1, <2>4 DEF RefreshesInOrder, boot, Task
    <3>3. QED
      BY <1>0, <2>2, <3>1, <3>2 DEF RefreshesInOrder, At
  <2>5. QED
    BY <2>3, <2>4
<1>3. ASSUME NEW k \in Task, AskServer(k) PROVE RefreshesInOrder'
  <2>1. /\ pc[k] = "discover" /\ pc' = [pc EXCEPT ![k] = "waiting"] /\ At(k) \in Local
        /\ UNCHANGED <<phase, at>>
    BY <1>3 DEF AskServer, boot
  <2>2. QED
    BY <1>0, <2>1 DEF RefreshesInOrder, At
<1>4. ASSUME NEW k \in Refreshes, NEW clear, NEW forced, StartRefresh(k, clear, forced)
      PROVE  RefreshesInOrder'
  <2>1. phase = "up" /\ pc' = [pc EXCEPT ![k] = "discover"] /\ UNCHANGED <<phase, at>>
    BY <1>4 DEF StartRefresh, boot
  <2>2. QED
    BY <1>0, <2>1 DEF RefreshesInOrder, At
<1>5. CASE ServerStarts \/ ServerFails \/ Decide
  <2>1. phase # "up"
    BY <1>0, <1>5 DEF ServerStarts, ServerFails, Decide, IInv, StartupInOrder
  <2>2. \A k \in Refreshes : pc[k] = "idle" /\ at[k] = 1
    BY <1>0, <2>1 DEF RefreshesInOrder
  <2>3. \A k \in Refreshes : pc'[k] = pc[k] /\ at'[k] = at[k]
    BY <1>5 DEF ServerStarts, ServerFails, NextServer, Decide
  <2>4. pc'[Startup] # "waiting"
    BY <1>5 DEF ServerStarts, ServerFails, NextServer, Decide
  <2>5. QED
    BY <2>2, <2>3, <2>4 DEF RefreshesInOrder, Task
<1>6. QED
  BY <1>1, <1>2, <1>3, <1>4, <1>5, StepKinds
  DEF EntryAges, FileAges, Show, vars, boot, tasks

\* A task that leaves its server for the next one still comes to every later
\* server.
LEMMA StaysAhead ==
    ASSUME IInv, NEW k \in Task, NEW i \in 1 .. Len(Order), at[k] <= i,
           at'[k] = IF at[k] < Len(Order) THEN at[k] + 1 ELSE 1,
           at[k] < Len(Order) => OnItsWay(k)'
    PROVE  i = at[k] \/ (OnItsWay(k)' /\ at'[k] <= i)
<1>1. at[k] \in 1 .. Len(Order) /\ Len(Order) \in Nat
  BY Facts, Constants
<1>2. CASE i = at[k]
  BY <1>2
<1>3. CASE at[k] < i
  <2>1. at[k] < Len(Order) /\ at[k] + 1 <= i
    BY <1>1, <1>3
  <2>2. at'[k] = at[k] + 1 /\ OnItsWay(k)'
    BY <2>1
  <2>3. QED
    BY <2>1, <2>2
<1>4. QED
  BY <1>1, <1>2, <1>3

LEMMA NextMissingIsAhead ==
    ASSUME IInv, [Next]_vars
    PROVE  MissingIsAhead'
<1> USE Constants, Facts
<1>0. MissingIsAhead
  BY DEF IInv
<1>1. ASSUME NEW k \in Task, Finishes(k) PROVE MissingIsAhead'
  <2>1. PICK ts \in SUBSET Tool : /\ Between(At(k), ts) /\ FinishWith(k, ts)
                                  /\ pc[k] \in {"discover", "waiting"} /\ UNCHANGED boot
    BY <1>1, FoundTools
  <2>2. /\ DOMAIN routes \subseteq DOMAIN routes'
        /\ \A t \in ts : <<At(k), t>> \in DOMAIN routes'
    <3>1. At(k) \in Server /\ ts \subseteq Offers(At(k)) /\ RoutesWellFormed(routes)
      BY <2>1 DEF Between, IInv
    <3>2. routes' = Register(At(k), ts, routes)
      BY <2>1 DEF FinishWith
    <3>3. QED
      BY <3>1, <3>2, RegisterKeeps
  <2>3. /\ \A x \in Task \ {k} : pc'[x] = pc[x] /\ at'[x] = at[x]
        /\ at'[k] = IF at[k] < Len(Order) THEN at[k] + 1 ELSE 1
        /\ at[k] < Len(Order) => OnItsWay(k)'
    BY <2>1 DEF FinishWith, OnItsWay
  <2>4. failed' = failed
    BY <2>1 DEF boot
  <2> SUFFICES ASSUME NEW i \in 1 .. Len(Order)
               PROVE  \/ Registered(Order[i])' \/ Order[i] \in failed'
                      \/ \E x \in Task : (OnItsWay(x) /\ at[x] <= i)'
    BY DEF MissingIsAhead
  <2>5. CASE Registered(Order[i]) \/ Order[i] \in failed
    BY <2>2, <2>4, <2>5 DEF Registered
  <2>6. ASSUME NEW x \in Task \ {k}, OnItsWay(x), at[x] <= i PROVE (OnItsWay(x) /\ at[x] <= i)'
    BY <2>3, <2>6 DEF OnItsWay
  <2>7. ASSUME at[k] <= i PROVE Registered(Order[i])' \/ (OnItsWay(k) /\ at[k] <= i)'
    <3>1. i = at[k] \/ (OnItsWay(k)' /\ at'[k] <= i)
      BY <2>3, <2>7, StaysAhead
    <3>2. ASSUME i = at[k] PROVE Registered(Order[i])'
      BY <2>1, <2>2, <3>2 DEF Registered, Between, At
    <3>3. QED
      BY <3>1, <3>2
  <2>8. QED
    BY <1>0, <2>5, <2>6, <2>7 DEF MissingIsAhead
<1>2. CASE ServerFails
  <2> SUFFICES ASSUME NEW i \in 1 .. Len(Order)
               PROVE  \/ Registered(Order[i])' \/ Order[i] \in failed'
                      \/ \E x \in Task : (OnItsWay(x) /\ at[x] <= i)'
    BY DEF MissingIsAhead
  <2>1. /\ routes' = routes /\ failed \subseteq failed'
        /\ \A x \in Task \ {Startup} : pc'[x] = pc[x] /\ at'[x] = at[x]
    BY <1>2 DEF ServerFails, NextServer
  <2>2. CASE Registered(Order[i]) \/ Order[i] \in failed
    BY <2>1, <2>2 DEF Registered
  <2>3. ASSUME NEW x \in Task \ {Startup}, OnItsWay(x), at[x] <= i PROVE (OnItsWay(x) /\ at[x] <= i)'
    BY <2>1, <2>3 DEF OnItsWay
  <2>4. ASSUME OnItsWay(Startup), at[Startup] <= i
        PROVE  Order[i] \in failed' \/ (OnItsWay(Startup) /\ at[Startup] <= i)'
    <3>1. CASE UNCHANGED <<pc, at>>
      BY <2>4, <3>1 DEF OnItsWay
    <3>2. CASE NextServer /\ failed' = failed \cup {At(Startup)}
      <4>1. /\ at'[Startup] = IF at[Startup] < Len(Order) THEN at[Startup] + 1 ELSE 1
            /\ at[Startup] < Len(Order) => OnItsWay(Startup)'
        BY <3>2 DEF NextServer, OnItsWay
      <4>2. i = at[Startup] \/ (OnItsWay(Startup)' /\ at'[Startup] <= i)
        BY <2>4, <4>1, StaysAhead
      <4>3. QED
        BY <3>2, <4>2 DEF At
    <3>3. QED
      BY <1>2, <3>1, <3>2 DEF ServerFails
  <2>5. QED
    BY <1>0, <2>2, <2>3, <2>4 DEF MissingIsAhead
<1>3. ASSUME NEW k \in Refreshes, NEW clear \in BOOLEAN, NEW forced \in BOOLEAN,
             StartRefresh(k, clear, forced)
      PROVE  MissingIsAhead'
  <2>1. pc[k] = "idle" /\ pc' = [pc EXCEPT ![k] = "discover"] /\ at' = at
    BY <1>3 DEF StartRefresh
  <2>2. at[k] = 1
    BY <2>1 DEF IInv, RefreshesInOrder
  <2>3. OnItsWay(k)' /\ at'[k] = 1
    BY <2>1, <2>2 DEF OnItsWay
  <2>4. \A i \in 1 .. Len(Order) : (OnItsWay(k) /\ at[k] <= i)'
    BY <2>3
  <2>5. QED
    BY <2>4 DEF MissingIsAhead
<1>4. ASSUME UNCHANGED <<routes, failed, at>>, \A x \in Task : OnItsWay(x) => OnItsWay(x)'
      PROVE  MissingIsAhead'
  BY <1>0, <1>4 DEF MissingIsAhead, Registered
<1>5. CASE ServerStarts
  BY <1>4, <1>5 DEF ServerStarts, OnItsWay
<1>6. CASE Decide
  BY <1>4, <1>6 DEF Decide, OnItsWay
<1>7. ASSUME NEW k \in Task, AskServer(k) PROVE MissingIsAhead'
  BY <1>4, <1>7 DEF AskServer, OnItsWay, boot
<1>8. CASE UNCHANGED <<routes, boot, tasks>>
  BY <1>4, <1>8 DEF OnItsWay, boot, tasks
<1>9. QED
  BY <1>1, <1>2, <1>3, <1>5, <1>6, <1>7, <1>8, StepKinds
  DEF EntryAges, FileAges, Show, vars

\* IInv is inductive.
LEMMA NextIInv ==
    ASSUME IInv, [Next]_vars
    PROVE  IInv'
BY NextTypeOK, NextRoutes, NextRemembered, NextShownByName, NextStartupInOrder,
   NextRefreshesInOrder, NextMissingIsAhead DEF IInv

-----------------------------------------------------------------------------
(* What it implies.                                                        *)

LEMMA RoutesAreOwn == IInv => OwnTools
<1> SUFFICES ASSUME IInv, NEW n \in DOMAIN routes PROVE routes[n][2] \in Offers(routes[n][1])
  BY DEF OwnTools, Range
<1>1. QED
  BY DEF IInv, RoutesWellFormed

LEMMA NobodyIsMissing == IInv => Complete
<1> SUFFICES ASSUME IInv, phase = "up"
             PROVE  /\ servers = configs /\ configs = Server
                    /\ (\A k \in Refreshes : pc[k] = "idle")
                          => /\ Ready
                             /\ \A s \in Local : \A t \in NativeTools[s] \cap ManualTools[s] :
                                   <<s, t>> \in DOMAIN routes /\ Plain(t) \in DOMAIN routes
  BY DEF Complete, NothingToReconnect, CompleteWhenQuiet
<1> USE Constants, Facts
<1>1. pc[Startup] = "idle" /\ failed = {}
  BY DEF IInv, StartupInOrder
<1>2. \A i \in 1 .. Len(Order) : Order[i] \in configs /\ Order[i] \in servers
  BY <1>1 DEF IInv, StartupInOrder, Passed
<1>3. servers = configs /\ configs = Server
  <2>1. servers \subseteq configs /\ configs \subseteq Server
    BY DEF IInv, TypeOK
  <2>2. \A s \in Server : s \in servers
    BY <1>2
  <2>3. QED
    BY <2>1, <2>2
<1>4. ASSUME \A k \in Refreshes : pc[k] = "idle"
      PROVE  \A s \in Server : Registered(s)
  <2>1. \A k \in Task : ~OnItsWay(k)
    BY <1>1, <1>4 DEF OnItsWay, Task
  <2>2. \A i \in 1 .. Len(Order) : Registered(Order[i])
    BY <1>1, <2>1 DEF IInv, MissingIsAhead
  <2>3. QED
    BY <2>2
<1>5. ASSUME \A k \in Refreshes : pc[k] = "idle",
             NEW s \in Local, NEW t \in NativeTools[s] \cap ManualTools[s]
      PROVE  <<s, t>> \in DOMAIN routes /\ Plain(t) \in DOMAIN routes
  <2>1. <<s, t>> \in DOMAIN routes
    BY <1>4, <1>5 DEF Registered, Certain
  <2>2. s # None
    OBVIOUS
  <2>3. Plain(<<s, t>>[2]) \in DOMAIN routes
    BY <2>1, <2>2 DEF IInv, RoutesWellFormed
  <2>4. QED
    BY <2>1, <2>3
<1>6. ASSUME \A k \in Refreshes : pc[k] = "idle" PROVE Ready
  BY <1>3, <1>5, <1>6, RequiredAssumption DEF Ready
<1>7. QED
  BY <1>3, <1>5, <1>6

\* The one name a tool is shown by: its plain name if that leads to it.
LEMMA EachIsShownOnce == IInv => ShownOnce
<1> SUFFICES ASSUME IInv
             PROVE  /\ \A n \in DOMAIN ToolList : Resolve(n) = ToolList[n]
                    /\ \A p \in Range(routes) : \E n \in DOMAIN ToolList :
                          ToolList[n] = p /\ \A m \in DOMAIN ToolList : ToolList[m] = p => m = n
  BY DEF ShownOnce
<1>0. RoutesWellFormed(routes)
  BY DEF IInv
<1>1. /\ \A n \in DOMAIN ToolList : n \in DOMAIN routes /\ ToolList[n] = routes[n]
      /\ \A n \in DOMAIN routes :
            n \in DOMAIN ToolList <=> \A l \in DOMAIN routes : routes[l] = routes[n] => l = n \/ l[1] # None
  BY DEF ToolList
<1>2. \A n \in DOMAIN ToolList : Resolve(n) = ToolList[n]
  BY <1>1 DEF Resolve
<1>3. ASSUME NEW p \in Range(routes)
      PROVE  \E n \in DOMAIN ToolList :
                ToolList[n] = p /\ \A m \in DOMAIN ToolList : ToolList[m] = p => m = n
  <2>1. p \in DOMAIN routes /\ p[1] # None /\ routes[p] = p /\ Plain(p[2]) \in DOMAIN routes
    <3>1. PICK x \in DOMAIN routes : routes[x] = p
      BY DEF Range
    <3>2. p \in DOMAIN routes /\ p[1] # None
      BY <1>0, <3>1, RoutesType
    <3>3. QED
      BY <1>0, <3>2 DEF RoutesWellFormed
  <2>2. \A l \in DOMAIN routes : routes[l] = p => l[1] # None \/ l = Plain(p[2])
    <3> SUFFICES ASSUME NEW l \in DOMAIN routes, routes[l] = p, l[1] = None PROVE l = Plain(p[2])
      OBVIOUS
    <3>1. l \in Name /\ p[2] = l[2]
      BY <1>0 DEF RoutesWellFormed
    <3>2. l = <<l[1], l[2]>>
      BY <3>1 DEF Name
    <3>3. QED
      BY <3>1, <3>2 DEF Plain
  <2>3. Plain(p[2])[1] = None
    BY DEF Plain
  <2>4. CASE routes[Plain(p[2])] = p
    <3>1. Plain(p[2]) \in DOMAIN ToolList
      BY <1>1, <2>1, <2>2, <2>4
    <3>2. \A m \in DOMAIN ToolList : ToolList[m] = p => m = Plain(p[2])
      BY <1>1, <2>1, <2>3, <2>4
    <3>3. QED
      BY <1>1, <2>4, <3>1, <3>2
  <2>5. CASE routes[Plain(p[2])] # p
    <3>1. \A l \in DOMAIN routes : routes[l] = p => l[1] # None
      BY <2>2, <2>5
    <3>2. p \in DOMAIN ToolList
      BY <1>1, <2>1, <3>1
    <3>3. \A m \in DOMAIN ToolList : ToolList[m] = p => m = p
      BY <1>0, <1>1, <3>1 DEF RoutesWellFormed
    <3>4. QED
      BY <1>1, <2>1, <3>2, <3>3
  <2>6. QED
    BY <2>4, <2>5
<1>4. QED
  BY <1>2, <1>3

LEMMA CallsReach == IInv => CallsReachWhatWasShown
<1> SUFFICES ASSUME IInv, NEW r \in Runs, NEW n \in DOMAIN shown[r],
                    Resolve(n) # None, Resolve(n) # shown[r][n]
             PROVE  /\ n[1] = None /\ Resolve(n)[2] = shown[r][n][2]
                    /\ \E s \in Server \ {shown[r][n][1]} : shown[r][n][2] \in Offers(s)
  BY DEF CallsReachWhatWasShown
<1>1. /\ n \in Name /\ shown[r][n] \in Route
      /\ n[1] # None => shown[r][n] = n
      /\ n[1] = None => shown[r][n][2] = n[2]
  BY DEF IInv, TypeOK, ShownByName, Range
<1>2. RoutesWellFormed(routes)
  BY DEF IInv
<1>3. CASE n \in DOMAIN routes
  <2>1. Resolve(n) = routes[n]
    BY <1>3 DEF Resolve
  <2>2. n[1] = None
    BY <1>1, <1>2, <1>3, <2>1 DEF RoutesWellFormed
  <2>3. routes[n] \in Route /\ routes[n][2] = n[2] /\ n[2] \in Offers(routes[n][1])
    BY <1>2, <1>3, <2>2, RoutesType DEF RoutesWellFormed
  <2>4. shown[r][n][2] = n[2]
    BY <1>1, <2>2
  <2>5. routes[n][1] # shown[r][n][1] /\ routes[n][1] \in Server
    BY <1>1, <2>1, <2>3, <2>4 DEF Route
  <2>6. QED
    BY <2>1, <2>2, <2>3, <2>4, <2>5
<1>4. CASE n \notin DOMAIN routes
  <2>1. Resolve(n) = n /\ n[1] \in {p[1] : p \in Range(routes)}
    BY <1>4 DEF Resolve
  <2>2. n[1] # None
    BY <1>2, <2>1, RoutesType DEF Range
  <2>3. QED
    BY <1>1, <2>1, <2>2
<1>5. QED
  BY <1>3, <1>4

-----------------------------------------------------------------------------
(* The theorems.                                                           *)

\* The three facts of the head of this module hold in every reachable state:
\* the startup handler, any number of overlapping refreshes, listings that
\* answer, time out or raise half way, and a cache file of any earlier process
\* all preserve them.
THEOREM Invariance == Spec => []IInv
<1>1. Init => IInv
  BY InitIInv
<1>2. IInv /\ [Next]_vars => IInv'
  BY NextIInv
<1>3. QED
  BY <1>1, <1>2, PTL DEF Spec

\* Type correctness of the registry, the discovery and its caches.
THEOREM TypeCorrect == Spec => []TypeOK
<1>1. IInv => TypeOK
  BY DEF IInv
<1>2. QED
  BY <1>1, Invariance, PTL

\* A name never leads to a tool that its server does not have, although one
\* cache file serves all servers and a failed listing is mixed with what
\* introspection finds (mcp_orchestrator.py, _load_disk_tool_cache).
THEOREM EveryToolIsItsServers == Spec => []OwnTools
BY RoutesAreOwn, Invariance, PTL

\* Once the system is up every configured server is initialised, so nothing is
\* left to reconnect; and however refreshes overlapped, when the last of them
\* has returned every tool that both ways of discovery find is registered
\* under both its names, the required ones among them (api.py, startup and
\* refresh_tools).
THEOREM UpIsComplete == Spec => []Complete
BY NobodyIsMissing, Invariance, PTL

\* A model is shown each registered tool once, by a name that leads to it; and
\* a call by a name that was shown, at any later await, is refused, reaches
\* that tool, or reaches the same plain name of another server that offers it
\* (tool_registry.py, to_openai_format and resolve_tool_call).
THEOREM NamesLeadWhereShown == Spec => []NamesAreFaithful
<1>1. IInv => NamesAreFaithful
  BY EachIsShownOnce, CallsReach DEF NamesAreFaithful
<1>2. QED
  BY <1>1, Invariance, PTL
=============================================================================
