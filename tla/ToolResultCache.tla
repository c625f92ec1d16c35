---------------------------- MODULE ToolResultCache ----------------------------
(***************************************************************************)
(* _ToolResultCache of services/orchestrator/agent_loop.py, as run() uses  *)
(* it: a lookup before a read-only tool executes, a store after it.  The   *)
(* cache belongs to the AgentLoop singleton, so it serves all requests,    *)
(* whichever directory they select, and files change beside it.            *)
(*                                                                         *)
(* The tools resolve a relative path below the allowed directory; the      *)
(* cache stats the same path below the orchestrator's working directory.   *)
(* Every write gives a file a new modification time, so one number stands  *)
(* for a file's mtime and content; 0 is a file that does not exist.        *)
(***************************************************************************)
EXTENDS Integers, Sequences, FiniteSets, SequencesExt

CONSTANTS
    Calls,              \* the cacheable calls: tool and path (of a web page, any file)
    Dirs,               \* directories a request can select
    Cwd,                \* the orchestrator's working directory
    Names,              \* relative paths; an absolute path is <<directory, name>>
    NoCall,             \* no call is being executed
    MaxSize,            \* max_size
    WebTTL,             \* 300 seconds
    ConcurrentWriters,  \* do files change while a tool executes?
    MaxChanges,         \* bound: changes of files
    MaxTime             \* bound: the clock

FileTools == {"read_text_file", "read_file", "get_file_info"}
WebTools == {"search_web", "fetch_url"}
Cacheable == FileTools \cup WebTools \cup {"grep_codebase"}
Files == (Dirs \cup {Cwd}) \X Names

ASSUME CallsAssumption ==
    /\ Calls \subseteq [tool : Cacheable, path : Names \cup Files]
    /\ NoCall \notin Calls
\* A relative path is not an absolute one.
ASSUME PathsAssumption == Names \cap Files = {}
ASSUME SizeAssumption == MaxSize \in Nat \ {0} /\ WebTTL \in Nat /\ ConcurrentWriters \in BOOLEAN

VARIABLES
    version,  \* mtime and content of each file
    dir,      \* the allowed directory of the running request
    cache,    \* _cache: call -> result and the time it was stored
    mtimes,   \* _mtimes: call -> mtime at that time
    order,    \* _access_order
    call,     \* the call run() executes
    fetched,  \* its result, -1 before the tool has read
    now,      \* time.monotonic()
    changes   \* changes of files so far

cacheVars == <<cache, mtimes, order>>
worldVars == <<version, dir, now, changes>>
allVars == <<version, dir, cache, mtimes, order, call, fetched, now, changes>>

CacheInit ==
    /\ version \in [Files -> {0, 1}]
    /\ dir \in Dirs
    /\ cache = <<>> /\ mtimes = <<>> /\ order = <<>>
    /\ call = NoCall /\ fetched = -1
    /\ now = 0 /\ changes = 0

\* _resolve_user_path: the file a tool reads in directory d.
FileIn(d, path) == IF path \in Names THEN <<d, path>> ELSE path

\* os.path.getmtime(fpath); 0 stands for OSError.
Stat(path) == version[FileIn(Cwd, path)]

Drop(f, k) == Restrict(f, DOMAIN f \ {k})
Put(f, k, v) == [x \in DOMAIN f \cup {k} |-> IF x = k THEN v ELSE f[x]]
\* list.remove: the first occurrence goes.
Without(seq, k) ==
    LET first == CHOOSE i \in DOMAIN seq : seq[i] = k /\ \A j \in 1 .. i - 1 : seq[j] # k
    IN  IF k \in ToSet(seq) THEN RemoveAt(seq, first) ELSE seq
ToEnd(seq, k) == Append(Without(seq, k), k)

-----------------------------------------------------------------------------
(* What goes on around the cache.                                          *)

\* A program, an abandoned thread or another tool writes or deletes a file.
ChangeFile(f) ==
    /\ changes < MaxChanges
    /\ call = NoCall \/ ConcurrentWriters
    /\ changes' = changes + 1
    /\ version' \in {[version EXCEPT ![f] = changes + 2], [version EXCEPT ![f] = 0]}
    /\ UNCHANGED <<dir, cacheVars, call, fetched, now>>

\* The next request selects another directory.
SelectDir(d) ==
    /\ call = NoCall
    /\ dir' = d
    /\ UNCHANGED <<version, cacheVars, call, fetched, now, changes>>

Tick ==
    /\ now < MaxTime
    /\ now' = now + 1
    /\ UNCHANGED <<version, dir, cacheVars, call, fetched, changes>>

-----------------------------------------------------------------------------
(* get.                                                                    *)

StaleUnlessDeleted(c) ==   \* mutant: an OSError is not a reason to drop the entry
    \/ c.tool \in WebTools /\ now - cache[c].at > WebTTL
    \/ /\ c.tool \in FileTools
       /\ Stat(c.path) # 0
       /\ c \in DOMAIN mtimes => Stat(c.path) # mtimes[c]

\* The entry of c must not be used any more: web results age, file results are
\* compared by mtime, grep results are kept.
Stale(c) ==
    \/ c.tool \in WebTools /\ now - cache[c].at > WebTTL
    \/ /\ c.tool \in FileTools
       /\ Stat(c.path) = 0 \/ c \notin DOMAIN mtimes \/ Stat(c.path) # mtimes[c]

WouldHit(c) == c \in DOMAIN cache /\ ~Stale(c)

Hit(c) ==
    /\ call = NoCall
    /\ WouldHit(c)
    /\ order' = ToEnd(order, c)
    /\ UNCHANGED <<worldVars, cache, mtimes, call, fetched>>

\* A stale entry leaves _cache, but neither _mtimes nor _access_order.
Miss(c) ==
    /\ call = NoCall
    /\ ~WouldHit(c)
    /\ cache' = Drop(cache, c)
    /\ call' = c
    /\ UNCHANGED <<worldVars, mtimes, order, fetched>>

-----------------------------------------------------------------------------
(* The tool.                                                               *)

ReadsMissingFile == TRUE   \* mutant: the error of a missing file is a result
ReadSucceeds == call.tool \in FileTools => version[FileIn(dir, call.path)] # 0

ToolReads ==
    /\ call # NoCall /\ fetched = -1
    /\ ReadSucceeds
    /\ fetched' = version[FileIn(dir, call.path)]
    /\ UNCHANGED <<worldVars, cacheVars, call>>

\* The tool raises, times out or is cancelled: nothing is stored.
ToolFails ==
    /\ call # NoCall
    /\ call' = NoCall /\ fetched' = -1
    /\ UNCHANGED <<worldVars, cacheVars>>

-----------------------------------------------------------------------------
(* set.                                                                    *)

\* At capacity a new key displaces the head of _access_order, cached or not.
Displaced(c) ==
    IF Cardinality(DOMAIN cache) >= MaxSize /\ c \notin DOMAIN cache /\ order # <<>>
    THEN {Head(order)} ELSE {}

KeepOrder(c) ==   \* mutant: the order is touched by hits only
    IF Displaced(c) = {} THEN order ELSE Tail(order)
NewOrder(c) ==
    ToEnd(IF Displaced(c) = {} THEN order ELSE Tail(order), c)

\* An mtime is recorded, after the read, for a call that names a path.
Store ==
    /\ call # NoCall /\ fetched # -1
    /\ LET out == Displaced(call)
           kept == Restrict(mtimes, DOMAIN mtimes \ out)
           stats == call.tool \notin WebTools /\ Stat(call.path) # 0
       IN  /\ cache' = Put(Restrict(cache, DOMAIN cache \ out), call,
                           [result |-> fetched, at |-> now])
           /\ mtimes' = IF stats THEN Put(kept, call, Stat(call.path)) ELSE kept
    /\ order' = NewOrder(call)
    /\ call' = NoCall /\ fetched' = -1
    /\ UNCHANGED worldVars

CacheNext ==
    \/ \E f \in Files : ChangeFile(f)
    \/ \E d \in Dirs : SelectDir(d)
    \/ Tick
    \/ \E c \in Calls : Hit(c) \/ Miss(c)
    \/ ToolReads \/ ToolFails \/ Store

CacheSpec == CacheInit /\ [][CacheNext]_allVars

-----------------------------------------------------------------------------
(* Properties.                                                             *)

\* Every variable keeps its type; only what a tool really read is stored.
CacheTypeOK ==
    /\ version \in [Files -> Nat]
    /\ dir \in Dirs
    /\ DOMAIN cache \subseteq Calls /\ DOMAIN mtimes \subseteq Calls
    /\ \A c \in DOMAIN cache : cache[c] \in [result : Nat, at : Nat]
    /\ \A c \in DOMAIN cache : c.tool \in FileTools => cache[c].result # 0
    /\ \A c \in DOMAIN mtimes : mtimes[c] \in Nat \ {0}
    /\ order \in Seq(Calls)
    /\ call \in Calls \cup {NoCall}
    /\ fetched \in Nat \cup {-1}
    /\ now \in Nat /\ changes \in Nat

\* Nothing is leaked: whatever stale entries, evictions and failing stats do,
\* each cached result and each recorded mtime is on the eviction order, once.
EntriesEvictable ==
    /\ DOMAIN cache \cup DOMAIN mtimes \subseteq ToSet(order)
    /\ \A i, j \in DOMAIN order : order[i] = order[j] => i = j

\* While no file changes during a call, a file result that would be served is
\* the file's current content, after any sequence of writes, deletions, stale
\* drops and evictions, provided the cache stats the file the tool reads.
HitsAreFresh ==
    \A c \in Calls :
        (/\ c.tool \in FileTools
         /\ c.path \in Files
         /\ WouldHit(c))
            => cache[c].result = version[c.path]

\* "in-memory, 128 entries": the capacity bounds the number of entries.
SizeBounded == Cardinality(DOMAIN cache) <= MaxSize

\* "invalidated on writes to the same path": what would be served for a local
\* path is what the path holds now.
InvalidatedOnWrites ==
    \A c \in Calls : (call = NoCall /\ c.tool \notin WebTools /\ WouldHit(c))
        => cache[c].result = version[FileIn(Cwd, c.path)]

\* "Deduplicates repeated read-only tool calls within a run": what would be
\* served was read in the directory that is selected now.
OwnDirectoryOnly ==
    \A c \in Calls : (call = NoCall /\ c.tool \in FileTools /\ WouldHit(c))
        => cache[c].result = version[FileIn(dir, c.path)]
=============================================================================
