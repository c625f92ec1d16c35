# Atri Code in TLA+

Specifications, model-checking configurations and proofs for the parts of Atri
Code (`src/`) whose correctness depends on order, interleaving, failure or
boundaries: the orchestrator's request handling, tool calls, turn loop and
caches, the registry of tools, the rate limiter, hash-anchored editing, the two
stores of a conversation, and below them the model server's scheduler and its
CPU thread pool.

Everything is translated from the code; a sentence of a document or a comment is
only ever the source of a *claim* that is then checked against that translation.

## The system

Atri Code is a local-first coding agent. A CLI or a web page sends a chat
request to the orchestrator, a FastAPI process, which runs an agent loop: it
asks a language model (llama.cpp over HTTP) for a completion, executes the tool
calls in it through MCP tool modules loaded into the same process, feeds the
results back and records the turn.

| part | code | state it keeps | operations |
|---|---|---|---|
| chat endpoints | `services/orchestrator/api.py` | `_agent_request_lock`, `_active_confirmation_queues`, counters; it overwrites fields of the loop, the router and the sandbox | chat, chat_stream, confirm, fork, resume, refresh |
| agent loop | `agent_loop.py` | one `AgentLoop` object: limits, permission mode, `AgentState`, `confirmation_queue` | `run`, `_await_confirmation` |
| tool result cache | `agent_loop.py` (`_ToolResultCache`) | results, mtimes, access order | `get`, `set` |
| MCP orchestrator | `mcp_orchestrator.py` | servers, discovery caches, failure counts | initialise, discover, refresh, reconnect, `execute_tool` |
| tool registry | `tool_registry.py` | tools, routes, aliases | register, resolve, clear |
| MCP tools | `services/mcp/*.py` | the allowed directory | about forty file, shell, git and web tools |
| hashline | `hashline.py` | none; files | encode, parse, apply |
| conversation store | `database.py` | SQLite or PostgreSQL: conversations, turns, tool_calls | ensure, record, list, history, fork |
| session tree | `session_tree.py` | a JSONL file per session | load, append, leaves, path, fork |
| compaction | `compaction.py` | none | summarise the message list |
| memory, skills | `memory_service.py`, `skills_loader.py` | skill files | mine, load |
| code index | `index_manager.py` | SQLite | index, search |
| rate limiter | `redis_rate_limit.py` | a Redis counter per client and minute, or a local window | initialize, check |
| permissions, hooks | `permissions.py`, `hooks.py` | rules, callbacks | evaluate, run |
| auth, config, prompts, router | `auth.py`, `config.py`, `settings_layer.py`, `prompt_policy.py`, `model_router.py` | settings read at start | resolve |
| CLI | `apps/cli/atri_cli` | the user's "always allow" set, review state | chat, confirm, /fork, services |
| web frontend | `apps/frontend` | React state | proxying and display |
| model server | `runtime/llm/llama.cpp/tools/server` | task queue, deferred tasks, waiting list, results, slots, sleep flags | post, receive, cancel, launch, batch, decode, sleep, stop |
| CPU thread pool | `runtime/llm/llama.cpp/ggml/src/ggml-cpu/ggml-cpu.c` | graph, barrier counters, chunk counter, pause and stop flags | compute, pause, resume, free |
| inference | the rest of `runtime/llm/llama.cpp`, vendored | tensors, model, caches | |

How they interact:

- **Shared singletons.** Every request uses the same loop object, model router
  and MCP directory. `_run_agent_request` takes a lock, overwrites them, runs,
  and restores them in a `finally` block.
- **Calls.** Loop to model over HTTP; loop to tools as calls that run in worker
  threads (`asyncio.to_thread`) under `asyncio.wait_for`. A timeout or a
  cancellation abandons the thread; it does not stop it.
- **Messages.** Progress events stream to the client; the client answers a
  confirmation request with a separate POST that puts a reply into one queue
  shared by all runs.
- **Model server.** The service manager starts `llama-server` with
  `--parallel 1` (`service_manager.py:439`, `Makefile:88`) and no sleep option.
  Its HTTP threads post tasks to one main thread, which works for all slots in
  one batch and hands each batch to the thread pool. Where the CPU build finds
  OpenMP (`detect_hardware.py:392` asks for it on Linux) the pool's own threads
  are not compiled in; elsewhere they are.
- **Files.** Tools, abandoned threads, the user's editor, the server's and the
  CLI's session-tree writers all work on the same file system without locks.

What makes it hard: two requests at once; cancellation at every await; replies
that arrive after their deadline; threads that outlive the call that started
them; cached results of files that change; edits whose anchors move; a crash
between the writes to two stores, or between a counter's creation and its
expiry; a task that is cancelled while it changes place; threads that must not
sleep through a wake-up or enter a node before the last one is finished.

## Modules

| module | models | main source |
|---|---|---|
| `ChatHistory` | which turns a resumed conversation gets back (pure operators) | `database.py` |
| `AgentRequests` | a chat request from acceptance to its end, beside others | `api.py` |
| `AgentRequestsProofs` | theorems about `AgentRequests` and `RateLimiter` | |
| `ToolContract` | abstract: consent before effect, refusal is final, bounded effects | |
| `ToolCalls` | gating, confirmation round trip, execution with retries; refines `ToolContract` | `agent_loop.py`, `mcp_orchestrator.py`, CLI |
| `ToolCallsProofs` | theorems about `ToolCalls`, and that it implements `ToolContract` | |
| `AgentLoop` | one `run()`: turns, context, recovery, endings | `agent_loop.py` |
| `AgentLoopProofs` | theorems about `AgentLoop` and `ToolResultCache` | |
| `ToolResultCache` | the cache between `run()` and the tools, with files changing | `agent_loop.py` |
| `McpRegistry` | start-up, discovery with its caches, refresh, names and routes of tools | `mcp_orchestrator.py`, `tool_registry.py`, `api.py` |
| `McpRegistryProofs` | theorems about `McpRegistry` | |
| `RateLimiter` | the check in Redis or on its own, with failures, restarts and time | `redis_rate_limit.py` |
| `LlamaServer` | tasks, slots, batches and results of the model server | `server-queue.cpp`, `server-context.cpp` |
| `LlamaServerProofs` | theorems about `LlamaServer` | |
| `ThreadPool` | workers between and inside graphs, barrier, chunks | `ggml-cpu.c` |
| `ThreadPoolProofs` | theorems about `ThreadPool` | |
| `Hashline` | listing, anchored script, change, validation, application | `hashline.py`, `mcp/main.py` |
| `HashlineProofs` | theorems about `Hashline` | |
| `Conversations` | turns table and session tree, failures, crashes, forks | `database.py`, `session_tree.py`, CLI |
| `ConversationsProofs` | theorems about `Conversations` | |

`MC*` modules give the instances TLC checks. The proofs about the cache are in
the module of the loop that owns it, those about the limiter in the module of
the requests it admits; the definitions of the two (`CacheSpec`, `LimiterSpec`,
...) have names of their own for that reason. The modules meet at these places:
`AgentRequests` establishes that one `run()` executes at a time, which
`ToolCalls` and `AgentLoop` assume; one tool call is a step with a result in
`AgentLoop` and a life of its own in `ToolCalls`; a tool that reads is a step of
`ToolCalls` and looked at through the cache in `ToolResultCache`;
`AgentRequests` and `Conversations` use the history operators of `ChatHistory`;
a completion is a step of `AgentLoop` that may never come, a request of
`LlamaServer`, and its decoded batches are graphs of `ThreadPool`.

### AgentRequests

`pc[r]` is the await the coroutine of request `r` is at; the code between two
awaits is one step because asyncio does not preempt. `loop`, `override`,
`sandbox` and `confirmable` are the shared fields, `lock` and `waiters` the
asyncio lock with its FIFO queue, `saved` and `applied` the locals with which
the `finally` block restores. `turns` and `tree` are what was recorded.

`Acquire` is everything from the lock to the first await; `ReadHistory`,
`SetSandbox` (with `RetrySandbox` for the retries of `execute_tool`),
`LoopReturns`, `Finish` follow the awaits; `RunAgain` is the second call of
`run()` after a `TypeError`, which gets neither the history nor the event
callback. `Fail` and `Cancel` can happen at each await;
`Cancel` leaves the worker thread behind, which `OrphanSetsDir` and
`OrphanRecords` complete later, or never. The body of each request is one of a
few that disagree on all shared fields and includes a model name that does not
exist, which `set_override` refuses.

### ToolCalls and ToolContract

`call`, `outcome`, `threads` and `effects` describe every call ever made;
`queue` is the shared confirmation queue, `prompts` and `mail` the client's side
of it. A reply can be delivered late, to a later run of the same session, or
never. `outcome` is what the loop reports to the model: `"denied"` for a no and
for a confirmation that timed out, since `_await_confirmation` returns the same
`False` for both and the model is told "The user declined ..." either way;
`declined` holds the calls that really got a no. `ToolTimesOut` turns an attempt into an abandoned thread; `ThreadEnds`
lets it apply its effect at any later time. `RefusedNeverApplied` includes a
call that was withdrawn by a disconnect while it waited.

The refinement maps a call to the phases new, asked, started and refused of
`ToolContract`, consent to the replies that a client gave, effects to effects.

### AgentLoop

A message is reduced to its kind, which keeps its role and whether it is an
observation, an error, a nudge or an instruction. `StartTurn` is the loop's
head with the trim and the decision to offer tools; `ReplyWithCalls`,
`ForceCall`, `Reissue` and `Answer` are what can be made of a completion, each
after a possible compaction, whose summary can make the list one message longer; `ExecuteCall`, `Propose` and `EndTurn` are the
calls of a turn. `CompletionFails` covers the fallback and the error; `Cancel`
the disconnect. `records` is `turns_history`.

### ToolResultCache

`version` is the mtime of each file and stands for its content too, `cache`,
`mtimes` and `order` are the three structures of the class. A tool resolves a
relative path below the directory the request selected; the cache stats it below
the orchestrator's working directory, so the two are different functions of a
path (`FileIn`, `Stat`). `Miss`, `ToolReads` and `Store` are separate steps, for
the tool runs in a thread between lookup and store.

### McpRegistry

`memory` and `disk` are the two discovery caches, `routes` is `_tools` together
with `_tool_routes`; a namespaced name is a pair of server and tool, a plain one
has no server. The startup handler and every refresh are tasks that walk through
the configured servers: `AskServer` is the await in `discover_tools`,
`ListingReturns`, `ListingTimesOut` and `ListingFails` are what may follow it
(the server's own listing, the cache file, introspection of the module), and
`FinishWith` registers the answer and moves on. `running` keeps a task that has
not come to an await from being interrupted. An entry that is too old to be used
is removed by `EntryAges` or `FileAges`, which is what a lookup makes of it. A
run keeps the list of tools of its turn in `shown` and may call any of them at
every await.

### RateLimiter

One client key. `count` and `ttl` are its key in Redis, `bucket` the timestamps
a process without Redis keeps, `limiterLock` each process's `asyncio.Lock`,
`Callers` the requests and `Minute` the window in ticks. `Incr`,
`Expire` and `Decide` are the three awaits under the lock (INCR, EXPIRE by the
request that created the key, TTL and the comparison); `CheckLocal` is the whole
of `_check_local_fallback`, which has no await. `FailCheck` ends a request at any of
the awaits, with or without the INCR having reached Redis; `Restart` is a
process that starts again and finds Redis or not. `Tick` lets the key expire and
ages what is remembered. `ages` is a history variable: when Redis admitted.

### LlamaServer

`rd[r]` is the HTTP thread of call `r`: arriving (`Arrive`, `Enter` are
`wait_until_no_sleep`), tokenising, posting (`Post`), fetching results
(`Receive`), and closing its reader in the two halves of `stop()`
(`StopReading` inside `Receive` or `GiveUp`, then `PostCancels`). `queue`,
`deferred`, `waiting` and `results` are the fields of `server_queue` and
`server_response`; a section under one of the two mutexes is a step. `pc` is the
main thread. `NextEntry` with `Process*`, `Defer`, `Reply`, `Launch` and
`LaunchFails` is `start_loop` with `process_single_task`; `UpdateSlots`, `Join`,
`Skip`, `EndEarly`, `Decode*`, `Fail`, `SampleLast` and `SampleMore` are
`update_slots`, one slot at a time, because the HTTP threads run between the
results it sends. `Release` contains `pop_deferred_task`, which the code calls
from the slot's release callback. How long a prompt is, what fits a batch, which
slot resembles a prompt and when a model stops are open choices. A call posts one
parent with its children; a call with several inputs, which posts several
parents through one reader (`server-context.cpp:3107-3136`), is not modelled.

### ThreadPool

`pc[t]` is the next atomic operation of thread `t`; `then[t]` is where it goes
after the barrier. `Start`, `Kickoff`, `Pause`, `Resume`, `Free` and `Join` are
thread 0's, `Top` ... `CheckLocked` a worker's loop between graphs (polling, the
check under the mutex, sleeping), and `Begin` ... `Done` are
`ggml_graph_compute_thread` with `ggml_barrier` (`Enter`, `Add`, `Reset`,
`Pass`, `Spin`) and the chunks of `ggml_compute_forward_mul_mat` (`Convert`,
`Chunk`, `Claim`). `part` and `did` are history variables: which node's data a
thread's part of the work buffer holds, and which pieces were computed. The
atomics are sequentially consistent in the model; whether the fences around the
relaxed ones suffice is outside it.

### Hashline

`seen` is what the model was shown: the whole file or, with `head` or `tail`,
its first or last lines, always numbered from 1 (`Listings`). `script` is what it
made of it, `original` what `edit_file_hashline` read. `Valid` is the first phase, `ApplyAll` the second:
a stable sort by descending start line and slice assignments. `Meaning` is the
reference: every line of the original replaced by what the one edit that covers
it says.

### Conversations

A line of a JSONL file holds an entry or garbage, and ends with a newline or
not; `AddLine` glues what is appended to an unfinished line, as the file system
does. `Load` keeps the entries of the lines that parse (`Parsed`). `RecordTurn` is a transaction,
`AppendUser` and `AppendAssistant` are the two appends after it, and `Crash`
stops the server in between. `ForkRows` is the server's fork of the table,
`StartCopy`, `CopyEntry` and `OfferFork` the fork of the CLI, which is another
process.

## Runs

| run | instance | asks |
|---|---|---|
| `AgentRequests` | 3 requests (symmetric), 3 kinds of bodies, one conversation, 2 attempts | shared settings, lock, both stores, counters |
| `AgentRequestsLive` | 2 requests, fair | every accepted request leaves unless a run never ends |
| `ToolCalls` | 2 sessions, 2 runs, 2 calls, 2 attempts, an edit and a dangerous tool | consent, refusal, bounded effects, refinement; every call ends |
| `AgentLoop` | 4 turns, 2 calls per turn, window 4+2, one old turn | context, records, budgets, endings; the run returns |
| `ToolResultCache` | 2 directories, capacity 2, 3 changes | freshness, agreement of the three structures |
| `McpRegistry` | 3 servers (2 local, sharing a tool), 2 refreshes, 1 run, 2 attempts | complete registry, faithful names, readiness |
| `LlamaServer` | 2 slots, up to 3 calls in 4 mixes of jobs, 3 empty batches | tasks in one place, one answer each, results with readers; every request ends unless it is lost in a named way |
| `ThreadPool` | 3 threads, 2 graphs out of 2 shapes, pause, abort, free | quiet between graphs, order and completeness of the work; every graph returns |
| `RateLimiter` | 3 requests, 2 processes, limit 2, a minute of 2 ticks, failures | how far the limit can be exceeded; a refused client is admitted again |
| `Hashline` | files of up to 3 lines over 2 texts, scripts of up to 2 edits, 1 change | application and validation |
| `Conversations` | 2 conversations, 6 entries, 3 turns, 1 torn write | whole paths, cost of a torn write, forks |
| `ConversationsWindow` | the real numbers (10 and 200), 1 conversation | the latest turns are resumed, refuted |

A property named in a run is often a conjunction of parts the module states
above it: `Accounted` (one record per answered turn, both stores agree, the
counters add up), `ConsentFirst`, `EffectsAccounted`, `TurnsAccounted`,
`EndsForAReason`, `Complete`, `NamesAreFaithful`, `LogIntact`.

**Bounds and why they are enough.** Two requests suffice for every pair of
steps to interleave; the third makes the FIFO order of the lock, and a request
that starts after one that was cancelled and beside one that runs, possible. Two
calls make a reply late for the first and wrong for the second; two sessions let
the reply belong to another run. Four turns with two calls each outgrow the
reduced window and meet both limits; the window keeps the code's shape (a
threshold, a slack, a kept prefix) with small numbers, and compaction keeps
fewer messages than the window, as the real 10 and 40 do. A capacity of two is
the least at which eviction chooses. Two edits are enough for one to shift the
other; three lines let them be apart, adjacent, nested and at one line. Six
entries are three turns, so a path can branch after a failure and go on.
Two slots are the least at which a parent with a child competes with another
task and a batch holds two; the mixes are a completion beside one with two
choices, three calls that want the same slot, two of which do not keep it, two
that share a batch, and metrics beside a completion (`--parallel 1`, as Atri
starts the server, is the special case without children). `MaxEmpty` is the
code's 3. Three threads are the least at which one can leave the barrier, pass
another node and meet one that has not left yet, and at which a graph can use
fewer threads than the pool has; `ChunkFactor` is 1 where the code has 4, which
moves the threshold between a product split by chunks and one split by thread to
3 chunks, so both kinds fit; two graphs make a worker that overslept the first
meet the second. A limit of 2 and three requests let two be admitted and one be
refused; two ticks let a request fall between the ends of two windows; `count`
saturates at `Limit + 2`, since the code only compares it with the limit.
`MaxGraphs`, `MaxChanges`, `MaxTears`, `MaxEntries`, `MaxTurns` (of `Conversations`),
`MaxCalls`, `MaxRuns`, `MaxRequested` and `MaxTime` only bound the state space;
a state they cut off continues in the code.

**Symmetry** is used in `AgentRequests` alone: requests are interchangeable and
the run checks invariants only.

**Deadlock** is checked wherever the system should not stop: `AgentRequests`,
`ToolCalls` and `AgentLoop` have an explicit stuttering step for their regular
end. In `ToolResultCache`, `Hashline` and `Conversations` the bounds make the
model stop, so the check is off; in `McpRegistry` a failed start ends the
process, in `LlamaServer` the server is stopped, in `ThreadPool` the pool is
freed.

**Fairness.** `AgentRequests`: every await of an accepted request ends except
its run, the first and the repeated one, since database calls return or raise and `set_allowed_directory` has a
timeout. `ToolCalls`: only the timers and the retry fire; users, network, tools
and threads may stay silent for ever. `AgentLoop`: the loop's own code goes on
and a call that started ends, for every tool call has a timeout and a
confirmation waits 300 seconds at most. Nothing is assumed of the model server:
`llm_adapter.py:48` creates the HTTP client without a timeout and nobody reads
`LLM_TIMEOUT_SECONDS`, so a completion may never come. `EveryRequestEnds` and
`RunEnds` therefore except a request one of whose runs, and a run whose completion,
waits for ever. `LlamaServer`: the main thread goes on and so does every HTTP
thread once it was called; nobody has to call, hang up, fall asleep or stop.
`ThreadPool`: the operating system runs every thread and thread 0 finishes what
it began; the caller need not call again. `RateLimiter`: time passes, requests
go on and are repeated, and a request that waits for the lock gets it: the only
strong fairness in the project, justified by the FIFO queue of `asyncio.Lock`.

## What the runs show

What holds, and is easy to lose by a change:

- a request runs with its own limits, mode and model, and whatever way it ends,
  the start-up settings are back before the next one is admitted; a lock is
  never kept; the queue for confirmations is registered exactly during the run;
- an answered request is recorded once, in both stores in the same order, and
  seen by the next request of its conversation, unless that one's run is repeated
  after a `TypeError`, for then it is given no history; the counters add up (a request
  cancelled in the queue counts in neither success nor failure);
- a reply decides only the call it names, although stale replies stay in the
  shared queue; a refused call never has an effect; a call has at most as many
  effects as attempts;
- the context never outgrows its window at the time it is sent, and between two
  trims by no more than a turn's own messages; each turn has
  one record; the response, the status and the last record agree; each retry
  costs a turn, so a run returns if the model answers;
- for paths that the cache and the tool resolve alike, and with no write during
  a call, a hit is the file's content; every key can be evicted;
- overlapping refreshes leave a complete registry; a name shown to a model leads
  to the tool that was shown or nowhere, except that the plain name of a tool two
  servers share may change hands; a system that is up has initialised every
  server, so the backoff of `reconnect_server` is never reached;
- a task of the model server is in one place at a time and answered at most
  once, no result stays behind for a reader that is gone, and a posted request
  ends in every case but the ones named in `Served` (below);
- while the pool's fields are reset no worker is inside a graph, each piece of a
  node is computed once and before the next node starts, no wake-up is missed;
- in any minute Redis admits at most twice the limit, and asking while refused
  never makes a client wait longer;
- edits of disjoint ranges do what they say whatever their order, and one stale
  anchor refuses the whole script;
- crashes and failed writes never branch the session tree, and a torn write
  costs one more entry at most.

What the code does not do although it is said to: `ConversationsWindow` shows
that beyond 200 turns a conversation resumes with turns 191 to 200 for ever,
which is the very bug the comment above the query says was fixed.

Further disagreements were met on the way. Each is a property at the end of its
module, kept for whoever changes that code, with the configuration that replays
the counterexample; none is a run of its own, because it asks a smaller
question. Where the configuration has a star it is that of a run: its lines
after `SPECIFICATION` are replaced by `INVARIANT` and the property.

| configuration | property | what happens |
|---|---|---|
| `AgentRequestsSilent` | `NobodyWaitsForever` | a model server that accepts a request and stays silent keeps the run, and with the lock every later chat request, waiting for ever; the comment at `llm_adapter.py:48` leaves timeouts to the server and an agent budget that does not exist, `.wiki/agent-loop.md:30` documents `LLM_TIMEOUT_SECONDS` |
| `AgentRequestsSandbox` | `OwnSandbox` | a thread that outlived its cancelled request changes the directory of the next one; the comment at `api.py:350` says the lock prevents that |
| `AgentLoop`* | `PromptKept` | in a resumed conversation the trim keeps the oldest message of the history where it means the user's request (`agent_loop.py:549`) |
| `ToolResultCacheRuns` | `OwnDirectoryOnly` | the cache answers across runs and directories; `ARCHITECTURE.md:224` says otherwise |
| `LlamaServerDeferred` | `NoneLeftDeferred` | a released slot moves one deferred task; if that one is cancelled, refused or keeps no slot, the next stays deferred beside idle slots; `server-queue.h` says "defer until one slot is available" |
| `LlamaServerCancel` | `NobodyServedAfterCancel` | a CANCEL that is processed before the deferred task it withdraws is moved back to the queue finds nothing; the task runs for nobody |
| `LlamaServerOrphan` | `NoOrphans` | a child launched for a parent that ended early waits in its slot for a prompt that never comes, until its reader closes |
| `LlamaServerAbort` | `NeverAborts` | such slots make empty batches; the fourth in a row ends the whole server, with the message "fatal error" |
| `LlamaServerSleep` | `NobodyOversleeps` | a request finds the server awake, tokenises and posts its task after it fell asleep; only the next arrival wakes it (Atri does not switch sleeping on) |
| `RateLimiter`* | `PerMinute` | around the end of a fixed window twice `limit_per_minute` is admitted within a minute |
| `RateLimiter`* | `AlwaysExpires` | a request that ends between INCR and EXPIRE leaves a counter that never expires: the client is refused until the key is deleted |
| `AgentLoop`* | `ToolsAfterError` | after an error nudge the tools stay suppressed once one tool has run; the comment at `agent_loop.py:568` says they are offered again |
| `AgentLoop`* | `BudgetStopHasResponse` | at the turn limit the last message is never the assistant's, so the response is empty; `.wiki/agent-loop.md:17` promises the last one |
| `AgentLoop`* | `ReturnedNotRunning` | a run that returns for a plan or a review is stored with status "running" |
| `ToolCallsTimeout` | `TimeoutKills` | a timed-out tool runs on in its thread and may take effect later; `.wiki/configuration.md:40` calls the timeout a "hard kill" |
| `McpRegistry`* | `PlainOnlyWhenUnique` | the first server keeps the plain name of a shared tool; the comment at `tool_registry.py:96` says it is registered only when unique |
| `ToolResultCacheSize` | `SizeBounded` | a stale entry leaves its key in the access order; evicting that key evicts nothing and the cache exceeds its capacity |
| `ToolResultCacheWrites` | `InvalidatedOnWrites` | grep results survive writes; `invalidate` has no caller |
| `ToolResultCacheRace` | `HitsAreFresh` | the mtime is taken after the read: a write in between makes the old content valid |
| `HashlineTail` | `ListingIsSuitable` | `read_text_file` numbers a listing of the last lines from 1 (`mcp/main.py:449`): a script made from it is refused although nobody changed the file, or edits another line with the same text; `mcp/main.py:429` calls such listings "suitable for use with edit_file_hashline" |
| `HashlineInsert` | `EveryInsertionApplies` | an insertion before line n followed by a replacement of line n loses the insertion and keeps line n |
| `Conversations`* | `NothingLost` | an append after an unfinished line is lost although it returned |
| `ConversationsFork` | `ForkResumable` | the session id `/fork` prints is unknown to the resume endpoint |

Others were read off code that is not modelled, or below the models' level:

- `server-queue`: a `terminate` before `start_loop` is forgotten, because
  `start_loop` sets `running` again; a request that tokenises while the server
  falls asleep uses model pointers that sleeping releases.
- `server-context.cpp:2523`: when an image cannot be processed the slot is
  released and the loop goes on to read `slot.task`.
- `redis_rate_limit.py`: a key without a lifetime is reported as "retry after 1
  second"; `.wiki/auth.md:60` says that limits "require Redis", the code falls
  back to counting per process.
- `hooks.py:107` says a before hook that raises cancels the call; the handler at
  121 logs the exception and goes on. `permissions.py:4` ranks ask above allow;
  in `dontAsk` mode (78–82) an allow rule wins without the ask rules being read.
- `api.py:815`: memory mining, "after long sessions", starts after every request
  of a session that has become long.
- `index_manager.py`: the changes of a file that failed are committed with the
  next file (208), deleted files stay indexed, and byte offsets slice a string
  (155). Nothing in the product calls the indexer.

## Proofs

Each theorem holds for every value of the constants that the named assumptions
of the module allow (the types of the constants, that "nobody" is not somebody,
that limits are not zero); TLC evaluates the assumptions on each run. The
bounds in the guards are constants too, so nothing is proved of small instances
only.

| module | theorem | states |
|---|---|---|
| `AgentRequestsProofs` | `TypeCorrect` | `[]TypeOK` |
| | `MutualExclusion` | `[]LockDiscipline` |
| | `SettingsNeverLeak` | `[]OwnSettings` |
| | `AlwaysRestored` | `[](RestoresStartup /\ IdleIsPristine)` |
| | `ConfirmationWindow` | `[]ConfirmableWhileRunning` |
| | `BooksBalance` | `[]Accounted` |
| | `AnswersAreSeen` | `[]SeesAnsweredTurns` |
| | `LimitPerMinute` | `[]MinuteLimit` of `RateLimiter` |
| `ToolCallsProofs` | `TypeCorrect` | `[]TypeOK` |
| | `ConsentComesFirst` | `[]ConsentFirst` |
| | `EffectsAreAccounted` | `[]EffectsAccounted` |
| | `Refinement` | `ToolCalls` implements `ToolContract` |
| `AgentLoopProofs` | `TypeCorrect` | `[]TypeOK` |
| | `ContextStaysWellFormed` | `[]ContextWellFormed` |
| | `TurnsAreAccounted` | `[]TurnsAccounted` |
| | `RunsEndForAReason` | `[]EndsForAReason` |
| | `CacheTypeCorrect` | `[]CacheTypeOK` of `ToolResultCache` |
| | `NothingLeaks` | `[]EntriesEvictable` |
| | `FreshHits` | `[]HitsAreFresh`, if `~ConcurrentWriters` |
| `McpRegistryProofs` | `TypeCorrect` | `[]TypeOK` |
| | `EveryToolIsItsServers` | `[]OwnTools` |
| | `UpIsComplete` | `[]Complete` |
| | `NamesLeadWhereShown` | `[]NamesAreFaithful` |
| `ThreadPoolProofs` | `BetweenGraphs` | `[]Quiet`, with `TypeOK` |
| | `GraphsAreComputed` | `[]NodesInOrder` |
| `LlamaServerProofs` | `OnePlaceHolds` | `[]OnePlace`, with `TypeOK` |
| | `ResultsHaveReadersHolds` | `[]ResultsHaveReaders` |
| | `AnsweredOnceHolds` | `[]AnsweredOnce` |
| `HashlineProofs` | `HashlineType` | `[]TypeOK` |
| | `EditsDoWhatTheySay` | `[]DisjointEditsApply` |
| | `TargetsHold` | `[]TargetsAsSeen`, if no two texts have the same hash |
| | `AnchorsHold` | `[]AnchorsAsSeen`: the same of the hashes, for any hash |
| `ConversationsProofs` | `ConversationsType` | `[]TypeOK` |
| | `ForksAreSnapshots` | `[]ForkIsSnapshot` |
| | `LogStaysIntact` | `[]LogIntact` |

Every module has an inductive invariant (`IInv`; `CacheIInv`, `LimiterIInv`,
`HInv`, and `Rows /\ Snapshots /\ LogInv` of the conversations), a conjunction of
named parts that begins with the types, and a theorem that the specification
keeps it. `FreshHits` has a hypothesis because the property needs it: with
`ConcurrentWriters` the cache can return a stale result, as the configuration
`ToolResultCacheRace.cfg` shows. `TargetsHold` needs that the texts in use do not
collide under the four hex digits of the hash; `AnchorsHold` is what is left
without that.

*AgentRequests.* `IInv` adds the lock discipline, the two statements about
settings, and the two about the idle system and the confirmation queues. None
but the first two is inductive alone. That a request runs with its own settings
needs that they were the start-up settings when it acquired the lock
(`IdleIsPristine`), for a request without a turn limit inherits what it finds.
That they are back when it leaves needs that what it saved are the start-up
values (`RestoresStartup`), which again was true because the loop was idle. Both
need that nobody else is in between (`LockDiscipline`). The confirmation queue
is unregistered by key, and two requests can share a conversation, so it needs
mutual exclusion too. The proof classifies the steps (`StepKinds`: outside the
lock, acquire, inside, the body of the run, leaving, abandoned threads), states
for each kind what it does to the lock and the shared fields, and has for each
conjunct a lemma with one case per kind.

A second invariant, `Books`, inductive together with `IInv`, is about what the
requests leave behind. `Accounted` says how many rows a request has; that a
cancelled request never gets a second one needs that its abandoned thread has
not written yet (`Rows`: whoever is in `orphanTurns` was cancelled and has no
row), and that nobody else has a row at all. `StoresAgree` gives every user
message of a session tree a row of the table, in increasing order: a row that
an abandoned thread adds comes last and leaves the assignment as it is, and
`Finish` extends it by the row it adds itself. The counters need that the
requests in flight are finitely many, which holds although `Requests` may be
infinite: a step adds one at most (`Finitely`). `SeesAnsweredTurns` follows
from `Rows` at the moment the history is read (`BuildHistoryKeeps`: a row is
dropped only when as many turns are returned as may be), and stays true because
nobody is answered while another request is in the critical section
(`LockDiscipline`); a request that reads no history shares its conversation
with nobody (`OwnConversation`).

*ToolCalls.* What must be added is what the code knows only by its place in the
program: a call in progress is the latest one and was gated by the mode that
still holds (`CallInProgress`), what comes later has left no trace
(`Untouched`), a reply in flight says what its user said (`RepliesHonest`), and
a call that is executed has the consent it needed (`Consented`). That a call
which got a no is not executed, although silence is reported like a no, needs that
a call has one answer at most and only if its user was asked (`OneAnswer`).
`AttemptsCounted` adds up the effects and the threads abandoned by timeouts,
which bounds what a retried call can do. The refinement maps each action to a
step of the contract or a stutter under this invariant: a thread that outlives
its timeout is the contract's late effect.

*AgentLoop.* The context is a sequence of kinds of messages. `IInv` says that
the system prompt comes first and only there, that the last message is one the
model may answer, how the length is bounded while a turn is under way (`MessagesBounded`: two
messages and one per call that was taken up), that the
records of the turns are numbered without a gap, and which budget is left.
Lemmas about `LastN`, `Append` and concatenation carry the trims.

*ToolResultCache.* The order of use must hold no key twice (`NoRepeats`), or
`list.remove` and `pop(0)` would leave a key behind (`WithoutKeeps`); and a file
result is stored with the mtime of the very content that was read
(`EntriesMatchMtimes`).

*RateLimiter.* Of the requests Redis admitted in the last minute, those at the
front belong to one earlier window and are at least as old as the current one
(`Split`), so they are gone before a third window opens. That needs the
life of the key to be known (`KeyLifetime`), whatever fails between INCR and
EXPIRE. That the local bucket's filter keeps less as time goes on needs an
induction over the bucket; see below.

*McpRegistry.* Routes have the shape registration gives them
(`RoutesWellFormed`); what discovery remembers lies between what both of its
ways find and what either finds (`Remembered`); and a server whose tools are
missing lies ahead of a task still on its way, or could not be started
(`MissingIsAhead`), which is what makes the system complete when it is up.

*ThreadPool.* Between two barriers all threads of a graph are bound for the same
goal: to convert the work buffer, to compute a node, or to stop. `IInv` says
that there is such a goal and where each thread may be on its way (`Bound`),
what of it is done (`Work`: the parts of those who are ahead, every claimed
chunk computed or held by one thread, nothing of a later node), that the counter
of the barrier counts who has arrived (`BarrierCounts`, by the cardinality of a
set), and, when there is no goal, that all are on their way out (`Over`). A
thread that goes ahead to the next node, one that has not yet woken up for the
graph and one still spinning in the barrier before are cases of `Bound`. A step
of one thread keeps the goal (`KeepGoal`, `KeepWork`); only the last one at the
barrier, who finds all others there, makes a new one (`PassGoal`, `NewGoal`),
and with one thread there is no barrier and it does so on its own.

*LlamaServer.* `PlacedOnce` says with positions instead of cardinalities that a
task is in one place. The queues are cut by filters, heads, removals and
insertions, so the proof first describes what each leaves (`Thins`: the
remaining entries, in order, by an increasing function into the old positions)
and what that does to the places (`OnceThinned`, `OncePrepended`, ...). Every
step but `Post` is then a move: it takes tasks out of places or launches those
of a request that was held (`Moves`, `MovesPlace`). The answers need the places:
a task that has been answered is in none (`AnsweredIsGone`), so no second answer
can follow (`EndsLast`, `NothingAfterFinal`); the server waits for the tasks of
the open readers (`WaitingIsOpen`), so a result that is kept has a reader; and a
request that has not posted has left no trace (`NoTrace`), so what it posts is
in no other place. That a sleeping server has no slot at work needs that the
next pass is in the queue as long as one works (`Awake`), which no cancellation
removes; and that a visited slot works (`PassVisitsBusy`) is what makes a
released slot one that had a task.

*Hashline.* The state machine needs little: a script that is being applied was
valid for what was read, and an applied file is what the loop made of it
(`HInv`). The work is in the loop. `AfterRounds` is a function of the set of
edits that have been applied, and `Rest` one of the lines; both exist, and have
the values their equations say, by induction (`RoundsExist`, `RestExists`). The
claim about the loop is for the end of each line k: when the edits that start
after k have been applied, the content is the original up to k followed by
`Rest[k + 1]`, what the script says of the lines behind it (`Joined`). An edit
that comes next in the descending order replaces the end of the untouched part,
and its range ends before the range of any edit that was applied; that is where
disjointness is used. Nothing limits the number of edits or their order in the
script.

*Conversations.* Of the rows it must be known that ids grow: what is recorded
after a fork is a new id, so it is in neither of the two conversations
(`Snapshots`). Of the tree, that entries grow in every file (`Sound`) and that
what is about to be written is younger than what is there (`Copy`, `Above`), for
the CLI's copy, too, which writes old entries into a new file. Then the last
entry of a log is its latest leaf (`LastIsLeaf`), and the walk from a leaf to
the root, read line by line from the file, gives the log itself if each of its
entries is below the one before it (`ChainIsPath`, `ParsedAll`, `Whole`).
What torn writes cost is an account: `Costs` says that the lost entries and the
files that end in an unfinished line, counted together, are at most as many as
the torn writes. A torn write adds an unfinished line, which pays for the append
it swallows (`WritePays`). An entry that is lost twice, or an unfinished line
that swallows an entry that had returned already, is excluded by `Sound`.

The provers cannot instantiate the library's induction theorems, which take an
operator as a parameter. Some places need an induction over the numbers of an
interval all the same: the rate limiter's filter, the loop that skips nodes, the
filter of the model server's queues, its choice of the i-th idle slot, the loop
over the edits of a script, the lines of a file and the ancestors of an entry.
The modules derive from the first-order part of the library (well-foundedness
of finite sets) that a set of numbers has a least element (`Least`), and argue
by the least counterexample, or from it that a set that has 0 and with every
number the next one has them all (`Induction`).

Only model-checked are all liveness and fairness properties, which need
`ENABLED`, and the runs that refute a statement of the documentation. Every
invariant of a passing run is proved.

## Not modelled, and why

- The code index is not called by the product; permission rules and hooks are
  functions of their arguments, and the modes that matter are in `ToolCalls`;
  memory mining has no await between its check and its rename.
  `reconnect_server` is not modelled: `NothingToReconnect` shows that it changes
  nothing.
- The individual MCP tools, the service manager and the scripts are single
  system calls and process control; the frontend and the rest of the CLI are
  display.
- Authentication, configuration, prompts, model routing heuristics, parsing of
  model output and tracing are pure functions on text.
- Of llama.cpp, 2314 of the repository's 2466 files, the two parts that
  coordinate threads are modelled. The rest computes: tensor kernels for each
  device, quantisation tables, generated Unicode data, model loading. It has no
  states that interleave, and its correctness is numerical. This is why the
  modelled lines are a small share of all lines in the repository, although
  they are most of the stateful code of Atri itself.
- The thread pool with OpenMP, and memory orders weaker than sequential
  consistency.
- Within the modelled parts: texts, prompts, token counts, event formats and
  logging. Of a hash only that equal lines have equal hashes and the modelled
  lines do not collide.

## Plan

1. Done: `AgentRequests` with proofs, `ToolCalls` refining `ToolContract`,
   `AgentLoop`, `ToolResultCache`, `McpRegistry`, `Hashline`, `Conversations`,
   `RateLimiter`, `LlamaServer`, `ThreadPool`.
2. Proofs. Done: every safety invariant of a passing run, and the refinement of
   `ToolContract`. Left: the liveness properties, which stay with TLC.
3. A composition of `AgentRequests` with `ToolCalls`, in which `StartRun` and
   `EndRun` are the steps of the requests, to discharge the assumption that one
   run executes at a time.

## Running

    tlc -config AgentRequests.cfg MCAgentRequests     # likewise the others
    tlapm AgentRequestsProofs.tla                     # and the other *Proofs modules
