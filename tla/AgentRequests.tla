---------------------------- MODULE AgentRequests ----------------------------
(***************************************************************************)
(* The life of a /chat request in services/orchestrator/api.py.            *)
(*                                                                         *)
(* One AgentLoop object, one ModelRouter and one MCP allowed directory     *)
(* serve every request.  _run_agent_request takes _agent_request_lock,     *)
(* overwrites those shared fields with what its own request asked for,     *)
(* runs the loop, records the turn and restores the fields in a finally    *)
(* block.  Requests are coroutines of one event loop, so the code between  *)
(* two awaits is one step here; what asyncio.to_thread started keeps       *)
(* running when its coroutine is cancelled or times out ("orphans").       *)
(***************************************************************************)
EXTENDS ChatHistory, FiniteSets

CONSTANTS
    Requests,       \* the requests clients send
    Conversations,  \* conversation ids a client can resume
    NoConv,         \* the request carries no conversation_id
    Modes,          \* permission modes
    Models,         \* models ModelRouter discovered
    NoModel,        \* no override
    UnknownModel,   \* an override that names no discovered model
    Dirs,           \* directories a request can select
    Params,         \* the request bodies that are considered
    NoReq,          \* nobody holds the lock
    DefaultTurns,   \* AgentLoop.max_turns as configured at startup
    DefaultMode,    \* AgentLoop.permission_mode as constructed at startup
    MaxAttempts     \* execute_tool's max_retries

Key == Conversations \cup Requests

LoopFields == [turns : Nat, mode : Modes]

Bodies == [conv : Conversations \cup {NoConv},  \* conversation_id
           turns : Nat,                         \* max_turns, 0 when absent
           mode : Modes,                        \* permission_mode
           model : Models \cup {NoModel, UnknownModel},  \* model_override
           dir : Dirs]                          \* allowed_directory or the default

ASSUME RequestsAssumption ==
    /\ NoReq \notin Requests
    /\ NoConv \notin Conversations
    /\ Conversations \cap Requests = {}
ASSUME DefaultsAssumption ==
    /\ DefaultTurns \in Nat
    /\ DefaultMode \in Modes
    /\ MaxAttempts \in Nat \ {0}
ASSUME ModelsAssumption == NoModel \notin Models /\ UnknownModel \notin Models
ASSUME ParamsAssumption == Params \subseteq Bodies

VARIABLES
    pc,           \* where each request's coroutine is
    ask,          \* the body of each request
    lock,         \* holder of _agent_request_lock
    waiters,      \* FIFO of coroutines waiting for the lock
    loop,         \* the AgentLoop singleton's max_turns and permission_mode
    saved,        \* original_max_turns and original_permission_mode of each request
    override,     \* ModelRouter._override
    applied,      \* _model_override_applied of each request
    sandbox,      \* the MCP server's single allowed directory
    attempt,      \* attempt number of the set_allowed_directory call
    orphanDirs,   \* abandoned set_allowed_directory threads of each request
    confirmable,  \* keys of _active_confirmation_queues
    history,      \* the recorded turns each request's run() is given as prior messages
    turns,        \* the turns table: requests recorded per conversation, by id
    orphanTurns,  \* requests whose record_turn thread was abandoned
    tree,         \* the JSONL session tree, per conversation
    counters      \* chat_requests_total, _succeeded, _failed

requestVars == <<ask, saved, applied, attempt, history>>
singletons  == <<loop, override, sandbox, confirmable>>
stores      == <<turns, tree>>
orphans     == <<orphanDirs, orphanTurns>>
vars == <<pc, ask, lock, waiters, loop, saved, override, applied, sandbox, attempt,
          orphanDirs, confirmable, history, turns, orphanTurns, tree, counters>>

Critical == {"history", "sandbox", "running", "rerunning", "recording"}
Running == {"running", "rerunning"}
Ended == {"done", "failed", "cancelled", "dropped"}
Places == {"idle", "ensuring", "waiting"} \cup Critical \cup Ended

KeyOf(r) == IF ask[r].conv = NoConv THEN r ELSE ask[r].conv

Counters == {"total", "succeeded", "failed"}

Goto(r, place) == pc' = [pc EXCEPT ![r] = place]

Init ==
    /\ pc = [r \in Requests |-> "idle"]
    /\ ask \in [Requests -> Params]
    /\ lock = NoReq
    /\ waiters = <<>>
    /\ loop = [turns |-> DefaultTurns, mode |-> DefaultMode]
    /\ saved = [r \in Requests |-> loop]
    /\ override = NoModel
    /\ applied = [r \in Requests |-> FALSE]
    /\ sandbox \in Dirs
    /\ attempt = [r \in Requests |-> 0]
    /\ orphanDirs = [r \in Requests |-> 0]
    /\ confirmable = {}
    /\ history = [r \in Requests |-> <<>>]
    /\ turns = [k \in Key |-> <<>>]
    /\ orphanTurns = {}
    /\ tree = [k \in Key |-> <<>>]
    /\ counters = [c \in Counters |-> 0]

-----------------------------------------------------------------------------
(* Before the lock.                                                        *)

\* chat or chat_stream accepts the request and counts it.  Either the prompt
\* profile is refused, or _run_agent_request starts with ensure_conversation.
Submit(r) ==
    /\ pc[r] = "idle"
    /\ counters' = [counters EXCEPT !["total"] = @ + 1]
    /\ Goto(r, "ensuring") \/ Goto(r, "dropped")
    /\ UNCHANGED <<requestVars, singletons, stores, orphans, lock, waiters>>

\* The conversation row exists; the coroutine queues on the lock.
EnsureConversation(r) ==
    /\ pc[r] = "ensuring"
    /\ Goto(r, "waiting")
    /\ waiters' = Append(waiters, r)
    /\ UNCHANGED <<requestVars, singletons, stores, orphans, lock, counters>>

\* ensure_conversation raises, or the request is cancelled before it has the
\* lock: the try block is not entered, nothing is counted as failed.
LeaveEarly(r) ==
    /\ \/ pc[r] = "ensuring" /\ UNCHANGED waiters
       \/ /\ pc[r] = "waiting"
          /\ \E i \in DOMAIN waiters :
                /\ waiters[i] = r
                /\ waiters' = SubSeq(waiters, 1, i - 1) \o SubSeq(waiters, i + 1, Len(waiters))
    /\ Goto(r, "dropped")
    /\ UNCHANGED <<requestVars, singletons, stores, orphans, lock, counters>>

-----------------------------------------------------------------------------
(* The critical section.                                                   *)

MayEnterAnyTime(r) == waiters # <<>> /\ Head(waiters) = r   \* mutant: no lock

\* The lock is free and r is the first coroutine that waits for it.
MayEnter(r) == lock = NoReq /\ waiters # <<>> /\ Head(waiters) = r

\* What the singleton holds while r runs: max_turns only when truthy.
Effective(r, old) ==
    [turns |-> IF ask[r].turns # 0 THEN ask[r].turns ELSE old.turns,
     mode |-> ask[r].mode]

\* First await inside the critical section: the history read of a resumed
\* conversation, or at once the worker thread of set_allowed_directory.
FirstAwait(r) ==
    IF ask[r].conv # NoConv
    THEN Goto(r, "history") /\ UNCHANGED attempt
    ELSE Goto(r, "sandbox") /\ attempt' = [attempt EXCEPT ![r] = 1]

Acquire(r) ==
    /\ pc[r] = "waiting"
    /\ MayEnter(r)
    /\ lock' = r
    /\ waiters' = Tail(waiters)
    /\ saved' = [saved EXCEPT ![r] = loop]
    /\ loop' = Effective(r, loop)
    /\ applied' = [applied EXCEPT ![r] = ask[r].model \in Models]
    /\ override' = IF ask[r].model \in Models THEN ask[r].model ELSE override
    /\ FirstAwait(r)
    /\ UNCHANGED <<ask, history, sandbox, confirmable, stores, orphans, counters>>

ReadHistory(r) ==
    /\ pc[r] = "history"
    /\ history' = [history EXCEPT ![r] = BuildHistory(turns[KeyOf(r)])]
    /\ Goto(r, "sandbox")
    /\ attempt' = [attempt EXCEPT ![r] = 1]
    /\ UNCHANGED <<ask, saved, applied, singletons, stores, orphans, lock, waiters, counters>>

\* mutant: attempts are not counted
RetrySandboxForever(r) ==
    /\ pc[r] = "sandbox"
    /\ attempt[r] <= MaxAttempts
    /\ attempt' = [attempt EXCEPT ![r] = @ + 1]
    /\ orphanDirs' = [orphanDirs EXCEPT ![r] = @ + 1]
    /\ UNCHANGED <<pc, ask, saved, applied, history, singletons, stores, orphanTurns,
                   lock, waiters, counters>>

\* wait_for gives up on the worker thread, which keeps running, and
\* execute_tool makes another attempt.
RetrySandbox(r) ==
    /\ pc[r] = "sandbox"
    /\ attempt[r] < MaxAttempts
    /\ attempt' = [attempt EXCEPT ![r] = @ + 1]
    /\ orphanDirs' = [orphanDirs EXCEPT ![r] = @ + 1]
    /\ UNCHANGED <<pc, ask, saved, applied, history, singletons, stores, orphanTurns,
                   lock, waiters, counters>>

\* The worker thread has set the directory; the confirmation queue becomes
\* reachable under this conversation and the loop starts.
SetSandbox(r) ==
    /\ pc[r] = "sandbox"
    /\ sandbox' = ask[r].dir
    /\ confirmable' = confirmable \cup {KeyOf(r)}
    /\ Goto(r, "running")
    /\ UNCHANGED <<requestVars, loop, override, stores, orphans, lock, waiters, counters>>

\* run() raised a TypeError: the except clause calls run() a second time, with
\* no prior_messages (and no event_callback).
RunAgain(r) ==
    /\ pc[r] = "running"
    /\ history' = [history EXCEPT ![r] = <<>>]
    /\ Goto(r, "rerunning")
    /\ UNCHANGED <<ask, saved, applied, attempt, singletons, stores, orphans, lock, waiters,
                   counters>>

UnregisterOnReturn(r) ==   \* mutant: the pop is skipped when the rerun was needed
    confirmable' = IF pc[r] = "running" THEN confirmable \ {KeyOf(r)} ELSE confirmable

\* The inner finally block: only a request inside run() registered its queue.
Unregister(r) ==
    confirmable' = IF pc[r] \in Running THEN confirmable \ {KeyOf(r)} ELSE confirmable

\* run() returned; record_turn starts.
LoopReturns(r) ==
    /\ pc[r] \in Running
    /\ Unregister(r)
    /\ Goto(r, "recording")
    /\ UNCHANGED <<requestVars, loop, override, sandbox, stores, orphans, lock, waiters, counters>>

-----------------------------------------------------------------------------
(* Leaving the critical section.                                           *)

ReleaseKeepingOverride(r) ==   \* mutant: clear_override is forgotten
    /\ loop' = saved[r] /\ lock' = NoReq
    /\ UNCHANGED override
ReleaseFieldsOnly(r) ==        \* mutant: release() is missing from the finally block
    /\ loop' = saved[r]
    /\ override' = IF applied[r] THEN NoModel ELSE override
    /\ UNCHANGED lock

\* The outer finally block.
Release(r) ==
    /\ loop' = saved[r]
    /\ override' = IF applied[r] THEN NoModel ELSE override
    /\ lock' = NoReq

\* record_turn's single transaction, then the two appends to the session tree
\* (a failing write is only logged), the counters and the finally block, with
\* no await in between.
TreeEntries(r) ==
    {<<>>,
     <<[req |-> r, role |-> "user"]>>,
     <<[req |-> r, role |-> "user"], [req |-> r, role |-> "assistant"]>>}

\* mutant: the turn is recorded by a background task, like memory mining
FinishInBackground(r) ==
    /\ pc[r] = "recording"
    /\ orphanTurns' = orphanTurns \cup {r}
    /\ \E es \in TreeEntries(r) : tree' = [tree EXCEPT ![KeyOf(r)] = @ \o es]
    /\ counters' = [counters EXCEPT !["succeeded"] = @ + 1]
    /\ Release(r)
    /\ Goto(r, "done")
    /\ UNCHANGED <<requestVars, sandbox, confirmable, turns, orphanDirs, waiters>>

Finish(r) ==
    /\ pc[r] = "recording"
    /\ turns' = [turns EXCEPT ![KeyOf(r)] = Append(@, r)]
    /\ \E es \in TreeEntries(r) : tree' = [tree EXCEPT ![KeyOf(r)] = @ \o es]
    /\ counters' = [counters EXCEPT !["succeeded"] = @ + 1]
    /\ Release(r)
    /\ Goto(r, "done")
    /\ UNCHANGED <<requestVars, sandbox, confirmable, orphans, waiters>>

CountFailureTwice == counters' = [counters EXCEPT !["failed"] = @ + 2]   \* mutant
CountFailure == counters' = [counters EXCEPT !["failed"] = @ + 1]

\* Worker threads r leaves behind when its await is cancelled (always) or
\* times out (the last attempt at set_allowed_directory).
AbandonDir(r) ==
    IF pc[r] = "sandbox" THEN [orphanDirs EXCEPT ![r] = @ + 1] ELSE orphanDirs
AbandonTurn(r) ==
    IF pc[r] = "recording" THEN orphanTurns \cup {r} ELSE orphanTurns

\* An await of the critical section raises: a database error, a refused
\* directory, the last timeout of set_allowed_directory, an error of run().
Fail(r) ==
    /\ pc[r] \in Critical
    /\ \/ UNCHANGED orphanDirs
       \/ attempt[r] = MaxAttempts /\ orphanDirs' = AbandonDir(r)
    /\ Unregister(r)
    /\ CountFailure
    /\ Release(r)
    /\ Goto(r, "failed")
    /\ UNCHANGED <<requestVars, sandbox, stores, orphanTurns, waiters>>

\* The streaming client disconnects: CancelledError at the current await.
Cancel(r) ==
    /\ pc[r] \in Critical
    /\ orphanDirs' = AbandonDir(r)
    /\ orphanTurns' = AbandonTurn(r)
    /\ Unregister(r)
    /\ CountFailure
    /\ Release(r)
    /\ Goto(r, "cancelled")
    /\ UNCHANGED <<requestVars, sandbox, stores, waiters>>

-----------------------------------------------------------------------------
(* Threads that outlive their await; each takes effect or gives up.         *)

OrphanSetsDir(r) ==
    /\ orphanDirs[r] > 0
    /\ orphanDirs' = [orphanDirs EXCEPT ![r] = @ - 1]
    /\ sandbox' \in {sandbox, ask[r].dir}
    /\ UNCHANGED <<pc, requestVars, loop, override, confirmable, stores, orphanTurns,
                   lock, waiters, counters>>

OrphanRecords(r) ==
    /\ r \in orphanTurns
    /\ orphanTurns' = orphanTurns \ {r}
    /\ turns' \in {turns, [turns EXCEPT ![KeyOf(r)] = Append(@, r)]}
    /\ UNCHANGED <<pc, requestVars, singletons, tree, orphanDirs, lock, waiters, counters>>

\* Everything is over: no request and no thread is left.
Quiescent ==
    /\ \A r \in Requests : pc[r] \in Ended /\ orphanDirs[r] = 0
    /\ orphanTurns = {}
    /\ UNCHANGED vars

-----------------------------------------------------------------------------
Advance(r) ==
    \/ EnsureConversation(r) \/ Acquire(r) \/ ReadHistory(r) \/ SetSandbox(r)
    \/ LoopReturns(r) \/ Finish(r) \/ Fail(r)

Step(r) ==
    \/ Submit(r) \/ LeaveEarly(r) \/ Advance(r)
    \/ RetrySandbox(r) \/ RunAgain(r) \/ Cancel(r)
    \/ OrphanSetsDir(r) \/ OrphanRecords(r)

Next == (\E r \in Requests : Step(r)) \/ Quiescent

Spec == Init /\ [][Next]_vars

\* Every await of an accepted request ends, except for a run, the first or the
\* repeated one: database calls return or raise (SQLite gives up after 5 s) and
\* set_allowed_directory has a timeout.  A run ends when the model answers, and
\* the HTTP client is created with timeout=None, so nothing is assumed of it,
\* nor of clients and abandoned threads.
FairSpec == Spec /\ \A r \in Requests : WF_vars(pc[r] \notin Running /\ Advance(r))

-----------------------------------------------------------------------------
(* Properties.                                                             *)

TreeEntry == [req : Requests, role : {"user", "assistant"}]

ControlType ==
    /\ pc \in [Requests -> Places]
    /\ ask \in [Requests -> Bodies]
    /\ lock \in Requests \cup {NoReq}
    /\ waiters \in Seq(Requests)
    /\ attempt \in [Requests -> 0..MaxAttempts]
    /\ counters \in [Counters -> Nat]

SettingsType ==
    /\ loop \in LoopFields
    /\ saved \in [Requests -> LoopFields]
    /\ override \in Models \cup {NoModel}
    /\ applied \in [Requests -> BOOLEAN]
    /\ sandbox \in Dirs
    /\ confirmable \subseteq Key

StoresType ==
    /\ history \in [Requests -> Seq(Requests)]
    /\ turns \in [Key -> Seq(Requests)]
    /\ tree \in [Key -> Seq(TreeEntry)]
    /\ orphanDirs \in [Requests -> Nat]
    /\ orphanTurns \subseteq Requests

\* Every variable keeps its type; the attempts at set_allowed_directory stay
\* within execute_tool's max_retries.
TypeOK == ControlType /\ SettingsType /\ StoresType

\* A request that is anywhere between the acquire and the finally block of
\* _run_agent_request is the one that holds the lock, and nobody else is.
LockDiscipline == \A r \in Requests : pc[r] \in Critical <=> lock = r

\* While a request executes, the loop singleton has the turn limit and the
\* permission mode, and the router the model, that this request resolves to:
\* its own where given, the startup values where not, never another's.
OwnSettings ==
    \A r \in Requests : pc[r] \in Critical =>
        /\ loop.turns = IF ask[r].turns # 0 THEN ask[r].turns ELSE DefaultTurns
        /\ loop.mode = ask[r].mode
        /\ override = IF ask[r].model \in Models THEN ask[r].model ELSE NoModel

\* What a request will restore in its finally block is the startup
\* configuration, never the values of a request that ran before or beside it.
RestoresStartup ==
    \A r \in Requests : pc[r] \in Critical =>
        /\ saved[r] = [turns |-> DefaultTurns, mode |-> DefaultMode]
        /\ applied[r] = (ask[r].model \in Models)

\* Whatever way the last request left (answer, error or cancellation), an idle
\* orchestrator is back at its startup settings and offers no confirmation.
IdleIsPristine ==
    lock = NoReq =>
        /\ loop = [turns |-> DefaultTurns, mode |-> DefaultMode]
        /\ override = NoModel
        /\ confirmable = {}

\* POST /confirm/{session} finds a queue exactly while a run() of that
\* conversation executes; otherwise it answers 404.
ConfirmableWhileRunning ==
    confirmable = {KeyOf(r) : r \in {q \in Requests : pc[q] \in Running}}

Occurrences(s, r) == Cardinality({i \in DOMAIN s : s[i] = r})
InSeq(s, r) == \E i \in DOMAIN s : s[i] = r

\* The run of a resumed request works from a history that contains the turn of
\* every request of its conversation that was answered before it got the lock,
\* as long as the history has room for it.  A run that is repeated after a
\* TypeError works from none.
SeesAnsweredTurns ==
    \A r, q \in Requests :
        (/\ pc[r] \in {"sandbox", "running"}
         /\ pc[q] = "done"
         /\ KeyOf(q) = KeyOf(r))
            => InSeq(history[r], q) \/ Len(history[r]) = HistoryTurns

\* An answered request has exactly one row in turns, one that ended with an
\* error has none, and a cancelled one (its thread may still commit) at most one.
RecordedOnce ==
    \A r \in Requests :
        LET n == Occurrences(turns[KeyOf(r)], r)
        IN  CASE pc[r] = "done" -> n = 1
              [] pc[r] = "cancelled" -> n <= 1
              [] OTHER -> n = 0

\* The append-only session tree and the turns table, written one after the
\* other by different means, agree: the tree has only turns the table has, in
\* the same order, although abandoned threads add rows at any time.
StoresAgree ==
    \A k \in Key :
        LET said == {i \in DOMAIN tree[k] : tree[k][i].role = "user"}
        IN  \E row \in [said -> DOMAIN turns[k]] :
               /\ \A i \in said : turns[k][row[i]] = tree[k][i].req
               /\ \A i, j \in said : i < j => row[i] < row[j]

\* The counters of /metrics add up: a counted request succeeded, failed, is
\* still in flight, or left before it had the lock.
CountersAddUp ==
    counters["total"] = counters["succeeded"] + counters["failed"]
        + Cardinality({r \in Requests : pc[r] \notin Ended \cup {"idle"}})
        + Cardinality({r \in Requests : pc[r] = "dropped"})

\* Whatever way a request leaves, rows, session tree and counters tell the same
\* story of it.
Accounted == RecordedOnce /\ StoresAgree /\ CountersAddUp

\* What the comment on _agent_request_lock says of the sandbox: while a
\* request executes tools, the allowed directory is the one it selected.
OwnSandbox ==
    \A r \in Requests : pc[r] \in Running => sandbox = ask[r].dir

\* Every accepted request leaves the system unless the run of one never ends,
\* also when requests ahead of it fail or are cancelled in the middle: the lock
\* is handed on.
EveryRequestEnds ==
    (\A q \in Requests : []<>(pc[q] \notin Running))
       => \A r \in Requests : pc[r] = "ensuring" ~> pc[r] \in Ended

\* "per-request timeouts handled by llama-server / agent budget"
\* (llm_adapter.py:48): a model that stays silent holds nobody up for ever.
NobodyWaitsForever == \A r \in Requests : pc[r] = "ensuring" ~> pc[r] \in Ended
=============================================================================
