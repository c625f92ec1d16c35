------------------------------- MODULE ToolCalls -------------------------------
(***************************************************************************)
(* The tool calls of the agent loop: permission gating, the confirmation   *)
(* round trip through POST /confirm/{session_id}, and execute_tool with    *)
(* its timeouts and retries.                                               *)
(*                                                                         *)
(* One run() executes at a time (AgentRequests shows it) and one call of   *)
(* it at a time.  Two things outlive a call: replies of the CLI that come  *)
(* too late, for confirmation_queue is one queue for all runs, and worker  *)
(* threads, for a timeout abandons a thread and cannot stop it.            *)
(***************************************************************************)
EXTENDS Naturals, Sequences, FiniteSets

CONSTANTS
    Sessions,        \* CLI sessions, each with a conversation of its own
    NoSession,       \* no run() executes
    Tools,           \* tools the model calls; their results are not cached
    EditTools,       \* _EDIT_TOOLS
    DangerousTools,  \* _DANGEROUS_TOOLS
    MaxCalls,        \* bound: calls the model makes
    MaxRuns,         \* bound: runs
    MaxAttempts      \* execute_tool's max_retries

Modes == {"default", "acceptEdits", "bypassPermissions"}
Calls == 1..MaxCalls

ASSUME NoSessionAssumption == NoSession \notin Sessions
ASSUME BoundsAssumption ==
    MaxCalls \in Nat /\ MaxRuns \in Nat /\ MaxAttempts \in Nat \ {0}

VARIABLES
    active,    \* the session whose run() executes
    mode,      \* AgentLoop.permission_mode during that run
    runs,      \* runs started
    pc,        \* where run() is
    last,      \* the latest tool call; its confirmation id is fresh
    call,      \* what the model called: session and tool
    attempt,   \* attempt number of execute_tool
    outcome,   \* what the loop told the model of each call, or how it was cut off
    threads,   \* abandoned worker threads of each call
    effects,   \* how often each call was applied
    queue,     \* AgentLoop.confirmation_queue
    prompts,   \* calls a CLI shows its user a prompt for
    mail,      \* replies a CLI has posted
    trusted,   \* always_allow_tools of each CLI session
    allowed,   \* calls the user, or always_allow_tools, said yes to
    declined   \* calls the user said no to

runVars    == <<active, mode, runs>>
clientVars == <<prompts, mail, trusted, allowed, declined>>
toolVars   == <<threads, effects>>
vars == <<active, mode, runs, pc, last, call, attempt, outcome, threads, effects,
          queue, prompts, mail, trusted, allowed, declined>>

Outcomes == {"none", "ok", "error", "timeout", "rejected", "denied", "withdrawn",
             "cancelled"}
Reply == [id : Calls, approved : BOOLEAN]
CallRecords == [session : Sessions, tool : Tools, asked : BOOLEAN]

Init ==
    /\ active = NoSession
    /\ mode \in Modes
    /\ runs = 0
    /\ pc = "model"
    /\ last = 0
    /\ call = [c \in Calls |-> <<>>]
    /\ attempt = 0
    /\ outcome = [c \in Calls |-> "none"]
    /\ threads = [c \in Calls |-> 0]
    /\ effects = [c \in Calls |-> 0]
    /\ queue = <<>>
    /\ prompts = {}
    /\ mail = {}
    /\ trusted = [s \in Sessions |-> {}]
    /\ allowed = {}
    /\ declined = {}

-----------------------------------------------------------------------------
(* Runs.                                                                   *)

\* _run_agent_request registers the queue under the session and calls run().
StartRun(s) ==
    /\ active = NoSession
    /\ runs < MaxRuns
    /\ active' = s
    /\ mode' \in Modes
    /\ runs' = runs + 1
    /\ UNCHANGED <<pc, last, call, attempt, outcome, toolVars, queue, clientVars>>

\* run() returns and its queue is unregistered; what is in the queue stays.
EndRun ==
    /\ active # NoSession
    /\ pc = "model"
    /\ active' = NoSession
    /\ UNCHANGED <<mode, runs, pc, last, call, attempt, outcome, toolVars, queue, clientVars>>

\* The loop goes on, with something to tell the model about the latest call.
Report(result) ==
    /\ outcome' = [outcome EXCEPT ![last] = result]
    /\ pc' = "model"

\* The client disconnects in the middle of a call: CancelledError at the await.
CancelCall ==
    /\ pc # "model"
    /\ active' = NoSession
    /\ threads' = IF pc = "calling" THEN [threads EXCEPT ![last] = @ + 1] ELSE threads
    /\ Report(IF pc = "confirming" THEN "withdrawn" ELSE "cancelled")
    /\ UNCHANGED <<mode, runs, last, call, attempt, effects, queue, clientVars>>

-----------------------------------------------------------------------------
(* Gating.                                                                 *)

\* mutant: acceptEdits accepts whatever default would have asked about
RequiresInDefaultOnly(t) ==
    mode = "default" /\ t \in DangerousTools \cup EditTools

\* _tool_requires_confirmation
Requires(t) ==
    /\ mode # "bypassPermissions"
    /\ t \in DangerousTools \/ (mode # "acceptEdits" /\ t \in EditTools)

NewCall(t) ==
    /\ active # NoSession
    /\ pc = "model"
    /\ last < MaxCalls
    /\ last' = last + 1
    /\ call' = [call EXCEPT ![last + 1] = [session |-> active, tool |-> t, asked |-> Requires(t)]]

\* Validation, an unknown tool or a before-hook ends the call before the gate.
RejectCall(t) ==
    /\ NewCall(t)
    /\ outcome' = [outcome EXCEPT ![last + 1] = "rejected"]
    /\ UNCHANGED <<runVars, pc, attempt, toolVars, queue, clientVars>>

\* tool_confirmation_requested is emitted and _await_confirmation waits.
AskUser(t) ==
    /\ NewCall(t)
    /\ Requires(t)
    /\ pc' = "confirming"
    /\ prompts' = prompts \cup {last + 1}
    /\ UNCHANGED <<runVars, attempt, outcome, toolVars, queue, mail, trusted, allowed, declined>>

\* No confirmation is needed: execute_tool makes its first attempt.
CallTool(t) ==
    /\ NewCall(t)
    /\ ~Requires(t)
    /\ pc' = "calling"
    /\ attempt' = 1
    /\ UNCHANGED <<runVars, outcome, toolVars, queue, clientVars>>

-----------------------------------------------------------------------------
(* The confirmation round trip.                                            *)

\* The CLI asks its user, or remembers "always" for this tool, and posts the
\* decision; it handles the events of its stream in order.
Answer(c) ==
    /\ c \in prompts
    /\ \A d \in prompts : call[d].session = call[c].session => c <= d
    /\ LET s == call[c].session  t == call[c].tool
       IN \/ /\ t \in trusted[s]
             /\ mail' = mail \cup {[id |-> c, approved |-> TRUE]}
             /\ allowed' = allowed \cup {c}
             /\ UNCHANGED <<trusted, declined>>
          \/ /\ t \notin trusted[s]
             /\ mail' = mail \cup {[id |-> c, approved |-> TRUE]}
             /\ allowed' = allowed \cup {c}
             /\ trusted' \in {trusted, [trusted EXCEPT ![s] = @ \cup {t}]}
             /\ UNCHANGED declined
          \/ /\ t \notin trusted[s]
             /\ mail' = mail \cup {[id |-> c, approved |-> FALSE]}
             /\ declined' = declined \cup {c}
             /\ UNCHANGED <<trusted, allowed>>
    /\ prompts' = prompts \ {c}
    /\ UNCHANGED <<runVars, pc, last, call, attempt, outcome, toolVars, queue>>

\* POST /confirm/{session_id}: 404 unless a run of this session executes.
Deliver(m) ==
    /\ m \in mail
    /\ mail' = mail \ {m}
    /\ queue' = IF active = call[m.id].session THEN Append(queue, m) ELSE queue
    /\ UNCHANGED <<runVars, pc, last, call, attempt, outcome, toolVars, prompts, trusted,
                   allowed, declined>>

\* The POST fails on its way.
Lose(m) ==
    /\ m \in mail
    /\ mail' = mail \ {m}
    /\ UNCHANGED <<runVars, pc, last, call, attempt, outcome, toolVars, queue, prompts,
                   trusted, allowed, declined>>

MineWhoever(m) == TRUE   \* mutant: the request_id of the reply is not compared

\* Is this the reply _await_confirmation waits for?
Mine(m) == m.id = last

TakeReply ==
    /\ pc = "confirming"
    /\ queue # <<>>
    /\ queue' = Tail(queue)
    /\ LET reply == Head(queue)
       IN \/ ~Mine(reply) /\ UNCHANGED <<pc, attempt, outcome>>
          \/ Mine(reply) /\ reply.approved /\ pc' = "calling" /\ attempt' = 1 /\ UNCHANGED outcome
          \/ Mine(reply) /\ ~reply.approved /\ Report("denied") /\ UNCHANGED attempt
    /\ UNCHANGED <<runVars, last, call, toolVars, clientVars>>

\* mutant: the denial is reported, but the loop does not skip the call
ConfirmationTimeoutGoesOn ==
    /\ pc = "confirming"
    /\ outcome' = [outcome EXCEPT ![last] = "denied"]
    /\ pc' = "calling" /\ attempt' = 1
    /\ UNCHANGED <<runVars, last, call, toolVars, queue, clientVars>>

\* mutant: the deadline is looked at only when a reply arrives
ConfirmationTimeoutOnReply ==
    /\ pc = "confirming"
    /\ queue # <<>>
    /\ Report("denied")
    /\ UNCHANGED <<runVars, last, call, attempt, toolVars, queue, clientVars>>

\* 300 seconds without a reply to this request: _await_confirmation returns the
\* False of a denial, and the model is told that the user declined.
ConfirmationTimeout ==
    /\ pc = "confirming"
    /\ Report("denied")
    /\ UNCHANGED <<runVars, last, call, attempt, toolVars, queue, clientVars>>

-----------------------------------------------------------------------------
(* execute_tool.                                                           *)

\* The tool was applied, or not, by the time its thread ends.
MayApply(c) == effects' \in {effects, [effects EXCEPT ![c] = @ + 1]}

ToolSucceeds ==
    /\ pc = "calling"
    /\ effects' = [effects EXCEPT ![last] = @ + 1]
    /\ Report("ok")
    /\ UNCHANGED <<runVars, last, call, attempt, threads, queue, clientVars>>

RetryAlways == attempt <= MaxAttempts   \* mutant: one attempt too many

\* Another attempt is made after a backoff.
RetryLeft == attempt < MaxAttempts

\* The tool raises: PermissionError, FileNotFoundError and ValueError are not
\* retried, every other exception is.
ToolRaises ==
    /\ pc = "calling"
    /\ MayApply(last)
    /\ \/ RetryLeft /\ pc' = "backoff" /\ UNCHANGED outcome
       \/ Report("error")
    /\ UNCHANGED <<runVars, last, call, attempt, threads, queue, clientVars>>

\* wait_for gives up on the worker thread, which runs on.
ToolTimesOut ==
    /\ pc = "calling"
    /\ threads' = [threads EXCEPT ![last] = @ + 1]
    /\ \/ RetryLeft /\ pc' = "backoff" /\ UNCHANGED outcome
       \/ ~RetryLeft /\ Report("timeout")
    /\ UNCHANGED <<runVars, last, call, attempt, effects, queue, clientVars>>

Retry ==
    /\ pc = "backoff"
    /\ pc' = "calling"
    /\ attempt' = attempt + 1
    /\ UNCHANGED <<runVars, last, call, outcome, toolVars, queue, clientVars>>

\* An abandoned thread ends, at any later time.
ThreadEnds(c) ==
    /\ threads[c] > 0
    /\ threads' = [threads EXCEPT ![c] = @ - 1]
    /\ MayApply(c)
    /\ UNCHANGED <<runVars, pc, last, call, attempt, outcome, queue, clientVars>>

\* All runs are over and nothing is left in flight.
Quiescent ==
    /\ active = NoSession /\ runs = MaxRuns
    /\ prompts = {} /\ mail = {}
    /\ \A c \in Calls : threads[c] = 0
    /\ UNCHANGED vars

-----------------------------------------------------------------------------
Client == \E c \in Calls : Answer(c)
Network == \E m \in mail : Deliver(m) \/ Lose(m)
Gate == \E t \in Tools : RejectCall(t) \/ AskUser(t) \/ CallTool(t)
Execute == ToolSucceeds \/ ToolRaises \/ ToolTimesOut \/ Retry

Next ==
    \/ \E s \in Sessions : StartRun(s)
    \/ EndRun \/ CancelCall \/ Gate \/ TakeReply \/ ConfirmationTimeout \/ Execute
    \/ Client \/ Network \/ (\E c \in Calls : ThreadEnds(c)) \/ Quiescent

Spec == Init /\ [][Next]_vars

\* The two timers always fire and the event loop runs what is ready; nothing
\* is assumed of the user, the network, the tool or abandoned threads.
FairSpec ==
    /\ Spec
    /\ WF_vars(ConfirmationTimeout)
    /\ WF_vars(ToolTimesOut)
    /\ WF_vars(Retry)

-----------------------------------------------------------------------------
(* Properties.                                                             *)

TypeOK ==
    /\ active \in Sessions \cup {NoSession} /\ mode \in Modes /\ runs \in 0..MaxRuns
    /\ pc \in {"model", "confirming", "calling", "backoff"}
    /\ last \in 0..MaxCalls
    /\ call \in [Calls -> CallRecords \cup {<<>>}]
    /\ \A c \in Calls : IF c <= last THEN call[c] \in CallRecords ELSE call[c] = <<>>
    /\ attempt \in 0..MaxAttempts
    /\ outcome \in [Calls -> Outcomes]
    /\ threads \in [Calls -> 0..MaxAttempts] /\ effects \in [Calls -> Nat]
    /\ queue \in Seq(Reply) /\ mail \subseteq Reply
    /\ prompts \subseteq 1..last
    /\ trusted \in [Sessions -> SUBSET Tools]
    /\ allowed \subseteq 1..last /\ declined \subseteq 1..last

\* A reply decides only the call it names, whatever late replies of earlier
\* calls, runs or sessions the shared queue still holds: a call that was gated
\* is applied only with a yes of its own, and one that got a no never is.
RepliesDecideTheirCall ==
    \A c \in Calls :
        /\ (effects[c] + threads[c] > 0 /\ call[c].asked) => c \in allowed
        /\ c \in declined => effects[c] + threads[c] = 0

\* What the gate is for: with acceptEdits nothing dangerous, and with default
\* nothing that changes state, is being executed that the user did not allow.
DangerousNeedsConsent ==
    (pc \in {"calling", "backoff"} /\ mode # "bypassPermissions") =>
        LET t == call[last].tool
        IN  (t \in DangerousTools \/ (t \in EditTools /\ mode = "default"))
                => last \in allowed

\* Nothing is executed without the consent it needs, and consent is the reply
\* to that very call.
ConsentFirst == RepliesDecideTheirCall /\ DangerousNeedsConsent

\* A call reported as declined, for a no or for silence, as withdrawn or rejected
\* is never applied later, although its approval may still arrive.
RefusedNeverApplied ==
    \A c \in Calls :
        outcome[c] \in {"rejected", "denied", "withdrawn"} => effects[c] + threads[c] = 0

\* Threads that still run and effects together never exceed the attempts, and a
\* success that was reported did happen.
EffectsBounded ==
    \A c \in Calls :
        /\ effects[c] + threads[c] + (IF pc = "calling" /\ c = last THEN 1 ELSE 0)
               <= MaxAttempts
        /\ outcome[c] = "ok" => effects[c] > 0

\* What the model is told of a call and what the call did agree, also when a
\* thread that was given up ends much later.
EffectsAccounted == RefusedNeverApplied /\ EffectsBounded

\* "Hard kill on tool execution": once the model is told that a call timed
\* out, nothing of that call is running any more.
TimeoutKills == \A c \in Calls : outcome[c] = "timeout" => threads[c] = 0

\* A confirmation or a tool call never blocks the loop for ever, whoever stays
\* silent and however many stale replies are queued.
EveryCallEnds == pc # "model" ~> pc = "model"

-----------------------------------------------------------------------------
(* ToolCalls implements ToolContract.                                      *)

PhaseOf(c) ==
    IF c > last THEN "new"
    ELSE IF outcome[c] \in {"rejected", "denied", "withdrawn"} THEN "refused"
    ELSE IF c = last /\ pc = "confirming" THEN "asked"
    ELSE "started"

Contract == INSTANCE ToolContract
    WITH Attempts <- MaxAttempts, phase <- [c \in Calls |-> PhaseOf(c)], consented <- allowed

\* Every step of the loop, its clients and its threads is a step the contract
\* allows, or changes nothing the contract speaks of.
ImplementsContract == Contract!Contract
=============================================================================
