------------------------------- MODULE AgentLoop -------------------------------
(***************************************************************************)
(* One run() of services/orchestrator/agent_loop.py: the turn loop with    *)
(* its budgets, the context it sends to the model, the recovery paths for  *)
(* replies without a usable tool call, and the ways a run ends.            *)
(*                                                                         *)
(* Of a message only its kind is kept.  What happens inside one tool call  *)
(* is the subject of ToolCalls; here a call is a step with a result.       *)
(***************************************************************************)
EXTENDS Integers, Sequences

CONSTANTS
    MaxTurns,        \* self.max_turns
    MaxCalls,        \* self.max_tool_calls_per_turn
    MaxRequested,    \* bound: tool calls in one reply of the model
    OldTurns,        \* turns of the conversation in prior_messages
    TrimThreshold,   \* config.agent_loop.context_trim_threshold
    TrimSlack,       \* the 10 messages on top of it before a trim
    KeepRecent       \* the 10 messages compact_messages keeps

ASSUME BudgetAssumption ==
    MaxTurns \in Int /\ MaxCalls \in Nat \ {0} /\ MaxRequested \in Nat /\ OldTurns \in Nat
ASSUME ContextAssumption ==
    TrimThreshold \in Nat \ {0} /\ TrimSlack \in Nat \ (0..1) /\ KeepRecent \in Nat \ (0..2)

VARIABLES
    pc,         \* "top" of the loop, "llm" call, "tools" of the reply, "over"
    turn,       \* state.turn
    messages,   \* state.messages, by kind
    records,    \* state.turns_history: turn number and outcome
    total,      \* state.total_tool_calls
    malformed,  \* state._malformed_tool_retries
    forced,     \* state._forced_tool_fired
    offered,    \* tool schemas are sent with this turn's completion
    todo,       \* calls of this turn still to execute
    asked,      \* calls of this turn
    executed,   \* turn.tool_calls_executed
    response,   \* state.final_response
    status      \* state.status

vars == <<pc, turn, messages, records, total, malformed, forced, offered, todo, asked,
          executed, response, status>>

UserKinds == {"oldUser", "prompt", "ok", "failed", "declined", "nudge", "answerNow",
              "reissue", "note"}
Kinds == UserKinds \cup {"system", "oldAnswer", "calls", "ack", "listing"}
Outcomes == {"TOOL_CALLS", "NO_TOOL_CALLS", "PLANNING", "REVIEW", "ERROR",
             "MAX_TURNS_REACHED"}
Responses == {"none", "answer", "fallback", "listing", "plan", "review"}

LastN(s, n) == SubSeq(s, Len(s) - n + 1, Len(s))
Has(kind) == \E i \in DOMAIN messages : messages[i] = kind

Record(outcome) == Append(records, [turn |-> turn, outcome |-> outcome])

OldMessages == [i \in 1..2 * OldTurns |-> IF i % 2 = 1 THEN "oldUser" ELSE "oldAnswer"]

Init ==
    /\ pc = "top"
    /\ turn = 0
    /\ messages = <<"system">> \o OldMessages \o <<"prompt">>
    /\ records = <<>>
    /\ total = 0
    /\ malformed = 0
    /\ forced = FALSE
    /\ offered = FALSE
    /\ todo = 0 /\ asked = 0 /\ executed = 0
    /\ response = "none"
    /\ status = "running"

-----------------------------------------------------------------------------
(* The context.                                                            *)

TrimLate(ms) ==   \* mutant: the trim waits for one message too many
    IF Len(ms) > TrimThreshold + TrimSlack + 1
    THEN <<ms[1], ms[2]>> \o LastN(ms, TrimThreshold) ELSE ms

\* Beyond the window, the first message, the second one when it is the user's,
\* and the last TrimThreshold messages are kept.
Trim(ms) ==
    IF Len(ms) > TrimThreshold + TrimSlack
    THEN <<ms[1]>> \o (IF ms[2] \in UserKinds THEN <<ms[2]>> ELSE <<>>)
         \o LastN(ms, TrimThreshold)
    ELSE ms

\* compact_messages: a summary stands for all but the latest messages.
Compact(ms) ==
    IF Len(ms) > KeepRecent + 1
    THEN <<ms[1], "note", "ack">> \o LastN(ms, KeepRecent)
    ELSE ms

\* Usage below the threshold, or a failed summary, leaves the messages alone.
MayCompact(ms) == {ms, Compact(ms)}

-----------------------------------------------------------------------------
(* The loop.                                                               *)

\* The top of the while loop: the next turn starts, its context is trimmed and
\* the schemas are suppressed when a tool has already answered.
StartTurn ==
    /\ pc = "top"
    /\ turn < MaxTurns
    /\ turn' = turn + 1
    /\ messages' = Trim(messages)
    /\ LET last == messages'[Len(messages')]
       IN offered' = ~(last \in UserKinds \cup {"listing"} /\ total > 0)
    /\ executed' = 0
    /\ pc' = "llm"
    /\ UNCHANGED <<records, total, malformed, forced, todo, asked, response, status>>

\* After the while loop.  A last message of the assistant becomes the response.
Stop(recs, resp, ms) ==
    /\ pc' = "over"
    /\ status' = "completed"
    /\ response' = IF turn >= MaxTurns /\ ms[Len(ms)] \in {"calls", "oldAnswer", "ack"}
                   THEN "answer" ELSE resp
    /\ records' = IF turn >= MaxTurns
                  THEN Append(recs, [turn |-> turn, outcome |-> "MAX_TURNS_REACHED"])
                  ELSE recs

RunOut ==
    /\ pc = "top"
    /\ turn >= MaxTurns
    /\ Stop(records, response, messages)
    /\ UNCHANGED <<turn, messages, total, malformed, forced, offered, todo, asked, executed>>

\* The completion fails.  After a tool has run, the latest observation in the
\* context, if there is one, becomes the answer; otherwise, or when the reply
\* arrived but is of no use (no choices, say), the run fails.
Observed == Has("ok") \/ Has("failed") \/ Has("declined")

CompletionFailsSilently ==   \* mutant: the loop is left although there is no fallback
    /\ pc = "llm"
    /\ Stop(Record("NO_TOOL_CALLS"), IF total > 0 THEN "fallback" ELSE response, messages)
    /\ UNCHANGED <<turn, messages, total, malformed, forced, offered, todo, asked, executed>>

CompletionFails ==
    /\ pc = "llm"
    /\ \/ /\ total > 0 /\ Observed
          /\ Stop(Record("NO_TOOL_CALLS"), "fallback", messages)
       \/ /\ pc' = "over"
          /\ status' = "error"
          /\ records' = Record("ERROR")
          /\ UNCHANGED response
    /\ UNCHANGED <<turn, messages, total, malformed, forced, offered, todo, asked, executed>>

ReissueAlways == malformed < 2   \* mutant: also when no turn is left

\* A reply that looks like a tool call that did not parse is asked for again,
\* twice at most and only while a turn is left.
MayReissue == malformed < 2 /\ turn < MaxTurns

ReissueForFree ==   \* mutant: the retry gives its turn back and is not counted
    /\ pc = "llm"
    /\ MayReissue
    /\ messages' = Append(messages, "reissue")
    /\ turn' = turn - 1
    /\ pc' = "top"
    /\ UNCHANGED <<records, malformed, total, forced, offered, todo, asked, executed, response,
                   status>>

Reissue ==
    /\ pc = "llm"
    /\ MayReissue
    /\ \E ms \in MayCompact(messages) : messages' = Append(ms, "reissue")
    /\ malformed' = malformed + 1
    /\ records' = Record("NO_TOOL_CALLS")
    /\ pc' = "top"
    /\ UNCHANGED <<turn, total, forced, offered, todo, asked, executed, response, status>>

\* The calls of this turn: those of the reply, capped.
BeginCalls(n) ==
    /\ \E ms \in MayCompact(messages) : messages' = Append(ms, "calls")
    /\ todo' = n
    /\ asked' = n
    /\ pc' = "tools"
    /\ UNCHANGED <<turn, records, total, malformed, offered, executed, response, status>>

Uncapped(n) == n   \* mutant: the cap only warns
Capped(n) == IF n > MaxCalls THEN MaxCalls ELSE n

\* extract_tool_calls: as many calls as parse, in one of three notations.
Requested == 1..MaxRequested

\* _correct_tool_calls_for_intent: before any tool has run, one call that fits
\* the user's words may replace all calls of the first reply.
Corrected(n) == IF turn = 1 /\ total = 0 THEN {n, 1} ELSE {n}

ReplyWithCalls ==
    /\ pc = "llm"
    /\ \E n \in Requested : \E m \in Corrected(Capped(n)) : BeginCalls(m)
    /\ UNCHANGED forced

\* _detect_synthetic_tool_call reads at most one call out of the user's words.
SyntheticCalls == 1

\* A request that plainly implies a tool gets a synthetic call, once.
MayForce == total = 0 /\ offered /\ ~forced

ForceCall ==
    /\ pc = "llm"
    /\ MayForce
    /\ forced' = TRUE
    /\ BeginCalls(SyntheticCalls)

\* A shell snippet instead of a listing is replaced by a real listing, which
\* is executed here and now.
ForceListing(ms) ==
    /\ total = 0
    /\ messages' = Append(ms, "listing")
    /\ total' = total + 1
    /\ Stop(Record("NO_TOOL_CALLS"), "listing", messages')

\* _normalize_tool_summary_response: an empty reply, or a shell snippet after a
\* file-system tool, is replaced by the latest observation.
SummaryReplaced == total > 0 /\ Observed

\* A reply without tool calls is the answer, or is replaced.
Answer ==
    /\ pc = "llm"
    /\ \E ms \in MayCompact(messages) :
          \/ ForceListing(ms)
          \/ /\ messages' = ms
             /\ UNCHANGED total
             /\ \/ Stop(Record("NO_TOOL_CALLS"), "answer", ms)
                \/ SummaryReplaced /\ Stop(Record("NO_TOOL_CALLS"), "fallback", ms)
    /\ UNCHANGED <<turn, malformed, forced, offered, todo, asked, executed>>

-----------------------------------------------------------------------------
(* The calls of one turn.                                                  *)

\* One message per call: a result (which may quote an "Error:"), an error of
\* validation, hooks or the tool, or the user's refusal.
CallResults == {[kind |-> "ok", ran |-> TRUE], [kind |-> "failed", ran |-> TRUE],
                [kind |-> "failed", ran |-> FALSE], [kind |-> "declined", ran |-> FALSE]}

ExecuteCall ==
    /\ pc = "tools"
    /\ todo > 0
    /\ \E res \in CallResults :
          LET one == IF res.ran THEN 1 ELSE 0
          IN  /\ messages' = Append(messages, res.kind)
              /\ executed' = executed + one
              /\ total' = total + one
    /\ todo' = todo - 1
    /\ UNCHANGED <<pc, turn, records, malformed, forced, offered, asked, response, status>>

\* propose_plan, once executed, and an edit in review mode return at once.
Propose ==
    /\ pc = "tools"
    /\ todo > 0
    /\ \/ /\ messages' = Append(messages, "ok")
          /\ executed' = executed + 1 /\ total' = total + 1
          /\ response' = "plan"
          /\ records' = Record("PLANNING")
       \/ /\ response' = "review"
          /\ records' = Record("REVIEW")
          /\ UNCHANGED <<messages, executed, total>>
    /\ pc' = "over"
    /\ UNCHANGED <<turn, malformed, forced, offered, todo, asked, status>>

\* All calls are done: errors are pointed out to the model, otherwise it is told
\* to answer from the results.
EndTurn ==
    /\ pc = "tools"
    /\ todo = 0
    /\ LET recent == LastN(messages, asked)
           errors == \E i \in DOMAIN recent : recent[i] = "failed"
       IN messages' = IF errors THEN Append(messages, "nudge")
                      ELSE IF executed > 0 THEN Append(messages, "answerNow")
                      ELSE messages
    /\ records' = Record("TOOL_CALLS")
    /\ pc' = "top"
    /\ UNCHANGED <<turn, total, malformed, forced, offered, todo, asked, executed, response,
                   status>>

CancelUnrecorded ==   \* mutant: the turn that was cancelled is not recorded
    /\ pc \in {"llm", "tools"}
    /\ pc' = "over"
    /\ status' = "cancelled"
    /\ UNCHANGED <<turn, messages, records, total, malformed, forced, offered, todo, asked,
                   executed, response>>

\* CancelledError at an await of the turn.
Cancel ==
    /\ pc \in {"llm", "tools"}
    /\ pc' = "over"
    /\ status' = "cancelled"
    /\ records' = Record("ERROR")
    /\ UNCHANGED <<turn, messages, total, malformed, forced, offered, todo, asked, executed,
                   response>>

Returned == pc = "over" /\ UNCHANGED vars

Proceed ==
    \/ StartTurn \/ RunOut \/ CompletionFails \/ Reissue \/ ReplyWithCalls \/ ForceCall
    \/ Answer \/ ExecuteCall \/ Propose \/ EndTurn

Next == Proceed \/ Cancel \/ Returned

Spec == Init /\ [][Next]_vars

\* Every tool call has a timeout and a confirmation waits 300 s at most; a
\* completion has none (the HTTP client is created with timeout=None), so the
\* model may stay silent for ever.
FairSpec == Spec /\ WF_vars(pc # "llm" /\ Proceed)

-----------------------------------------------------------------------------
(* Properties.                                                             *)

TypeOK ==
    /\ pc \in {"top", "llm", "tools", "over"}
    /\ turn \in Nat
    /\ messages \in Seq(Kinds)
    /\ records \in Seq([turn : Nat, outcome : Outcomes])
    /\ total \in Nat /\ malformed \in 0..2
    /\ forced \in BOOLEAN /\ offered \in BOOLEAN
    /\ asked \in 0..MaxCalls /\ todo \in 0..asked /\ executed \in 0..MaxCalls
    /\ response \in Responses
    /\ status \in {"running", "completed", "error", "cancelled"}

\* What is sent to the model fits the trim window; the system prompt is at its
\* start and nowhere else, and it ends with something of the user's side to
\* answer.  A turn adds to it the reply, a result per call that the cap allows, an
\* instruction and one message by which a summary can be longer than what it
\* stands for: by no more do the messages outgrow the window before the next trim.
ContextWellFormed ==
    /\ \A i \in DOMAIN messages : messages[i] = "system" <=> i = 1
    /\ pc = "llm" =>
          /\ Len(messages) <= TrimThreshold + TrimSlack
          /\ messages[Len(messages)] \in UserKinds
    /\ turn > 0 => Len(messages) <= TrimThreshold + TrimSlack + MaxCalls + 3

\* Once a turn is over it has exactly one record, in the order of the turns,
\* however it went; a stop at the turn limit adds one to the last turn's.
RecordPerTurn ==
    LET done == IF pc \in {"llm", "tools"} THEN turn - 1 ELSE turn
        limit == [turn |-> turn, outcome |-> "MAX_TURNS_REACHED"]
    IN  /\ \/ Len(records) = done
           \/ pc = "over" /\ Len(records) = done + 1 /\ records[done + 1] = limit
        /\ \A i \in 1..done : records[i].turn = i /\ records[i].outcome # limit.outcome

\* The number of tools that ran stays within the budget of both limits,
\* synthetic calls and the forced listing included.
ToolBudget == total <= turn * MaxCalls /\ (turn <= MaxTurns \/ turn = 0)

\* Turns, their records and the tools they ran are counted alike.
TurnsAccounted == RecordPerTurn /\ ToolBudget

\* A run that completes without any response was cut off after tool calls: a
\* request to re-issue a malformed call always gets a turn to be answered in.
EmptyOnlyAfterTools ==
    (status = "completed" /\ response = "none" /\ turn > 0) =>
        records[Len(records) - 1].outcome = "TOOL_CALLS"

\* The response, the status and the last records of a run tell the same story.
EndingsAgree ==
    pc = "over" =>
        LET ends(outcome) == records # <<>> /\ records[Len(records)].outcome = outcome
            answered == \E i \in DOMAIN records :
                            records[i].turn = turn /\ records[i].outcome = "NO_TOOL_CALLS"
        IN  /\ response = "plan" => ends("PLANNING") /\ status = "running"
            /\ response = "review" => ends("REVIEW") /\ status = "running"
            /\ response = "none" => \/ ends("ERROR") /\ status \in {"error", "cancelled"}
                                    \/ ends("MAX_TURNS_REACHED") /\ ~answered
            /\ response \in {"answer", "fallback", "listing"} => answered /\ status = "completed"

\* However a run ends, it ends for a reason that its records tell.
EndsForAReason == EmptyOnlyAfterTools /\ EndingsAgree

\* Every run returns unless the model leaves one completion unanswered: no
\* retry, nudge or forced call escapes the turn limit.
RunEnds == <>(pc = "over") \/ <>[](pc = "llm")

\* "We keep the system prompt [0], the original user prompt [1]": unless it was
\* compacted into a summary, the request is in what the model gets to see, as
\* itself or repeated by the instruction to answer from the results.
PromptKept == pc = "llm" => Has("prompt") \/ Has("note") \/ Has("answerNow")

\* "Allow tools again only if no tool results yet (turn 1) or if previous turn
\* errored": a turn that starts from an error nudge has the tool schemas.
ToolsAfterError ==
    (pc = "llm" /\ messages[Len(messages)] = "nudge") => offered

\* "budget exhausted; return whatever the last response was"
BudgetStopHasResponse == status = "completed" => response # "none"

\* "initialized" -> "running" -> "done"/"error": a run that returned is not
\* running any more.
ReturnedNotRunning == pc = "over" => status # "running"
=============================================================================
