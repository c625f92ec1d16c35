---------------------------- MODULE ToolCallsProofs ----------------------------
(***************************************************************************)
(* Proofs about ToolCalls, for any sessions, tools and bounds: nothing is  *)
(* executed without the consent it needs, what the model is told agrees    *)
(* with what happened, and every step is one that ToolContract allows.     *)
(***************************************************************************)
EXTENDS ToolCalls, SequenceTheorems, TLAPS

USE NoSessionAssumption, BoundsAssumption DEF Calls

-----------------------------------------------------------------------------
(* The inductive invariant.                                                *)

\* While a call is being made it is the latest one, of the running session,
\* undecided, and was gated by the mode that still holds.
CallInProgress ==
    pc # "model" =>
        /\ active # NoSession
        /\ last \in Calls
        /\ outcome[last] = "none"
        /\ call[last].asked = Requires(call[last].tool)

\* Calls that were not made yet have left no trace.
Untouched ==
    \A c \in Calls : c > last => outcome[c] = "none" /\ effects[c] = 0 /\ threads[c] = 0

\* How many effects and abandoned threads the latest call can have by now.
Tried == effects[last] + threads[last]
AttemptsCounted ==
    /\ pc = "confirming" => Tried = 0 /\ call[last].asked
    /\ pc = "calling" => Tried < attempt
    /\ pc = "backoff" => Tried <= attempt /\ attempt < MaxAttempts
    /\ \A c \in Calls : effects[c] + threads[c] <= MaxAttempts

\* A reply under way or queued says what its user said.
Honest(m) == IF m.approved THEN m.id \in allowed ELSE m.id \in declined
RepliesHonest ==
    /\ \A m \in mail : Honest(m)
    /\ \A i \in DOMAIN queue : Honest(queue[i])

\* A call gets one answer at most, and only if its user was asked.
OneAnswer ==
    /\ prompts \cap (allowed \cup declined) = {} /\ allowed \cap declined = {}
    /\ \A c \in prompts \cup allowed \cup declined : call[c].asked

\* A call that was asked about executes with consent.
Consented == pc \in {"calling", "backoff"} /\ call[last].asked => last \in allowed

\* Success was reported of what did happen.
SuccessHappened == \A c \in Calls : outcome[c] = "ok" => effects[c] > 0

IInv ==
    /\ TypeOK /\ CallInProgress /\ Untouched /\ AttemptsCounted /\ RepliesHonest
    /\ OneAnswer /\ Consented /\ RepliesDecideTheirCall /\ RefusedNeverApplied /\ SuccessHappened

-----------------------------------------------------------------------------
LEMMA InitIInv == Init => IInv
  BY DEF Init, IInv, TypeOK, CallInProgress, Untouched, AttemptsCounted, RepliesHonest,
         OneAnswer, Consented, RepliesDecideTheirCall, RefusedNeverApplied, SuccessHappened,
         Outcomes, Modes, Reply, CallRecords, Tried

LEMMA MayApplyType ==
  ASSUME effects \in [Calls -> Nat], NEW c \in Calls, MayApply(c)
  PROVE  /\ effects' \in [Calls -> Nat]
         /\ \A d \in Calls : effects'[d] = effects[d] \/ (d = c /\ effects'[d] = effects[d] + 1)
<1>1. CASE effects' = effects
  BY <1>1
<1>2. CASE effects' = [effects EXCEPT ![c] = @ + 1]
  BY <1>2
<1>3. QED
  BY <1>1, <1>2 DEF MayApply

\* The type of every variable, except that the bound on abandoned threads
\* needs the count of attempts.
LEMMA NextTypeOK == ASSUME IInv, [Next]_vars PROVE TypeOK'
<1> USE DEF IInv, TypeOK, runVars, clientVars, toolVars, Report, Outcomes, CallRecords
<1>1. ASSUME NEW s \in Sessions, StartRun(s) PROVE TypeOK'
  BY <1>1 DEF StartRun
<1>2. CASE EndRun
  BY <1>2 DEF EndRun
<1>3. CASE CancelCall
  <2>1. last \in Calls /\ (pc = "calling" => threads[last] + 1 <= MaxAttempts)
    BY <1>3 DEF CancelCall, CallInProgress, AttemptsCounted, Tried
  <2>2. threads' \in [Calls -> 0..MaxAttempts]
    BY <1>3, <2>1 DEF CancelCall
  <2>3. QED
    BY <1>3, <2>2 DEF CancelCall
<1>4. ASSUME NEW t \in Tools, RejectCall(t) \/ AskUser(t) \/ CallTool(t) PROVE TypeOK'
  <2>1. last + 1 \in Calls /\ last' = last + 1 /\ active \in Sessions
    BY <1>4 DEF RejectCall, AskUser, CallTool, NewCall
  <2>2. PICK new \in CallRecords : call' = [call EXCEPT ![last + 1] = new]
    <3>1. [session |-> active, tool |-> t, asked |-> Requires(t)] \in CallRecords
      BY <2>1 DEF Requires
    <3>2. QED
      BY <1>4, <3>1 DEF RejectCall, AskUser, CallTool, NewCall
  <2>3. call' \in [Calls -> CallRecords \cup {<<>>}]
    BY <2>1, <2>2 DEF TypeOK
  <2>4. ASSUME NEW c \in Calls
        PROVE  IF c <= last' THEN call'[c] \in CallRecords ELSE call'[c] = <<>>
    <3>1. last \in Nat /\ c \in Nat
      OBVIOUS
    <3>2. CASE c = last + 1
      BY <2>1, <2>2, <3>1, <3>2
    <3>3. CASE c # last + 1
      <4>1. call'[c] = call[c] /\ (c <= last' <=> c <= last)
        BY <2>1, <2>2, <3>1, <3>3
      <4>2. QED
        BY <4>1
    <3>4. QED
      BY <3>2, <3>3
  <2>5. prompts' \subseteq 1..last' /\ allowed' \subseteq 1..last' /\ declined' \subseteq 1..last'
    <3>1. 1..last' = 1..last \cup {last + 1}
      BY <2>1
    <3>2. QED
      BY <1>4, <3>1 DEF RejectCall, AskUser, CallTool
  <2>6. outcome' \in [Calls -> Outcomes]
    BY <1>4, <2>1 DEF RejectCall, AskUser, CallTool
  <2>7. pc' \in {"model", "confirming", "calling", "backoff"} /\ attempt' \in 0..MaxAttempts
    BY <1>4 DEF RejectCall, AskUser, CallTool
  <2>8. /\ UNCHANGED <<runVars, toolVars, queue, mail, trusted>>
        /\ last' \in 0..MaxCalls
    BY <1>4, <2>1 DEF RejectCall, AskUser, CallTool
  <2>9. QED
    BY <2>3, <2>4, <2>5, <2>6, <2>7, <2>8
<1>5. CASE TakeReply
  <2>1. queue' \in Seq(Reply)
    BY <1>5, HeadTailProperties DEF TakeReply
  <2>2. last \in Calls
    BY <1>5 DEF TakeReply, CallInProgress
  <2>3. pc' \in {"model", "confirming", "calling"} /\ attempt' \in 0..MaxAttempts
        /\ outcome' \in [Calls -> Outcomes]
    BY <1>5, <2>2, SMTT(30) DEF TakeReply
  <2>4. QED
    BY <1>5, <2>1, <2>3 DEF TakeReply
<1>6. CASE ConfirmationTimeout
  BY <1>6 DEF ConfirmationTimeout
<1>7. CASE ToolSucceeds
  <2>1. effects' \in [Calls -> Nat]
    BY <1>7 DEF ToolSucceeds, CallInProgress
  <2>2. outcome' \in [Calls -> Outcomes]
    BY <1>7 DEF ToolSucceeds
  <2>3. QED
    BY <1>7, <2>1, <2>2 DEF ToolSucceeds
<1>8. CASE ToolRaises
  <2>1. effects' \in [Calls -> Nat]
    <3>1. last \in Calls /\ MayApply(last)
      BY <1>8 DEF ToolRaises, CallInProgress
    <3>2. QED
      BY <3>1, MayApplyType
  <2>2. outcome' \in [Calls -> Outcomes]
    BY <1>8 DEF ToolRaises
  <2>3. QED
    BY <1>8, <2>1, <2>2 DEF ToolRaises
<1>9. CASE ToolTimesOut
  <2>1. last \in Calls /\ threads[last] + 1 <= MaxAttempts
    BY <1>9 DEF ToolTimesOut, CallInProgress, AttemptsCounted, Tried
  <2>2. threads' \in [Calls -> 0..MaxAttempts]
    BY <1>9, <2>1 DEF ToolTimesOut
  <2>3. QED
    BY <1>9, <2>2 DEF ToolTimesOut
<1>10. CASE Retry
  BY <1>10, SMTT(30) DEF Retry, AttemptsCounted
<1>11. ASSUME NEW c \in Calls, Answer(c) PROVE TypeOK'
  <2>1. c \in 1..last /\ call[c] \in CallRecords
    BY <1>11 DEF Answer
  <2>2. [id |-> c, approved |-> TRUE] \in Reply /\ [id |-> c, approved |-> FALSE] \in Reply
    BY DEF Reply
  <2>3. mail' \subseteq Reply
    BY <1>11, <2>2 DEF Answer
  <2>4. trusted' \in [Sessions -> SUBSET Tools]
    BY <1>11, <2>1 DEF Answer
  <2>5. QED
    BY <1>11, <2>1, <2>3, <2>4 DEF Answer
<1>12. ASSUME NEW m \in mail, Deliver(m) \/ Lose(m) PROVE TypeOK'
  <2>1. queue' \in Seq(Reply)
    <3>1. Append(queue, m) \in Seq(Reply)
      BY AppendProperties
    <3>2. QED
      BY <1>12, <3>1 DEF Deliver, Lose
  <2>2. QED
    BY <1>12, <2>1 DEF Deliver, Lose
<1>13. ASSUME NEW c \in Calls, ThreadEnds(c) PROVE TypeOK'
  <2>1. effects' \in [Calls -> Nat]
    BY <1>13, MayApplyType DEF ThreadEnds
  <2>2. threads' \in [Calls -> 0..MaxAttempts]
    BY <1>13, SMTT(30) DEF ThreadEnds
  <2>3. QED
    BY <1>13, <2>1, <2>2 DEF ThreadEnds
<1>14. CASE UNCHANGED vars
  BY <1>14 DEF vars
<1>15. QED
  BY <1>1, <1>2, <1>3, <1>4, <1>5, <1>6, <1>7, <1>8, <1>9, <1>10, <1>11, <1>12,
     <1>13, <1>14 DEF Next, Gate, Execute, Client, Network, Quiescent

-----------------------------------------------------------------------------
(* The rest of the invariant, conjunct by conjunct.                         *)

LEMMA TypeFacts ==
  ASSUME IInv
  PROVE  /\ last \in 0..MaxCalls /\ attempt \in 0..MaxAttempts
         /\ outcome \in [Calls -> Outcomes]
         /\ effects \in [Calls -> Nat] /\ threads \in [Calls -> Nat]
         /\ prompts \subseteq Calls /\ prompts \subseteq 1..last
  BY DEF IInv, TypeOK

\* A call that is being made keeps its record and the mode it was gated by.
LEMMA NextCallInProgress == ASSUME IInv, [Next]_vars PROVE CallInProgress'
<1> USE TypeFacts DEF IInv, CallInProgress, runVars, clientVars, toolVars, Report
<1>1. CASE pc' = "model"
  BY <1>1
<1>2. ASSUME NEW t \in Tools, AskUser(t) \/ CallTool(t) PROVE CallInProgress'
  <2>1. last' = last + 1 /\ last + 1 \in Calls /\ outcome' = outcome /\ active # NoSession
    BY <1>2 DEF AskUser, CallTool, NewCall
  <2>2. outcome'[last'] = "none"
    BY <2>1 DEF Untouched
  <2>3. call'[last'] = [session |-> active, tool |-> t, asked |-> Requires(t)]
    BY <1>2, <2>1 DEF AskUser, CallTool, NewCall, TypeOK
  <2>4. UNCHANGED <<active, mode>>
    BY <1>2 DEF AskUser, CallTool
  <2>5. QED
    BY <2>1, <2>2, <2>3, <2>4 DEF Requires
<1>3. CASE pc # "model" /\ UNCHANGED <<active, mode, last, call, outcome>>
  BY <1>3 DEF Requires
<1>4. ASSUME NEW t \in Tools, RejectCall(t) PROVE CallInProgress'
  BY <1>4 DEF RejectCall, NewCall
<1>5. ASSUME NEW s \in Sessions, StartRun(s) PROVE CallInProgress'
  BY <1>5 DEF StartRun
<1>6. CASE Execute \/ TakeReply
  <2>1. pc # "model" /\ UNCHANGED <<active, mode, last, call>>
    BY <1>6 DEF Execute, ToolSucceeds, ToolRaises, ToolTimesOut, Retry, TakeReply
  <2>2. pc' = "model" \/ outcome' = outcome
    BY <1>6 DEF Execute, ToolSucceeds, ToolRaises, ToolTimesOut, Retry, TakeReply
  <2>3. QED
    BY <1>1, <1>3, <2>1, <2>2
<1>7. CASE UNCHANGED <<active, mode, pc, last, call, outcome>>
  BY <1>3, <1>7
<1>8. CASE EndRun \/ CancelCall \/ ConfirmationTimeout
  BY <1>1, <1>8 DEF EndRun, CancelCall, ConfirmationTimeout
<1>9. CASE Client \/ Network \/ \E c \in Calls : ThreadEnds(c)
  BY <1>7, <1>9 DEF Client, Network, Answer, Deliver, Lose, ThreadEnds
<1>10. QED
  BY <1>2, <1>4, <1>5, <1>6, <1>7, <1>8, <1>9 DEF Next, Gate, Quiescent, vars

\* Effects and threads after a step, seen from one call: only the call being
\* made, or one with an abandoned thread, changes.
EffectsStep(c) ==
    \/ effects'[c] = effects[c] /\ threads'[c] = threads[c]
    \/ /\ c = last
       /\ pc = "calling"
       /\ effects'[c] \in {effects[c], effects[c] + 1} /\ threads'[c] = threads[c]
    \/ /\ c = last
       /\ pc = "calling"
       /\ effects'[c] = effects[c] /\ threads'[c] = threads[c] + 1
    \/ /\ threads[c] > 0 /\ threads'[c] = threads[c] - 1
       /\ effects'[c] \in {effects[c], effects[c] + 1}

LEMMA StepEffects == ASSUME IInv, [Next]_vars, NEW c \in Calls PROVE EffectsStep(c)
<1> USE TypeFacts DEF IInv, toolVars, EffectsStep
<1>1. CASE UNCHANGED toolVars
  BY <1>1
<1>2. CASE CancelCall
  BY <1>2 DEF CancelCall
<1>3. CASE ToolSucceeds
  BY <1>3 DEF ToolSucceeds
<1>4. CASE ToolRaises
  <2>1. last \in Calls /\ MayApply(last)
    BY <1>4 DEF ToolRaises, CallInProgress
  <2>2. QED
    BY <1>4, <2>1, MayApplyType DEF ToolRaises
<1>5. CASE ToolTimesOut
  BY <1>5 DEF ToolTimesOut
<1>6. ASSUME NEW d \in Calls, ThreadEnds(d) PROVE EffectsStep(c)
  <2>1. effects'[c] = effects[c] \/ (c = d /\ effects'[c] = effects[c] + 1)
    BY <1>6, MayApplyType DEF ThreadEnds
  <2>2. QED
    BY <1>6, <2>1 DEF ThreadEnds
<1>7. QED
  BY <1>1, <1>2, <1>3, <1>4, <1>5, <1>6
     DEF Next, Gate, Execute, Client, Network, Quiescent, vars, StartRun, EndRun, RejectCall,
         AskUser, CallTool, TakeReply, ConfirmationTimeout, Retry, Answer, Deliver, Lose

LEMMA NextUntouched == ASSUME IInv, [Next]_vars PROVE Untouched'
<1> SUFFICES ASSUME NEW c \in Calls, c > last'
             PROVE  outcome'[c] = "none" /\ effects'[c] = 0 /\ threads'[c] = 0
  BY DEF Untouched
<1> USE TypeFacts DEF IInv
<1>1. last' \in {last, last + 1}
  BY DEF Next, Gate, Execute, Client, Network, Quiescent, vars, StartRun, EndRun, CancelCall,
         RejectCall, AskUser, CallTool, NewCall, TakeReply, ConfirmationTimeout, ToolSucceeds,
         ToolRaises, ToolTimesOut, Retry, Answer, Deliver, Lose, ThreadEnds
<1>2. c > last /\ c # last' /\ outcome[c] = "none" /\ effects[c] = 0 /\ threads[c] = 0
  BY <1>1 DEF Untouched
<1>3. effects'[c] = 0 /\ threads'[c] = 0
  <2>1. EffectsStep(c)
    BY StepEffects
  <2>2. QED
    BY <1>2, <2>1 DEF EffectsStep
<1>4. outcome'[c] = outcome[c]
  <2>1. \/ outcome' = outcome
        \/ \E r \in Outcomes : outcome' = [outcome EXCEPT ![last] = r]
        \/ \E r \in Outcomes : outcome' = [outcome EXCEPT ![last'] = r]
    BY DEF Next, Gate, Execute, Client, Network, Quiescent, vars, StartRun, EndRun, CancelCall,
           RejectCall, AskUser, CallTool, NewCall, TakeReply, ConfirmationTimeout, ToolSucceeds,
           ToolRaises, ToolTimesOut, Retry, Answer, Deliver, Lose, ThreadEnds, Report,
           Outcomes
  <2>2. CASE \E r \in Outcomes : outcome' = [outcome EXCEPT ![last] = r]
    BY <1>2, <2>2
  <2>3. CASE \E r \in Outcomes : outcome' = [outcome EXCEPT ![last'] = r]
    BY <1>2, <2>3
  <2>4. QED
    BY <2>1, <2>2, <2>3
<1>5. QED
  BY <1>2, <1>3, <1>4

\* An attempt adds at most one effect or one abandoned thread, and ends with it.
LEMMA NextAttemptsCounted == ASSUME IInv, [Next]_vars PROVE AttemptsCounted'
<1> USE TypeFacts DEF IInv, runVars, clientVars, toolVars
<1> DEFINE Counted == /\ pc = "confirming" => Tried = 0 /\ call[last].asked
                      /\ pc = "calling" => Tried < attempt
                      /\ pc = "backoff" => Tried <= attempt /\ attempt < MaxAttempts
<1>1. \A c \in Calls : effects'[c] + threads'[c] <= MaxAttempts
  <2> TAKE c \in Calls
  <2>1. EffectsStep(c)
    BY StepEffects
  <2>2. effects[c] + threads[c] <= MaxAttempts
    BY DEF AttemptsCounted
  <2>3. (c = last /\ pc = "calling") => effects[c] + threads[c] + 1 <= MaxAttempts
    BY DEF AttemptsCounted, Tried
  <2>4. QED
    BY <2>1, <2>2, <2>3, SMTT(30) DEF EffectsStep
<1>2. Counted'
  <2>1. CASE pc' = "model"
    BY <2>1
  <2>2. ASSUME NEW t \in Tools, AskUser(t) \/ CallTool(t) PROVE Counted'
    <3>1. last' = last + 1 /\ last + 1 \in Calls /\ UNCHANGED toolVars
      BY <2>2 DEF AskUser, CallTool, NewCall
    <3>2. Tried' = 0
      BY <3>1 DEF Tried, Untouched
    <3>3. CASE AskUser(t)
      <4>1. call'[last'].asked
        BY <3>1, <3>3 DEF AskUser, NewCall, TypeOK
      <4>2. QED
        BY <3>2, <3>3, <4>1 DEF AskUser
    <3>4. CASE CallTool(t)
      BY <3>2, <3>4 DEF CallTool
    <3>5. QED
      BY <2>2, <3>3, <3>4
  <2>3. CASE UNCHANGED <<pc, last, call, attempt, toolVars>>
    BY <2>3 DEF AttemptsCounted, Tried
  <2>4. CASE TakeReply
    <3>1. pc = "confirming" /\ UNCHANGED <<last, call, toolVars>>
      BY <2>4 DEF TakeReply
    <3>2. pc' \in {"model", "confirming"} \/ (pc' = "calling" /\ attempt' = 1)
      BY <2>4, <3>1 DEF TakeReply, Report
    <3>3. QED
      BY <3>1, <3>2 DEF AttemptsCounted, Tried
  <2>5. CASE ToolRaises /\ pc' # "model"
    <3>1. last \in Calls /\ MayApply(last)
      BY <2>5 DEF ToolRaises, CallInProgress
    <3>2. effects'[last] \in {effects[last], effects[last] + 1}
      BY <3>1, MayApplyType
    <3>3. /\ pc = "calling" /\ pc' = "backoff" /\ attempt < MaxAttempts
          /\ UNCHANGED <<last, attempt, threads>>
      BY <2>5 DEF ToolRaises, RetryLeft, Report
    <3>4. QED
      BY <3>1, <3>2, <3>3 DEF AttemptsCounted, Tried
  <2>6. CASE ToolTimesOut /\ pc' # "model"
    <3>1. /\ pc = "calling" /\ pc' = "backoff" /\ attempt < MaxAttempts
          /\ UNCHANGED <<last, attempt, effects>> /\ last \in Calls
      BY <2>6 DEF ToolTimesOut, RetryLeft, Report, CallInProgress
    <3>2. threads'[last] = threads[last] + 1
      BY <2>6, <3>1 DEF ToolTimesOut
    <3>3. QED
      BY <3>1, <3>2 DEF AttemptsCounted, Tried
  <2>7. CASE Retry
    BY <2>7 DEF Retry, AttemptsCounted, Tried, CallInProgress
  <2>8. ASSUME NEW c \in Calls, ThreadEnds(c) PROVE Counted'
    <3>1. UNCHANGED <<pc, last, call, attempt>>
      BY <2>8 DEF ThreadEnds
    <3>2. CASE pc # "model"
      <4>1. last \in Calls
        BY <3>2 DEF CallInProgress
      <4>2. \/ UNCHANGED <<effects[last], threads[last]>>
            \/ /\ threads[last] > 0 /\ threads'[last] = threads[last] - 1
               /\ effects'[last] \in {effects[last], effects[last] + 1}
        BY <2>8, <4>1, MayApplyType DEF ThreadEnds
      <4>3. Tried' <= Tried /\ Tried' \in Nat /\ Tried \in Nat
        BY <3>1, <4>1, <4>2, SMTT(30) DEF Tried
      <4>4. QED
        BY <3>1, <4>3 DEF AttemptsCounted
    <3>3. QED
      BY <3>1, <3>2
  <2>9. pc' = "model" \/ UNCHANGED <<pc, last, call, attempt, toolVars>>
        \/ (\E t \in Tools : AskUser(t) \/ CallTool(t)) \/ TakeReply \/ Retry
        \/ ((ToolRaises \/ ToolTimesOut) /\ pc' # "model") \/ (\E c \in Calls : ThreadEnds(c))
    BY DEF Next, Gate, Execute, Client, Network, Quiescent, vars, StartRun, EndRun, CancelCall,
           RejectCall, NewCall, ConfirmationTimeout, ToolSucceeds, Answer, Deliver, Lose, Report
  <2>10. QED
    BY <2>1, <2>2, <2>3, <2>4, <2>5, <2>6, <2>7, <2>8, <2>9
<1>3. QED
  BY <1>1, <1>2 DEF AttemptsCounted

LEMMA NextRepliesHonest == ASSUME IInv, [Next]_vars PROVE RepliesHonest'
<1> USE DEF IInv, runVars, clientVars, RepliesHonest, Honest
<1>1. ASSUME NEW c \in Calls, Answer(c) PROVE RepliesHonest'
  BY <1>1 DEF Answer
<1>2. ASSUME NEW m \in mail, Deliver(m) PROVE RepliesHonest'
  <2>1. queue \in Seq(Reply) /\ mail \subseteq Reply
    BY DEF TypeOK
  <2>2. \A i \in DOMAIN queue' : queue'[i] = m \/ (i \in DOMAIN queue /\ queue'[i] = queue[i])
    BY <1>2, <2>1, AppendProperties DEF Deliver
  <2>3. QED
    BY <1>2, <2>2 DEF Deliver
<1>3. ASSUME NEW m \in mail, Lose(m) PROVE RepliesHonest'
  BY <1>3 DEF Lose
<1>4. CASE TakeReply
  <2>1. queue \in Seq(Reply) /\ queue # <<>>
    BY <1>4 DEF TypeOK, TakeReply
  <2>2. \A i \in DOMAIN Tail(queue) : i + 1 \in DOMAIN queue /\ Tail(queue)[i] = queue[i + 1]
    BY <2>1, HeadTailProperties
  <2>3. QED
    BY <1>4, <2>2 DEF TakeReply
<1>5. CASE UNCHANGED <<mail, queue, allowed, declined>>
  BY <1>5
<1>6. QED
  BY <1>1, <1>2, <1>3, <1>4, <1>5
     DEF Next, Gate, Execute, Client, Network, Quiescent, vars, StartRun, EndRun, CancelCall,
         RejectCall, AskUser, CallTool, ConfirmationTimeout, ToolSucceeds, ToolRaises,
         ToolTimesOut, Retry, ThreadEnds

\* Records and consent after a step: a record is written once, consent stays.
LEMMA StepRecords ==
  ASSUME IInv, [Next]_vars
  PROVE  /\ \A c \in Calls : c <= last => call'[c] = call[c]
         /\ allowed \subseteq allowed' /\ declined \subseteq declined'
         /\ last' = last \/ (last' = last + 1 /\ last + 1 \in Calls)
<1> USE TypeFacts DEF clientVars
<1>1. CASE UNCHANGED <<call, last, allowed, declined>>
  BY <1>1
<1>2. ASSUME NEW t \in Tools, NewCall(t), UNCHANGED <<allowed, declined>>
      PROVE  /\ \A c \in Calls : c <= last => call'[c] = call[c]
             /\ last' = last + 1 /\ last + 1 \in Calls
  BY <1>2 DEF NewCall, IInv, TypeOK
<1>3. ASSUME NEW c \in Calls, Answer(c)
      PROVE  UNCHANGED <<call, last>> /\ allowed \subseteq allowed' /\ declined \subseteq declined'
  BY <1>3 DEF Answer
<1>4. ASSUME NEW t \in Tools, RejectCall(t) \/ AskUser(t) \/ CallTool(t)
      PROVE  NewCall(t) /\ UNCHANGED <<allowed, declined>>
  BY <1>4 DEF RejectCall, AskUser, CallTool
<1>5. Gate \/ Client \/ UNCHANGED <<call, last, allowed, declined>>
  BY DEF Next, Execute, Network, Quiescent, vars, StartRun, EndRun, CancelCall, TakeReply,
         ConfirmationTimeout, ToolSucceeds, ToolRaises, ToolTimesOut, Retry, Deliver, Lose,
         ThreadEnds
<1>6. CASE Gate
  BY <1>2, <1>4, <1>6 DEF Gate
<1>7. CASE Client
  BY <1>3, <1>7 DEF Client
<1>8. QED
  BY <1>1, <1>5, <1>6, <1>7

\* The outcome of one call after a step, and what the step did to its effects.
OutcomeStep(c) ==
    \/ outcome'[c] = outcome[c]
    \/ c = last + 1 /\ outcome'[c] = "rejected" /\ UNCHANGED toolVars
    \/ /\ c = last /\ pc = "confirming"
       /\ outcome'[c] \in {"denied", "withdrawn"} /\ UNCHANGED toolVars
    \/ /\ c = last /\ pc \in {"calling", "backoff"}
       /\ outcome'[c] \in {"ok", "error", "timeout", "cancelled"}
       /\ outcome'[c] = "ok" => effects'[c] = effects[c] + 1

LEMMA StepOutcome == ASSUME IInv, [Next]_vars, NEW c \in Calls PROVE OutcomeStep(c)
<1> USE TypeFacts DEF IInv, toolVars, OutcomeStep, Report
<1>1. CASE UNCHANGED outcome
  BY <1>1
<1>2. ASSUME NEW t \in Tools, RejectCall(t) PROVE OutcomeStep(c)
  BY <1>2 DEF RejectCall
<1>3. CASE TakeReply
  <2>1. outcome' = outcome \/ outcome' = [outcome EXCEPT ![last] = "denied"]
    BY <1>3 DEF TakeReply
  <2>2. QED
    BY <1>3, <2>1 DEF TakeReply
<1>4. CASE ConfirmationTimeout
  BY <1>4 DEF ConfirmationTimeout
<1>5. CASE CancelCall
  BY <1>5 DEF CancelCall, TypeOK
<1>6. CASE ToolSucceeds
  BY <1>6 DEF ToolSucceeds, CallInProgress
<1>7. CASE ToolRaises \/ ToolTimesOut
  BY <1>7 DEF ToolRaises, ToolTimesOut
<1>8. QED
  BY <1>1, <1>2, <1>3, <1>4, <1>5, <1>6, <1>7
     DEF Next, Gate, Execute, Client, Network, Quiescent, vars, StartRun, EndRun, AskUser,
         CallTool, Retry, Answer, Deliver, Lose, ThreadEnds

LEMMA NextConsented == ASSUME IInv, [Next]_vars PROVE Consented'
<1> USE TypeFacts, StepRecords DEF IInv
<1>1. ASSUME NEW t \in Tools, CallTool(t) PROVE Consented'
  BY <1>1 DEF CallTool, NewCall, Consented, TypeOK
<1>2. CASE TakeReply
  <2>1. queue \in Seq(Reply) /\ queue # <<>>
    BY <1>2 DEF TypeOK, TakeReply
  <2>2. Head(queue) = queue[1] /\ 1 \in DOMAIN queue
    BY <2>1, HeadTailProperties
  <2>3. Honest(Head(queue))
    BY <2>2 DEF RepliesHonest
  <2>4. pc' = "calling" => last \in allowed
    BY <1>2, <2>3 DEF TakeReply, Mine, Honest, Report
  <2>5. pc' # "backoff" /\ last' = last
    BY <1>2 DEF TakeReply, Report
  <2>6. QED
    BY <2>4, <2>5 DEF Consented
<1>3. CASE pc' \in {"model", "confirming"}
  BY <1>3 DEF Consented
<1>4. CASE pc \in {"calling", "backoff"} /\ UNCHANGED <<last, call>>
  BY <1>4 DEF Consented
<1>5. pc' \in {"model", "confirming"} \/ (pc \in {"calling", "backoff"} /\ UNCHANGED <<last, call>>)
      \/ TakeReply \/ \E t \in Tools : CallTool(t)
  BY DEF Next, Gate, Execute, Client, Network, Quiescent, vars, StartRun, EndRun, CancelCall,
         RejectCall, AskUser, NewCall, ConfirmationTimeout, ToolSucceeds, ToolRaises,
         ToolTimesOut, Retry, Answer, Deliver, Lose, ThreadEnds, Report, TypeOK
<1>6. QED
  BY <1>1, <1>2, <1>3, <1>4, <1>5

LEMMA NextOneAnswer == ASSUME IInv, [Next]_vars PROVE OneAnswer'
<1> USE DEF IInv, clientVars
<1>0. /\ prompts \subseteq 1..last /\ allowed \subseteq 1..last /\ declined \subseteq 1..last
      /\ last \in Nat
  BY TypeFacts DEF TypeOK
<1>1. ASSUME NEW t \in Tools, AskUser(t) PROVE OneAnswer'
  <2>1. /\ prompts' = prompts \cup {last + 1} /\ UNCHANGED <<allowed, declined>>
        /\ last + 1 \in Calls /\ last + 1 \notin 1..last
        /\ call' = [call EXCEPT ![last + 1] = [session |-> active, tool |-> t, asked |-> TRUE]]
    BY <1>0, <1>1 DEF AskUser, NewCall
  <2>2. call'[last + 1].asked /\ \A c \in 1..last : call'[c] = call[c]
    BY <1>0, <2>1 DEF TypeOK
  <2>3. QED
    BY <1>0, <2>1, <2>2 DEF OneAnswer
<1>2. ASSUME NEW c \in Calls, Answer(c) PROVE OneAnswer'
  <2>1. /\ c \in prompts /\ prompts' = prompts \ {c} /\ UNCHANGED call
        /\ \/ allowed' = allowed \cup {c} /\ UNCHANGED declined
           \/ declined' = declined \cup {c} /\ UNCHANGED allowed
    BY <1>2 DEF Answer
  <2>2. QED
    BY <2>1 DEF OneAnswer
<1>3. ASSUME UNCHANGED <<prompts, allowed, declined>>, \A c \in Calls : c <= last => call'[c] = call[c]
      PROVE  OneAnswer'
  <2>1. \A c \in 1..last : call'[c] = call[c]
    BY <1>0, <1>3 DEF TypeOK
  <2>2. QED
    BY <1>0, <1>3, <2>1 DEF OneAnswer
<1>4. (\E t \in Tools : AskUser(t)) \/ Client \/ UNCHANGED <<prompts, allowed, declined>>
  BY DEF Next, Gate, Execute, Network, Quiescent, vars, StartRun, EndRun, CancelCall, RejectCall,
         CallTool, TakeReply, ConfirmationTimeout, ToolSucceeds, ToolRaises, ToolTimesOut, Retry,
         Deliver, Lose, ThreadEnds
<1>5. QED
  BY <1>1, <1>2, <1>3, <1>4, StepRecords DEF Client

LEMMA NextRepliesDecide == ASSUME IInv, [Next]_vars PROVE RepliesDecideTheirCall'
<1> SUFFICES ASSUME NEW c \in Calls
             PROVE  /\ (effects'[c] + threads'[c] > 0 /\ call'[c].asked) => c \in allowed'
                    /\ c \in declined' => effects'[c] + threads'[c] = 0
  BY DEF RepliesDecideTheirCall
<1> USE TypeFacts, StepRecords DEF IInv, RepliesDecideTheirCall
<1>1. ASSUME effects'[c] + threads'[c] > 0, call'[c].asked PROVE c \in allowed'
  <2>1. EffectsStep(c)
    BY StepEffects
  <2>2. CASE c = last /\ pc = "calling"
    BY <1>1, <2>2 DEF Consented
  <2>3. CASE effects[c] + threads[c] > 0
    <3>1. c > last => effects[c] = 0 /\ threads[c] = 0
      BY DEF Untouched
    <3>2. c \in Int /\ last \in Int
      OBVIOUS
    <3>3. c <= last
      BY <2>3, <3>1, <3>2
    <3>4. call'[c] = call[c]
      BY <3>3
    <3>5. c \in allowed
      BY <1>1, <2>3, <3>4
    <3>6. QED
      BY <3>5
  <2>4. QED
    BY <1>1, <2>1, <2>2, <2>3 DEF EffectsStep
<1>2. ASSUME c \in declined' PROVE effects'[c] + threads'[c] = 0
  <2>1. call'[c].asked /\ c \notin allowed'
    BY <1>2, NextOneAnswer DEF OneAnswer
  <2>2. effects'[c] \in Nat /\ threads'[c] \in Nat
    <3>1. TypeOK'
      BY NextTypeOK
    <3>2. effects' \in [Calls -> Nat] /\ threads' \in [Calls -> 0..MaxAttempts]
      BY <3>1 DEF TypeOK
    <3>3. QED
      BY <3>2
  <2>3. QED
    BY <1>1, <2>1, <2>2
<1>3. QED
  BY <1>1, <1>2

LEMMA NextRefusedNeverApplied == ASSUME IInv, [Next]_vars PROVE RefusedNeverApplied'
<1> SUFFICES ASSUME NEW c \in Calls,
                    outcome'[c] \in {"rejected", "denied", "withdrawn"}
             PROVE  effects'[c] + threads'[c] = 0
  BY DEF RefusedNeverApplied
<1> USE TypeFacts DEF IInv
<1>1. EffectsStep(c) /\ OutcomeStep(c)
  BY StepEffects, StepOutcome
<1>2. CASE outcome'[c] = outcome[c]
  <2>1. effects[c] = 0 /\ threads[c] = 0
    BY <1>2 DEF RefusedNeverApplied
  <2>2. ~(c = last /\ pc = "calling")
    BY <1>2 DEF CallInProgress
  <2>3. QED
    BY <1>1, <2>1, <2>2 DEF EffectsStep
<1>3. CASE c = last + 1 /\ UNCHANGED toolVars
  <2>1. effects[c] = 0 /\ threads[c] = 0
    BY <1>3 DEF Untouched
  <2>2. QED
    BY <1>3, <2>1 DEF toolVars
<1>4. CASE c = last /\ pc = "confirming" /\ UNCHANGED toolVars
  BY <1>4 DEF toolVars, AttemptsCounted, Tried
<1>5. QED
  BY <1>1, <1>2, <1>3, <1>4 DEF OutcomeStep

LEMMA NextSuccessHappened == ASSUME IInv, [Next]_vars PROVE SuccessHappened'
<1> SUFFICES ASSUME NEW c \in Calls, outcome'[c] = "ok" PROVE effects'[c] > 0
  BY DEF SuccessHappened
<1>1. EffectsStep(c) /\ OutcomeStep(c)
  BY StepEffects, StepOutcome
<1>2. QED
  BY <1>1, TypeFacts DEF IInv, SuccessHappened, EffectsStep, OutcomeStep

\* Every reachable state satisfies the inductive invariant.
THEOREM Invariance == Spec => []IInv
<1>1. Init => IInv
  BY InitIInv
<1>2. IInv /\ [Next]_vars => IInv'
  BY NextTypeOK, NextCallInProgress, NextUntouched, NextAttemptsCounted, NextRepliesHonest,
     NextOneAnswer, NextConsented, NextRepliesDecide, NextRefusedNeverApplied, NextSuccessHappened DEF IInv
<1>3. QED
  BY <1>1, <1>2, PTL DEF Spec

\* Every variable of the tool calls keeps its type; in particular no call has
\* more abandoned threads than execute_tool makes attempts.
THEOREM TypeCorrect == Spec => []TypeOK
  BY Invariance, PTL DEF IInv

\* A gated call runs only with a yes given to that very call and never after a no,
\* however many late replies of other calls, runs and sessions the shared queue
\* holds, and however many deadlines pass without one.
THEOREM ConsentComesFirst == Spec => []ConsentFirst
<1>1. IInv => ConsentFirst
  BY DEF IInv, ConsentFirst, DangerousNeedsConsent, Consented, CallInProgress, Requires
<1>2. QED
  BY <1>1, Invariance, PTL

\* A refused call never has an effect, a reported success did happen, and the
\* effects and threads of a call never exceed the attempts, however late the
\* threads that were given up end.
THEOREM EffectsAreAccounted == Spec => []EffectsAccounted
<1>1. IInv => EffectsAccounted
  <2> SUFFICES ASSUME IInv PROVE EffectsAccounted
    OBVIOUS
  <2>1. ASSUME NEW c \in Calls
        PROVE  effects[c] + threads[c] + (IF pc = "calling" /\ c = last THEN 1 ELSE 0)
                   <= MaxAttempts
    BY TypeFacts, SMTT(30) DEF IInv, AttemptsCounted, Tried
  <2>2. QED
    BY <2>1 DEF IInv, EffectsAccounted, EffectsBounded, SuccessHappened
<1>2. QED
  BY <1>1, Invariance, PTL

-----------------------------------------------------------------------------
(* The refinement of ToolContract.                                          *)

\* The phase of a call, read from the place of the latest call and the outcomes.
LEMMA PhaseOfCall ==
  ASSUME IInv, NEW c \in Calls
  PROVE  /\ PhaseOf(c) = "new" <=> c > last
         /\ c <= last =>
              /\ PhaseOf(c) = "refused" <=>
                     outcome[c] \in {"rejected", "denied", "withdrawn"}
              /\ PhaseOf(c) = "asked" <=> (c = last /\ pc = "confirming")
              /\ PhaseOf(c) \in {"refused", "asked", "started"}
  BY TypeFacts DEF PhaseOf, IInv, CallInProgress

LEMMA InitContract == Init => Contract!Init
  BY DEF Init, Contract!Init, PhaseOf

Stutter == UNCHANGED Contract!contractVars

\* One step of ToolCalls is one step of its contract, or changes nothing there.
LEMMA NextContract == ASSUME IInv, IInv', [Next]_vars PROVE [Contract!Next]_Contract!contractVars
<1> DEFINE phase == [c \in Calls |-> PhaseOf(c)]
<1> USE TypeFacts DEF runVars, clientVars, toolVars, Report, Contract!contractVars
<1>1. CASE UNCHANGED <<last, pc, outcome, allowed, effects>>
  BY <1>1 DEF PhaseOf
<1>2. ASSUME NEW c \in Calls, Answer(c) PROVE Contract!Consent(c) \/ Stutter
  <2>1. UNCHANGED phase /\ UNCHANGED effects
    BY <1>2 DEF Answer, PhaseOf
  <2>2. phase[c] # "new"
    BY <1>2, PhaseOfCall DEF Answer
  <2>3. allowed' = allowed \/ allowed' = allowed \cup {c}
    BY <1>2 DEF Answer
  <2>4. QED
    BY <2>1, <2>2, <2>3 DEF Contract!Consent, Stutter
<1>3. ASSUME NEW t \in Tools, RejectCall(t) \/ AskUser(t) \/ CallTool(t)
      PROVE  \E d \in Calls : Contract!Refuse(d) \/ Contract!Ask(d) \/ Contract!Start(d)
  <2>1. /\ pc = "model" /\ last' = last + 1 /\ last + 1 \in Calls
        /\ UNCHANGED <<allowed, effects>>
    BY <1>3 DEF RejectCall, AskUser, CallTool, NewCall
  <2>2. PICK d \in Calls : d = last + 1
    BY <2>1
  <2>3. outcome[d] = "none"
    BY <2>2 DEF IInv, Untouched
  <2>4. \A c \in Calls : c # d => outcome'[c] = outcome[c]
    BY <1>3, <2>2 DEF RejectCall, AskUser, CallTool
  <2>5. \A c \in Calls : c # d => PhaseOf(c)' = PhaseOf(c)
    BY <2>1, <2>2, <2>4, SMTT(30) DEF PhaseOf
  <2>6. phase[d] = "new"
    BY <2>2 DEF PhaseOf
  <2>7. phase' = [phase EXCEPT ![d] = PhaseOf(d)']
    BY <2>5
  <2>8. PhaseOf(d)' \in {"refused", "asked", "started"}
    BY <2>1, <2>2 DEF PhaseOf
  <2>9. QED
    BY <2>1, <2>6, <2>7, <2>8 DEF Contract!Refuse, Contract!Ask, Contract!Start
<1>4. CASE pc = "confirming" /\ pc' \in {"model", "calling"} /\ UNCHANGED <<last, allowed, effects>>
           /\ (\A c \in Calls : c # last => outcome'[c] = outcome[c])
           /\ (IF pc' = "model" THEN outcome'[last] \in {"denied", "withdrawn"}
                                ELSE outcome' = outcome /\ last \in allowed)
  <2>1. last \in Calls /\ outcome[last] = "none"
    BY <1>4 DEF IInv, CallInProgress
  <2>2. \A c \in Calls : c # last => PhaseOf(c)' = PhaseOf(c)
    BY <1>4 DEF PhaseOf
  <2>3. phase[last] = "asked"
    BY <1>4, <2>1 DEF PhaseOf
  <2>4. phase' = [phase EXCEPT ![last] = PhaseOf(last)']
    BY <1>4, <2>1, <2>2
  <2>5. PhaseOf(last)' = (IF pc' = "model" THEN "refused" ELSE "started")
    BY <1>4, <2>1 DEF PhaseOf
  <2>6. Contract!Refuse(last) \/ Contract!Start(last)
    BY <1>4, <2>3, <2>4, <2>5 DEF Contract!Refuse, Contract!Start
  <2>7. QED
    BY <2>1, <2>6 DEF Contract!Next
<1>5. CASE Execute \/ (CancelCall /\ pc # "confirming")
  <2>1. last \in Calls /\ outcome[last] = "none" /\ pc \in {"calling", "backoff"}
    BY <1>5 DEF IInv, TypeOK, CallInProgress, CancelCall, Execute, ToolSucceeds, ToolRaises,
                ToolTimesOut, Retry
  <2>2. UNCHANGED <<last, allowed>> /\ pc' # "confirming"
    BY <1>5 DEF CancelCall, Execute, ToolSucceeds, ToolRaises, ToolTimesOut, Retry
  <2>3. /\ \A c \in Calls : c # last => outcome'[c] = outcome[c]
        /\ outcome'[last] \in {"none", "ok", "error", "timeout", "cancelled"}
    BY <1>5, <2>1 DEF CancelCall, Execute, ToolSucceeds, ToolRaises, ToolTimesOut, Retry
  <2>4. UNCHANGED phase /\ phase[last] = "started"
    BY <2>1, <2>2, <2>3 DEF PhaseOf
  <2>5. effects' = effects \/ (pc = "calling" /\ effects' = [effects EXCEPT ![last] = @ + 1])
    BY <1>5 DEF CancelCall, Execute, ToolSucceeds, ToolRaises, ToolTimesOut, Retry, MayApply
  <2>6. pc = "calling" => effects[last] < MaxAttempts
    BY <2>1 DEF IInv, AttemptsCounted, Tried
  <2>7. Contract!Apply(last) \/ Stutter
    BY <2>2, <2>4, <2>5, <2>6 DEF Contract!Apply, Stutter
  <2>8. QED
    BY <2>1, <2>7 DEF Contract!Next, Stutter
<1>6. ASSUME NEW c \in Calls, ThreadEnds(c) PROVE Contract!Apply(c) \/ Stutter
  <2>1. UNCHANGED <<phase, allowed>> /\ threads[c] > 0
    BY <1>6 DEF ThreadEnds, PhaseOf
  <2>2. c <= last /\ outcome[c] \notin {"rejected", "denied", "withdrawn"}
    <3>1. c > last => threads[c] = 0
      BY DEF IInv, Untouched
    <3>2. outcome[c] \in {"rejected", "denied", "withdrawn"} => threads[c] = 0
      BY DEF IInv, RefusedNeverApplied
    <3>3. QED
      BY <2>1, <3>1, <3>2
  <2>3. ~(c = last /\ pc = "confirming")
    BY <2>1 DEF IInv, AttemptsCounted, Tried
  <2>4. phase[c] = "started"
    BY <2>2, <2>3 DEF PhaseOf
  <2>5. effects[c] < MaxAttempts
    BY <2>1 DEF IInv, AttemptsCounted
  <2>6. effects' = effects \/ effects' = [effects EXCEPT ![c] = @ + 1]
    BY <1>6 DEF ThreadEnds, MayApply
  <2>7. QED
    BY <2>1, <2>4, <2>5, <2>6 DEF Contract!Apply, Stutter
<1>7. CASE TakeReply \/ ConfirmationTimeout \/ (CancelCall /\ pc = "confirming")
  <2>1. last \in Calls /\ pc = "confirming" /\ UNCHANGED <<last, allowed, effects>>
    BY <1>7 DEF IInv, CallInProgress, TakeReply, ConfirmationTimeout, CancelCall
  <2>2. CASE UNCHANGED <<pc, outcome>>
    BY <1>1, <2>1, <2>2
  <2>3. CASE pc' = "calling" /\ outcome' = outcome
    <3>1. last' \in Calls /\ call'[last'].asked
      BY <2>1, StepRecords DEF IInv, AttemptsCounted
    <3>2. last \in allowed
      BY <2>1, <2>3, <3>1 DEF IInv, Consented
    <3>3. QED
      BY <1>4, <2>1, <2>3, <3>2
  <2>4. CASE pc' = "model" /\ \E r \in {"denied", "withdrawn"} :
                                  outcome' = [outcome EXCEPT ![last] = r]
    BY <1>4, <2>1, <2>4
  <2>5. QED
    BY <1>7, <2>1, <2>2, <2>3, <2>4 DEF TakeReply, ConfirmationTimeout, CancelCall
<1>8. CASE UNCHANGED vars \/ EndRun \/ Network \/ \E s \in Sessions : StartRun(s)
  BY <1>1, <1>8 DEF vars, EndRun, Network, Deliver, Lose, StartRun
<1>9. QED
  BY <1>2, <1>3, <1>5, <1>6, <1>7, <1>8
     DEF Next, Gate, Client, Quiescent, Contract!Next, Stutter

\* The loop never does to a call what its contract forbids.
THEOREM Refinement == Spec => ImplementsContract
<1>1. IInv /\ IInv' /\ [Next]_vars => [Contract!Next]_Contract!contractVars
  BY NextContract
<1>2. QED
  BY <1>1, InitContract, Invariance, PTL DEF Spec, ImplementsContract, Contract!Contract
=============================================================================
