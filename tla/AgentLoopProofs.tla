---------------------------- MODULE AgentLoopProofs ----------------------------
(***************************************************************************)
(* Proofs about AgentLoop, for any limits, budgets and window sizes: the   *)
(* context sent to the model keeps its shape and its size, every turn is   *)
(* recorded once and in order, the tool budget holds, and a run ends for a *)
(* reason that its records tell.                                           *)
(***************************************************************************)
EXTENDS AgentLoop, ToolResultCache, SequenceTheorems, TLAPS

USE BudgetAssumption, ContextAssumption

-----------------------------------------------------------------------------
(* Sequences of messages.                                                   *)

\* A context: the system prompt comes first and nowhere else.
Context(ms) ==
    /\ ms \in Seq(Kinds) /\ Len(ms) >= 1
    /\ \A i \in DOMAIN ms : ms[i] = "system" <=> i = 1

LEMMA AppendToContext ==
  ASSUME NEW ms, Context(ms), NEW kind \in Kinds, kind # "system"
  PROVE  /\ Context(Append(ms, kind))
         /\ Last(Append(ms, kind)) = kind
  BY AppendProperties DEF Context, Last

\* The messages that a trim or a compaction keeps.
LEMMA LastNProperties ==
  ASSUME NEW S, NEW s \in Seq(S), NEW n \in 0..Len(s)
  PROVE  /\ LastN(s, n) \in Seq(S) /\ Len(LastN(s, n)) = n
         /\ \A i \in 1..n : LastN(s, n)[i] = s[Len(s) - n + i]
<1>1. Len(s) \in Nat
  BY LenProperties
<1>2. SubSeq(s, Len(s) - n + 1, Len(s)) \in Seq(S)
  BY <1>1, SubSeqProperties
<1>3. Len(SubSeq(s, Len(s) - n + 1, Len(s))) = n
  BY <1>1, SubSeqProperties
<1>4. ASSUME NEW i \in 1..n PROVE SubSeq(s, Len(s) - n + 1, Len(s))[i] = s[Len(s) - n + i]
  BY <1>1, SubSeqProperties
<1>5. QED
  BY <1>2, <1>3, <1>4 DEF LastN

\* A shortened context: a new beginning and the latest messages.
LEMMA Shortened ==
  ASSUME NEW ms, Context(ms), NEW head, Context(head),
         NEW n \in Nat \ {0}, n < Len(ms)
  PROVE  /\ Context(head \o LastN(ms, n))
         /\ Last(head \o LastN(ms, n)) = Last(ms)
         /\ Len(head \o LastN(ms, n)) = Len(head) + n
<1> DEFINE tail == LastN(ms, n)
<1>1. ms \in Seq(Kinds) /\ head \in Seq(Kinds) /\ Len(ms) \in Nat /\ Len(head) \in Nat
  BY LenProperties DEF Context
<1>2. /\ tail \in Seq(Kinds) /\ Len(tail) = n
      /\ \A i \in 1..n : tail[i] = ms[Len(ms) - n + i]
  BY <1>1, LastNProperties
<1>3. \A i \in 1..n : tail[i] # "system"
  <2> TAKE i \in 1..n
  <2>1. Len(ms) - n + i \in DOMAIN ms /\ Len(ms) - n + i # 1
    BY <1>1, LenProperties
  <2>2. QED
    BY <1>2, <2>1 DEF Context
<1> HIDE DEF tail
<1>4. /\ head \o tail \in Seq(Kinds) /\ Len(head \o tail) = Len(head) + n
      /\ \A i \in 1..Len(head) + n :
            (head \o tail)[i] = IF i <= Len(head) THEN head[i] ELSE tail[i - Len(head)]
  <2>1. head \in Seq(Kinds) /\ tail \in Seq(Kinds)
    BY <1>1, <1>2
  <2>2. head \o tail \in Seq(Kinds) /\ Len(head \o tail) = Len(head) + Len(tail)
    BY <2>1, ConcatProperties
  <2>3. \A i \in 1..Len(head) + Len(tail) :
            (head \o tail)[i] = IF i <= Len(head) THEN head[i] ELSE tail[i - Len(head)]
    BY <2>1, ConcatProperties
  <2>4. QED
    BY <1>2, <2>2, <2>3
<1>5. \A i \in 1..Len(head) + n : (head \o tail)[i] = "system" <=> i = 1
  <2> TAKE i \in 1..Len(head) + n
  <2>1. CASE i <= Len(head)
    BY <1>1, <1>4, <2>1, LenProperties DEF Context
  <2>2. CASE ~(i <= Len(head))
    <3>1. i - Len(head) \in 1..n /\ i # 1
      BY <1>1, <2>2 DEF Context
    <3>2. QED
      BY <1>3, <1>4, <2>2, <3>1
  <2>3. QED
    BY <2>1, <2>2
<1>6. Context(head \o tail)
  BY <1>1, <1>4, <1>5, LenProperties DEF Context
<1>7. Last(head \o tail) = Last(ms)
  <2>1. (head \o tail)[Len(head) + n] = tail[n]
    BY <1>1, <1>4
  <2>2. tail[n] = ms[Len(ms)]
    BY <1>1, <1>2
  <2>3. QED
    BY <1>4, <2>1, <2>2 DEF Last
<1>8. QED
  BY <1>4, <1>6, <1>7 DEF tail

\* A trim keeps the shape and the last message, and bounds the length.
LEMMA TrimKeeps ==
  ASSUME NEW ms, Context(ms)
  PROVE  /\ Context(Trim(ms)) /\ Last(Trim(ms)) = Last(ms)
         /\ Len(Trim(ms)) <= TrimThreshold + TrimSlack
<1>1. ms \in Seq(Kinds) /\ Len(ms) \in Nat
  BY LenProperties DEF Context
<1>2. CASE Len(ms) > TrimThreshold + TrimSlack
  <2>1. ms[1] = "system" /\ ms[2] \in Kinds /\ ms[2] # "system"
    BY <1>1, <1>2, LenProperties DEF Context
  <2>2. TrimThreshold < Len(ms)
    BY <1>1, <1>2
  <2>3. CASE ms[2] \in UserKinds
    <3>1. Context(<<ms[1]>> \o <<ms[2]>>) /\ Len(<<ms[1]>> \o <<ms[2]>>) = 2
      BY <2>1 DEF Context, Kinds
    <3>2. Trim(ms) = (<<ms[1]>> \o <<ms[2]>>) \o LastN(ms, TrimThreshold)
      BY <1>2, <2>3 DEF Trim
    <3>3. QED
      BY <1>1, <2>2, <3>1, <3>2, Shortened
  <2>4. CASE ms[2] \notin UserKinds
    <3>1. Context(<<ms[1]>> \o <<>>) /\ Len(<<ms[1]>> \o <<>>) = 1
      BY <2>1 DEF Context, Kinds
    <3>2. Trim(ms) = (<<ms[1]>> \o <<>>) \o LastN(ms, TrimThreshold)
      BY <1>2, <2>4 DEF Trim
    <3>3. QED
      BY <1>1, <2>2, <3>1, <3>2, Shortened
  <2>5. QED
    BY <2>3, <2>4
<1>3. CASE ~(Len(ms) > TrimThreshold + TrimSlack)
  BY <1>1, <1>3 DEF Trim
<1>4. QED
  BY <1>2, <1>3

\* So does a compaction.
LEMMA CompactKeeps ==
  ASSUME NEW ms, Context(ms), NEW cs \in MayCompact(ms)
  PROVE  Context(cs) /\ Last(cs) = Last(ms) /\ Len(cs) <= Len(ms) + 1
<1>1. ms \in Seq(Kinds) /\ Len(ms) \in Nat
  BY LenProperties DEF Context
<1>2. CASE cs = Compact(ms) /\ Len(ms) > KeepRecent + 1
  <2>1. ms[1] = "system"
    BY <1>1, LenProperties DEF Context
  <2>2. Context(<<ms[1], "note", "ack">>)
    BY <2>1 DEF Context, Kinds, UserKinds
  <2>3. KeepRecent \in Nat \ {0} /\ KeepRecent < Len(ms)
    BY <1>1, <1>2
  <2>4. cs = <<ms[1], "note", "ack">> \o LastN(ms, KeepRecent)
    BY <1>2 DEF Compact
  <2> PICK head : head = <<ms[1], "note", "ack">>
    OBVIOUS
  <2>5. Context(cs) /\ Last(cs) = Last(ms) /\ Len(cs) = Len(head) + KeepRecent
    BY <2>2, <2>3, <2>4, Shortened
  <2>6. Len(head) = 3
    OBVIOUS
  <2>7. QED
    BY <1>1, <1>2, <2>3, <2>5, <2>6
<1>3. CASE cs = ms
  BY <1>3
<1>4. CASE cs = Compact(ms) /\ ~(Len(ms) > KeepRecent + 1)
  BY <1>4 DEF Compact
<1>5. QED
  BY <1>2, <1>3, <1>4 DEF MayCompact

-----------------------------------------------------------------------------
(* The inductive invariant.                                                 *)

\* The messages form a context, and whenever the model is to be asked the last
\* one is of the user's side: also after calls that all were declined, for then
\* the refusal itself is.
MessagesFit ==
    /\ Context(messages)
    /\ pc \in {"top", "llm"} => Last(messages) \in UserKinds
    /\ pc = "llm" => Len(messages) <= TrimThreshold + TrimSlack /\ executed = 0
    /\ pc = "tools" =>
          /\ asked >= 1 /\ todo + executed <= asked
          /\ todo < asked => Last(messages) \in UserKinds

\* By how much the messages have outgrown the window since the last trim.
MessagesBounded ==
    /\ pc = "tools" => Len(messages) <= TrimThreshold + TrimSlack + 2 + (asked - todo)
    /\ pc \in {"top", "over"} /\ turn > 0 =>
          Len(messages) <= TrimThreshold + TrimSlack + MaxCalls + 3

\* A turn leaves room for its calls in the budget.
BudgetLeft ==
    /\ pc \in {"llm", "tools"} => turn >= 1
    /\ pc = "llm" => total + MaxCalls <= turn * MaxCalls
    /\ pc = "tools" => total + todo <= turn * MaxCalls

\* A run that is not over has no response yet, and only calls end its last turn.
StillRunning ==
    pc # "over" =>
        /\ status = "running" /\ response = "none"
        /\ pc = "top" /\ turn >= MaxTurns /\ turn > 0 => records[turn].outcome = "TOOL_CALLS"

IInv ==
    /\ TypeOK /\ MessagesFit /\ MessagesBounded /\ RecordPerTurn /\ BudgetLeft /\ ToolBudget
    /\ StillRunning /\ EmptyOnlyAfterTools /\ EndingsAgree

LEMMA InitIInv == Init => IInv
<1> SUFFICES ASSUME Init PROVE IInv
  OBVIOUS
<1> USE DEF Init
<1>1. OldMessages \in Seq(Kinds) /\ \A i \in DOMAIN OldMessages : OldMessages[i] # "system"
  BY DEF OldMessages, Kinds, UserKinds
<1>2. Context(messages) /\ Last(messages) = "prompt"
  <2> DEFINE s == <<"system">> \o OldMessages
  <2>1. s \in Seq(Kinds) /\ Len(s) = 1 + Len(OldMessages)
        /\ \A i \in 1..Len(s) : s[i] = IF i = 1 THEN "system" ELSE OldMessages[i - 1]
    BY <1>1, ConcatProperties, LenProperties DEF Kinds
  <2> HIDE DEF s
  <2>2. Context(s)
    BY <1>1, <2>1, LenProperties DEF Context
  <2>3. messages = Append(s, "prompt")
    BY <2>1 DEF s
  <2>4. QED
    BY <2>2, <2>3, AppendToContext DEF Kinds, UserKinds
<1>3. TypeOK
  <2>1. messages \in Seq(Kinds)
    BY <1>2 DEF Context
  <2>2. <<>> \in Seq([turn : Nat, outcome : Outcomes])
    BY EmptySeq
  <2>3. records \in Seq([turn : Nat, outcome : Outcomes])
    BY <2>2
  <2>4. /\ asked \in 0..MaxCalls /\ todo \in 0..asked /\ executed \in 0..MaxCalls
    OBVIOUS
  <2>5. pc \in {"top", "llm", "tools", "over"} /\ turn \in Nat
    OBVIOUS
  <2>6. total \in Nat /\ malformed \in 0..2
    OBVIOUS
  <2>9. forced \in BOOLEAN /\ offered \in BOOLEAN
    BY Zenon
  <2>7. response \in Responses /\ status \in {"running", "completed", "error", "cancelled"}
    BY DEF Responses
  <2>8. QED
    BY ONLY <2>1, <2>3, <2>4, <2>5, <2>6, <2>7, <2>9 DEF TypeOK
<1>4. /\ MessagesFit /\ MessagesBounded /\ RecordPerTurn /\ BudgetLeft /\ ToolBudget
      /\ StillRunning
  BY <1>2 DEF MessagesFit, MessagesBounded, RecordPerTurn, BudgetLeft, ToolBudget, StillRunning, UserKinds
<1>5. EmptyOnlyAfterTools /\ EndingsAgree
  BY DEF EmptyOnlyAfterTools, EndingsAgree
<1>6. QED
  BY <1>3, <1>4, <1>5 DEF IInv

-----------------------------------------------------------------------------
(* The messages.                                                            *)

LEMMA OneCallLess ==
  ASSUME NEW a \in Int, NEW t \in Int, NEW e \in Int, NEW e1 \in Int,
         e1 <= e + 1, t + e <= a
  PROVE  (t - 1) + e1 <= a
  OBVIOUS

LEMMA NextMessagesFit == ASSUME IInv, [Next]_vars PROVE MessagesFit'
<1> USE DEF IInv, MessagesFit
<1>0. Context(messages) /\ messages \in Seq(Kinds) /\ Len(messages) \in Nat
      /\ asked \in 0..MaxCalls /\ todo \in 0..asked /\ executed \in 0..MaxCalls
  BY LenProperties DEF Context, TypeOK
<1>1. CASE StartTurn
  <2>1. /\ Context(messages') /\ Last(messages') = Last(messages)
        /\ Len(messages') <= TrimThreshold + TrimSlack
    BY <1>1, TrimKeeps DEF StartTurn
  <2>2. QED
    BY <1>1, <2>1 DEF StartTurn
<1>2. ASSUME NEW cs \in MayCompact(messages), NEW kind \in Kinds \ {"system"},
             messages' = Append(cs, kind)
      PROVE  Context(messages') /\ Last(messages') = kind
  BY <1>0, <1>2, CompactKeeps, AppendToContext
<1>3. CASE Reissue
  <2>1. PICK cs \in MayCompact(messages) : messages' = Append(cs, "reissue")
    BY <1>3 DEF Reissue
  <2>2. QED
    BY <1>2, <1>3, <2>1 DEF Reissue, Kinds, UserKinds
<1>4. ASSUME NEW n \in 1..MaxCalls, BeginCalls(n), pc = "llm" PROVE MessagesFit'
  <2>1. PICK cs \in MayCompact(messages) : messages' = Append(cs, "calls")
    BY <1>4 DEF BeginCalls
  <2>2. Context(messages')
    BY <1>2, <2>1 DEF Kinds
  <2>3. QED
    BY <1>4, <2>2 DEF BeginCalls
<1>5. CASE ReplyWithCalls
  <2>1. PICK n \in Requested : \E m \in Corrected(Capped(n)) : BeginCalls(m)
    BY <1>5 DEF ReplyWithCalls
  <2>2. Capped(n) \in 1..MaxCalls /\ 1 \in 1..MaxCalls
    BY DEF Requested, Capped
  <2>3. Corrected(Capped(n)) \subseteq 1..MaxCalls
    BY <2>2 DEF Corrected
  <2>4. QED
    BY <1>4, <1>5, <2>1, <2>3 DEF ReplyWithCalls
<1>6. CASE ForceCall
  BY <1>4, <1>6 DEF ForceCall, SyntheticCalls
<1>7. CASE Answer
  <2>1. PICK cs \in MayCompact(messages) :
           messages' = cs \/ messages' = Append(cs, "listing")
    BY <1>7 DEF Answer, ForceListing
  <2>2. Context(messages')
    BY <1>0, <1>2, <2>1, CompactKeeps DEF Kinds
  <2>3. pc' = "over"
    BY <1>7 DEF Answer, ForceListing, Stop
  <2>4. QED
    BY <2>2, <2>3
<1>8. ASSUME NEW kind \in Kinds \ {"system"}, messages' = Append(messages, kind)
      PROVE  Context(messages') /\ Last(messages') = kind
  BY <1>0, <1>8, AppendToContext
<1>9. CASE ExecuteCall
  <2>1. PICK res \in CallResults :
          LET one == IF res.ran THEN 1 ELSE 0
          IN  messages' = Append(messages, res.kind) /\ executed' = executed + one
    BY <1>9 DEF ExecuteCall
  <2>2. res.kind \in UserKinds /\ UserKinds \subseteq Kinds \ {"system"}
    BY DEF CallResults, UserKinds, Kinds
  <2>3. Context(messages') /\ Last(messages') \in UserKinds
    BY <1>8, <2>1, <2>2
  <2>4. UNCHANGED <<pc, asked>> /\ todo' = todo - 1 /\ todo > 0 /\ pc = "tools"
    BY <1>9 DEF ExecuteCall
  <2>5. executed' <= executed + 1 /\ executed' \in Nat
    BY <1>0, <2>1
  <2>6. QED
    <3>1. todo \in Int /\ asked \in Int /\ executed \in Int /\ executed' \in Int
      BY <1>0, <2>5
    <3>2. todo + executed <= asked /\ asked >= 1
      BY <2>4
    <3>3. (todo - 1) + executed' <= asked
      BY <2>5, <3>1, <3>2, OneCallLess
    <3>4. QED
      BY <2>3, <2>4, <3>2, <3>3
<1>10. CASE Propose
  <2>1. messages' = messages \/ messages' = Append(messages, "ok")
    BY <1>10 DEF Propose
  <2>2. QED
    BY <1>8, <1>10, <2>1 DEF Propose, Kinds, UserKinds
<1>11. CASE EndTurn
  <2>1. messages' \in {messages, Append(messages, "nudge"), Append(messages, "answerNow")}
    BY <1>11 DEF EndTurn
  <2>2. Context(messages') /\ Last(messages') \in UserKinds
    BY <1>0, <1>8, <1>11, <2>1 DEF EndTurn, Kinds, UserKinds
  <2>3. QED
    BY <1>11, <2>2 DEF EndTurn
<1>12. CASE RunOut \/ CompletionFails \/ Cancel
  BY <1>12 DEF RunOut, CompletionFails, Cancel, Stop
<1>13. CASE UNCHANGED vars
  BY <1>13 DEF vars
<1>14. QED
  BY <1>1, <1>3, <1>5, <1>6, <1>7, <1>9, <1>10, <1>11, <1>12, <1>13
     DEF Next, Proceed, Returned

LEMMA NextMessagesBounded == ASSUME IInv, [Next]_vars PROVE MessagesBounded'
<1> PICK w : w = TrimThreshold + TrimSlack
  OBVIOUS
<1> USE DEF IInv
<1>0. /\ Context(messages) /\ messages \in Seq(Kinds) /\ Len(messages) \in Nat /\ w \in Nat
      /\ asked \in 0..MaxCalls /\ todo \in 0..asked /\ turn \in Nat
      /\ pc = "llm" => Len(messages) <= w
      /\ pc = "tools" => Len(messages) <= w + 2 + (asked - todo)
      /\ pc \in {"top", "over"} /\ turn > 0 => Len(messages) <= w + MaxCalls + 3
  BY LenProperties DEF Context, TypeOK, MessagesFit, MessagesBounded
<1>1. SUFFICES /\ pc' = "tools" => Len(messages') <= w + 2 + (asked' - todo')
               /\ pc' \in {"top", "over"} /\ turn' > 0 => Len(messages') <= w + MaxCalls + 3
  BY DEF MessagesBounded
<1>2. ASSUME NEW kind, messages' = Append(messages, kind)
      PROVE  Len(messages') = Len(messages) + 1
  BY <1>0, <1>2, AppendProperties DEF Context
<1>3. ASSUME NEW cs \in MayCompact(messages), pc = "llm"
      PROVE  /\ Len(cs) \in Nat /\ Len(cs) <= w + 1
             /\ \A kind : Len(Append(cs, kind)) = Len(cs) + 1
  <2>1. Context(cs) /\ Len(cs) <= Len(messages) + 1
    BY <1>0, CompactKeeps
  <2>2. Len(cs) \in Nat /\ \A kind : Len(Append(cs, kind)) = Len(cs) + 1
    BY <2>1, LenProperties, AppendProperties DEF Context
  <2>3. QED
    BY <1>0, <1>3, <2>1, <2>2
<1>4. CASE Reissue
  <2>1. PICK cs \in MayCompact(messages) : messages' = Append(cs, "reissue")
    BY <1>4 DEF Reissue
  <2>2. pc = "llm" /\ pc' = "top"
    BY <1>4 DEF Reissue
  <2>3. Len(messages') <= w + 2
    BY <1>0, <1>3, <2>1, <2>2
  <2>4. QED
    BY <1>0, <1>3, <2>1, <2>2, <2>3
<1>5. ASSUME NEW n, BeginCalls(n), pc = "llm", n \in Int
      PROVE  /\ pc' = "tools" /\ asked' = n /\ todo' = n
             /\ Len(messages') \in Nat /\ Len(messages') <= w + 2
  <2>1. PICK cs \in MayCompact(messages) : messages' = Append(cs, "calls")
    BY <1>5 DEF BeginCalls
  <2>2. QED
    BY <1>0, <1>3, <1>5, <2>1 DEF BeginCalls
<1>6. CASE ReplyWithCalls
  <2>1. PICK n \in Requested : \E m \in Corrected(Capped(n)) : BeginCalls(m)
    BY <1>6 DEF ReplyWithCalls
  <2>2. PICK m \in Corrected(Capped(n)) : BeginCalls(m)
    BY <2>1
  <2>3. m \in Int
    BY DEF Requested, Capped, Corrected
  <2>4. QED
    BY <1>0, <1>5, <1>6, <2>2, <2>3 DEF ReplyWithCalls
<1>7. CASE ForceCall
  BY <1>0, <1>5, <1>7 DEF ForceCall, SyntheticCalls
<1>8. CASE Answer
  <2>1. PICK cs \in MayCompact(messages) :
           messages' = cs \/ messages' = Append(cs, "listing")
    BY <1>8 DEF Answer, ForceListing
  <2>2. pc = "llm" /\ pc' = "over"
    BY <1>8 DEF Answer, ForceListing, Stop
  <2>3. Len(messages') <= w + 2
    BY <1>0, <1>3, <2>1, <2>2
  <2>4. QED
    BY <1>0, <1>3, <2>1, <2>2, <2>3
<1>9. CASE ExecuteCall
  <2>1. PICK res \in CallResults : messages' = Append(messages, res.kind)
    BY <1>9 DEF ExecuteCall
  <2>2. pc = "tools" /\ pc' = "tools" /\ asked' = asked /\ todo' = todo - 1
    BY <1>9 DEF ExecuteCall
  <2>3. QED
    BY <1>0, <1>2, <2>1, <2>2
<1>10. CASE Propose
  <2>1. messages' = messages \/ messages' = Append(messages, "ok")
    BY <1>10 DEF Propose
  <2>2. pc = "tools" /\ pc' = "over"
    BY <1>10 DEF Propose
  <2>3. QED
    BY <1>0, <1>2, <2>1, <2>2
<1>11. CASE EndTurn
  <2>1. messages' \in {messages, Append(messages, "nudge"), Append(messages, "answerNow")}
    BY <1>11 DEF EndTurn
  <2>2. pc = "tools" /\ pc' = "top"
    BY <1>11 DEF EndTurn
  <2>3. QED
    BY <1>0, <1>2, <2>1, <2>2
<1>12. CASE StartTurn
  BY <1>12 DEF StartTurn
<1>13. CASE RunOut \/ CompletionFails \/ Cancel
  <2>1. messages' = messages /\ turn' = turn /\ pc' = "over" /\ pc \in {"top", "llm", "tools"}
    BY <1>13 DEF RunOut, CompletionFails, Cancel, Stop
  <2>2. QED
    BY <1>0, <2>1
<1>14. CASE UNCHANGED vars
  BY <1>0, <1>14 DEF vars
<1>15. QED
  BY <1>4, <1>6, <1>7, <1>8, <1>9, <1>10, <1>11, <1>12, <1>13, <1>14
     DEF Next, Proceed, Returned

-----------------------------------------------------------------------------
(* The records.                                                             *)

Recorded == [turn : Nat, outcome : Outcomes]

LEMMA RecordProperties ==
  ASSUME IInv, NEW outcome \in Outcomes
  PROVE  /\ Record(outcome) \in Seq(Recorded)
         /\ Len(Record(outcome)) = Len(records) + 1
         /\ \A i \in 1..Len(records) : Record(outcome)[i] = records[i]
         /\ Record(outcome)[Len(records) + 1] = [turn |-> turn, outcome |-> outcome]
<1>1. records \in Seq(Recorded) /\ [turn |-> turn, outcome |-> outcome] \in Recorded
  BY DEF IInv, TypeOK, Recorded
<1>2. QED
  BY <1>1, AppendProperties, LenProperties DEF Record

\* Beside the last turn's record, a stop at the turn limit adds one.
LEMMA StopRecords ==
  ASSUME IInv, NEW recs \in Seq(Recorded), NEW resp, NEW ms, Stop(recs, resp, ms)
  PROVE  /\ records' \in Seq(Recorded)
         /\ \/ turn < MaxTurns /\ records' = recs
            \/ /\ turn >= MaxTurns /\ Len(records') = Len(recs) + 1
               /\ \A i \in 1..Len(recs) : records'[i] = recs[i]
               /\ records'[Len(recs) + 1] = [turn |-> turn, outcome |-> "MAX_TURNS_REACHED"]
<1>1. turn \in Nat /\ [turn |-> turn, outcome |-> "MAX_TURNS_REACHED"] \in Recorded
  BY DEF IInv, TypeOK, Recorded, Outcomes
<1>2. QED
  BY <1>1, AppendProperties, LenProperties DEF Stop

\* The turn that ends is recorded.
TurnRecorded(outcome) ==
    /\ pc \in {"llm", "tools"} /\ turn' = turn
    /\ Len(records') = Len(records) + 1
    /\ \A i \in 1..Len(records) : records'[i] = records[i]
    /\ records'[Len(records) + 1] = [turn |-> turn, outcome |-> outcome]

\* The last turn's record, if it has none yet, and that of the limit.
LimitRecorded ==
    /\ turn' = turn /\ turn >= MaxTurns
    /\ \A i \in 1..Len(records) : records'[i] = records[i]
    /\ records'[Len(records')] = [turn |-> turn, outcome |-> "MAX_TURNS_REACHED"]
    /\ \/ pc = "top" /\ Len(records') = Len(records) + 1
       \/ /\ pc = "llm" /\ Len(records') = Len(records) + 2
          /\ records'[Len(records) + 1] = [turn |-> turn, outcome |-> "NO_TOOL_CALLS"]

\* The steps of the loop, seen from the records.
GoesOn ==
    /\ UNCHANGED <<records, response, status>>
    /\ \/ pc = "top" /\ pc' = "llm" /\ turn < MaxTurns /\ turn' = turn + 1
       \/ {pc, pc'} \subseteq {"llm", "tools"} /\ turn' = turn
       \/ pc' = pc /\ turn' = turn
TurnEnds ==
    /\ pc' = "top" /\ UNCHANGED <<response, status>>
    /\ TurnRecorded("TOOL_CALLS") \/ (turn < MaxTurns /\ TurnRecorded("NO_TOOL_CALLS"))
Leaves ==
    /\ pc' = "over"
    /\ \/ TurnRecorded("ERROR") /\ UNCHANGED response /\ status' \in {"error", "cancelled"}
       \/ TurnRecorded("PLANNING") /\ response' = "plan" /\ UNCHANGED status
       \/ TurnRecorded("REVIEW") /\ response' = "review" /\ UNCHANGED status
Completes ==
    /\ pc' = "over" /\ pc = "llm" /\ status' = "completed"
    /\ response' \in {"answer", "fallback", "listing"}
    /\ LimitRecorded \/ TurnRecorded("NO_TOOL_CALLS")
CutOff ==
    /\ pc' = "over" /\ pc = "top" /\ status' = "completed"
    /\ UNCHANGED response /\ LimitRecorded

LEMMA RecordTurn ==
  ASSUME IInv, NEW outcome \in Outcomes, records' = Record(outcome), turn' = turn,
         pc \in {"llm", "tools"}
  PROVE  records' \in Seq(Recorded) /\ TurnRecorded(outcome)
  BY RecordProperties DEF TurnRecorded

LEMMA StopTurn ==
  ASSUME IInv, pc = "llm", turn' = turn, NEW resp \in {"answer", "fallback", "listing"}, NEW ms,
         Stop(Record("NO_TOOL_CALLS"), resp, ms)
  PROVE  records' \in Seq(Recorded) /\ Completes
<1> DEFINE recs == Record("NO_TOOL_CALLS")
<1>1. /\ recs \in Seq(Recorded) /\ Len(recs) = Len(records) + 1
      /\ \A i \in 1..Len(records) : recs[i] = records[i]
      /\ recs[Len(records) + 1] = [turn |-> turn, outcome |-> "NO_TOOL_CALLS"]
  BY RecordProperties DEF Outcomes
<1>2. records \in Seq(Recorded) /\ Len(records) \in Nat
  BY LenProperties DEF IInv, TypeOK, Recorded
<1>3. response' \in {"answer", "fallback", "listing"} /\ pc' = "over" /\ status' = "completed"
  BY DEF Stop
<1>4. Stop(recs, resp, ms)
  OBVIOUS
<1> HIDE DEF recs
<1>5. CASE turn < MaxTurns /\ records' = recs
  <2>1. TurnRecorded("NO_TOOL_CALLS")
    BY <1>1, <1>5 DEF TurnRecorded
  <2>2. QED
    BY <1>1, <1>3, <1>5, <2>1 DEF Completes
<1>6. CASE /\ records' \in Seq(Recorded) /\ turn >= MaxTurns /\ Len(records') = Len(recs) + 1
           /\ \A i \in 1..Len(recs) : records'[i] = recs[i]
           /\ records'[Len(recs) + 1] = [turn |-> turn, outcome |-> "MAX_TURNS_REACHED"]
  <2>1. Len(records') = Len(records) + 2
    BY <1>1, <1>2, <1>6
  <2>2. \A i \in 1..Len(records) + 1 : records'[i] = recs[i]
    BY <1>1, <1>6
  <2>3. /\ \A i \in 1..Len(records) : records'[i] = records[i]
        /\ records'[Len(records) + 1] = [turn |-> turn, outcome |-> "NO_TOOL_CALLS"]
    BY <1>1, <1>2, <2>2
  <2>4. records'[Len(records')] = [turn |-> turn, outcome |-> "MAX_TURNS_REACHED"]
    BY <1>6
  <2>5. LimitRecorded
    BY <1>6, <2>1, <2>3, <2>4 DEF LimitRecorded
  <2>6. QED
    BY <1>3, <1>6, <2>5 DEF Completes
<1>7. QED
  BY <1>1, <1>4, <1>5, <1>6, StopRecords

LEMMA StepKinds ==
  ASSUME IInv, [Next]_vars
  PROVE  /\ records' \in Seq(Recorded)
         /\ GoesOn \/ TurnEnds \/ Leaves \/ Completes \/ CutOff
<1>0. /\ records \in Seq(Recorded) /\ pc \in {"top", "llm", "tools", "over"}
      /\ Len(records) \in Nat
  BY LenProperties DEF IInv, TypeOK, Recorded
<1>1. CASE StartTurn
  BY <1>0, <1>1 DEF StartTurn, GoesOn
<1>2. CASE ReplyWithCalls \/ ForceCall
  BY <1>0, <1>2 DEF ReplyWithCalls, ForceCall, BeginCalls, GoesOn
<1>3. CASE ExecuteCall
  BY <1>0, <1>3 DEF ExecuteCall, GoesOn
<1>4. CASE UNCHANGED vars
  BY <1>0, <1>4 DEF vars, GoesOn
<1>5. CASE Reissue
  <2>1. pc = "llm" /\ records' = Record("NO_TOOL_CALLS") /\ turn' = turn /\ turn < MaxTurns
    BY <1>5 DEF Reissue, MayReissue
  <2>2. records' \in Seq(Recorded) /\ TurnRecorded("NO_TOOL_CALLS")
    BY <2>1, RecordTurn DEF Outcomes
  <2>3. QED
    BY <1>5, <2>1, <2>2 DEF Reissue, TurnEnds
<1>6. CASE EndTurn
  <2>1. pc = "tools" /\ records' = Record("TOOL_CALLS") /\ turn' = turn
    BY <1>6 DEF EndTurn
  <2>2. records' \in Seq(Recorded) /\ TurnRecorded("TOOL_CALLS")
    BY <2>1, RecordTurn DEF Outcomes
  <2>3. QED
    BY <1>6, <2>2 DEF EndTurn, TurnEnds
<1>7. CASE Cancel
  <2>1. pc \in {"llm", "tools"} /\ records' = Record("ERROR") /\ turn' = turn
    BY <1>7 DEF Cancel
  <2>2. records' \in Seq(Recorded) /\ TurnRecorded("ERROR")
    BY <2>1, RecordTurn DEF Outcomes
  <2>3. QED
    BY <1>7, <2>2 DEF Cancel, Leaves
<1>8. CASE Propose
  <2>1. PICK o \in {"PLANNING", "REVIEW"} :
           records' = Record(o) /\ response' = IF o = "PLANNING" THEN "plan" ELSE "review"
    BY <1>8 DEF Propose
  <2>2. records' \in Seq(Recorded) /\ TurnRecorded(o)
    BY <1>8, <2>1, RecordTurn DEF Propose, Outcomes
  <2>3. QED
    BY <1>8, <2>1, <2>2 DEF Propose, Leaves
<1>9. CASE CompletionFails
  <2>1. pc = "llm" /\ turn' = turn
    BY <1>9 DEF CompletionFails
  <2>2. CASE Stop(Record("NO_TOOL_CALLS"), "fallback", messages)
    BY <2>1, <2>2, StopTurn
  <2>3. CASE pc' = "over" /\ status' = "error" /\ records' = Record("ERROR") /\ UNCHANGED response
    <3>1. records' \in Seq(Recorded) /\ TurnRecorded("ERROR")
      BY <2>1, <2>3, RecordTurn DEF Outcomes
    <3>2. QED
      BY <2>3, <3>1 DEF Leaves
  <2>4. QED
    BY <1>9, <2>2, <2>3 DEF CompletionFails
<1>10. CASE Answer
  <2>1. pc = "llm" /\ turn' = turn
    BY <1>10 DEF Answer
  <2>2. \E resp \in {"answer", "fallback", "listing"} : \E ms :
            Stop(Record("NO_TOOL_CALLS"), resp, ms)
    BY <1>10 DEF Answer, ForceListing
  <2>3. QED
    BY <2>1, <2>2, StopTurn
<1>11. CASE RunOut
  <2>1. pc = "top" /\ turn' = turn /\ turn >= MaxTurns /\ Stop(records, response, messages)
    BY <1>11 DEF RunOut
  <2>2. Last(messages) \in UserKinds
    BY <2>1 DEF IInv, MessagesFit
  <2>3. pc' = "over" /\ status' = "completed" /\ response' = response
    BY <2>1, <2>2 DEF Stop, Last, UserKinds
  <2>4. turn \in Int /\ MaxTurns \in Int
    BY DEF IInv, TypeOK
  <2>5. /\ records' \in Seq(Recorded) /\ Len(records') = Len(records) + 1
        /\ \A i \in 1..Len(records) : records'[i] = records[i]
        /\ records'[Len(records) + 1] = [turn |-> turn, outcome |-> "MAX_TURNS_REACHED"]
    BY <1>0, <2>1, <2>4, StopRecords
  <2>6. LimitRecorded
    BY <2>1, <2>5 DEF LimitRecorded
  <2>7. QED
    BY <2>1, <2>3, <2>5, <2>6 DEF CutOff
<1>12. QED
  BY <1>1, <1>2, <1>3, <1>4, <1>5, <1>6, <1>7, <1>8, <1>9, <1>10, <1>11
     DEF Next, Proceed, Returned

-----------------------------------------------------------------------------
(* The rest of the invariant.                                               *)

LEMMA RecordFacts ==
  ASSUME IInv
  PROVE  /\ turn \in Nat /\ Len(records) \in Nat
         /\ pc \in {"llm", "tools"} => turn >= 1 /\ Len(records) = turn - 1
         /\ pc = "top" => Len(records) = turn
         /\ pc # "over" => \A i \in 1..Len(records) :
                              records[i].turn = i /\ records[i].outcome # "MAX_TURNS_REACHED"
         /\ pc \in {"top", "llm", "tools", "over"}
  BY LenProperties DEF IInv, TypeOK, RecordPerTurn, BudgetLeft

LEMMA NextRecordPerTurn == ASSUME IInv, [Next]_vars PROVE RecordPerTurn'
<1> USE RecordFacts
<1>1. CASE GoesOn
  BY <1>1 DEF GoesOn, RecordPerTurn, IInv
<1>2. ASSUME NEW o \in Outcomes \ {"MAX_TURNS_REACHED"}, TurnRecorded(o), pc' \in {"top", "over"}
      PROVE  RecordPerTurn'
  <2>1. Len(records') = turn /\ turn' = turn
    BY <1>2 DEF TurnRecorded
  <2>2. \A i \in 1..turn : records'[i].turn = i /\ records'[i].outcome # "MAX_TURNS_REACHED"
    <3> TAKE i \in 1..turn
    <3>1. CASE i = turn
      BY <1>2, <3>1 DEF TurnRecorded
    <3>2. CASE i # turn
      <4>1. i \in 1..Len(records) /\ pc \in {"llm", "tools"}
        BY <1>2, <3>2 DEF TurnRecorded
      <4>2. QED
        BY <1>2, <4>1 DEF TurnRecorded
    <3>3. QED
      BY <3>1, <3>2
  <2>3. QED
    BY <1>2, <2>1, <2>2 DEF RecordPerTurn
<1>3. ASSUME LimitRecorded, pc' = "over" PROVE RecordPerTurn'
  <2>1. Len(records') = turn + 1 /\ turn' = turn
    BY <1>3 DEF LimitRecorded
  <2>2. \A i \in 1..turn : records'[i].turn = i /\ records'[i].outcome # "MAX_TURNS_REACHED"
    <3> TAKE i \in 1..turn
    <3>1. CASE i \in 1..Len(records)
      BY <1>3, <3>1 DEF LimitRecorded
    <3>2. CASE i \notin 1..Len(records)
      <4>1. pc = "llm" /\ i = Len(records) + 1 /\ i = turn
        BY <1>3, <3>2 DEF LimitRecorded
      <4>2. QED
        BY <1>3, <4>1 DEF LimitRecorded
    <3>3. QED
      BY <3>1, <3>2
  <2>3. records'[turn + 1] = [turn |-> turn, outcome |-> "MAX_TURNS_REACHED"]
    BY <1>3, <2>1 DEF LimitRecorded
  <2>4. QED
    BY <1>3, <2>1, <2>2, <2>3 DEF RecordPerTurn
<1>4. QED
  BY <1>1, <1>2, <1>3, StepKinds DEF TurnEnds, Leaves, Completes, CutOff, Outcomes

LEMMA NextStillRunning == ASSUME IInv, [Next]_vars PROVE StillRunning'
<1> USE RecordFacts DEF IInv, StillRunning
<1>1. CASE GoesOn
  BY <1>1 DEF GoesOn
<1>2. CASE TurnEnds
  <2>1. turn' = turn /\ pc # "over"
    BY <1>2 DEF TurnEnds, TurnRecorded
  <2>2. turn \in Int /\ MaxTurns \in Int
    OBVIOUS
  <2>3. turn >= MaxTurns => records'[turn].outcome = "TOOL_CALLS"
    BY <1>2, <2>2 DEF TurnEnds, TurnRecorded
  <2>4. QED
    BY <1>2, <2>1, <2>3 DEF TurnEnds
<1>3. QED
  BY <1>1, <1>2, StepKinds DEF Leaves, Completes, CutOff

LEMMA NextEmptyOnlyAfterTools == ASSUME IInv, [Next]_vars PROVE EmptyOnlyAfterTools'
<1> USE RecordFacts DEF IInv, EmptyOnlyAfterTools
<1>1. CASE GoesOn
  BY <1>1 DEF GoesOn, StillRunning
<1>2. CASE TurnEnds \/ Leaves
  BY <1>2 DEF TurnEnds, Leaves, TurnRecorded, StillRunning
<1>3. CASE Completes
  BY <1>3 DEF Completes
<1>4. CASE CutOff
  <2>1. turn' = turn /\ Len(records') - 1 = turn
    BY <1>4 DEF CutOff, LimitRecorded
  <2>2. turn > 0 => records'[turn] = records[turn] /\ records[turn].outcome = "TOOL_CALLS"
    BY <1>4 DEF CutOff, LimitRecorded, StillRunning
  <2>3. QED
    BY <2>1, <2>2
<1>5. QED
  BY <1>1, <1>2, <1>3, <1>4, StepKinds

LEMMA NextEndingsAgree == ASSUME IInv, [Next]_vars PROVE EndingsAgree'
<1> USE RecordFacts DEF IInv
<1>1. CASE GoesOn
  BY <1>1 DEF GoesOn, EndingsAgree
<1>2. CASE TurnEnds
  BY <1>2 DEF TurnEnds, EndingsAgree
<1>3. CASE Leaves
  <2>1. PICK o \in {"ERROR", "PLANNING", "REVIEW"} :
          /\ TurnRecorded(o)
          /\ CASE o = "ERROR" -> response' = "none" /\ status' \in {"error", "cancelled"}
               [] o = "PLANNING" -> response' = "plan" /\ status' = "running"
               [] o = "REVIEW" -> response' = "review" /\ status' = "running"
    BY <1>3 DEF Leaves, TurnRecorded, StillRunning
  <2>2. records' # <<>> /\ records'[Len(records')].outcome = o
    BY <2>1 DEF TurnRecorded
  <2>3. QED
    BY <2>1, <2>2 DEF EndingsAgree
<1>4. CASE Completes
  <2>1. \E i \in DOMAIN records' : records'[i].turn = turn' /\ records'[i].outcome = "NO_TOOL_CALLS"
    <3>1. /\ records'[Len(records) + 1] = [turn |-> turn', outcome |-> "NO_TOOL_CALLS"]
          /\ Len(records') \in {Len(records) + 1, Len(records) + 2}
      BY <1>4 DEF Completes, LimitRecorded, TurnRecorded
    <3>2. Len(records) + 1 \in DOMAIN records'
      BY <3>1, StepKinds, LenProperties
    <3>3. QED
      BY <3>1, <3>2
  <2>2. QED
    BY <1>4, <2>1 DEF Completes, EndingsAgree
<1>5. CASE CutOff
  <2>1. /\ Len(records') = turn + 1 /\ turn' = turn /\ Len(records) = turn
        /\ records'[turn + 1] = [turn |-> turn, outcome |-> "MAX_TURNS_REACHED"]
        /\ DOMAIN records' = 1..turn + 1
    BY <1>5, StepKinds, LenProperties DEF CutOff, LimitRecorded
  <2>2. ASSUME NEW i \in DOMAIN records', records'[i].turn = turn,
               records'[i].outcome = "NO_TOOL_CALLS"
        PROVE  FALSE
    <3>1. i \in 1..turn /\ records'[i] = records[i]
      BY <1>5, <2>1, <2>2 DEF CutOff, LimitRecorded
    <3>2. i = turn
      BY <1>5, <2>1, <2>2, <3>1 DEF CutOff
    <3>3. QED
      BY <1>5, <2>2, <3>1, <3>2 DEF CutOff, LimitRecorded, StillRunning
  <2>3. response' = "none"
    BY <1>5 DEF CutOff, StillRunning
  <2>4. QED
    BY <2>1, <2>2, <2>3 DEF EndingsAgree
<1>6. QED
  BY <1>1, <1>2, <1>3, <1>4, <1>5, StepKinds

\* What the budget grows by with a turn, and what a call takes from it.
LEMMA OneTurnMore == ASSUME NEW t \in Nat, NEW m \in Nat PROVE (t + 1) * m = t * m + m
  OBVIOUS
LEMMA BudgetTaken ==
  ASSUME NEW budget \in Int, NEW m \in Nat \ {0}, NEW n \in 1..m, NEW used \in Int
  PROVE  used + m <= budget => used + n <= budget /\ used <= budget /\ used + 1 <= budget
  OBVIOUS
LEMMA CallTaken ==
  ASSUME NEW budget \in Int, NEW used \in Int, NEW left \in Nat \ {0}, NEW one \in 0..1,
         used + left <= budget
  PROVE  /\ (used + one) + (left - 1) <= budget
         /\ used + one <= budget
  OBVIOUS

LEMMA NextBudget == ASSUME IInv, [Next]_vars PROVE BudgetLeft' /\ ToolBudget'
<1> DEFINE budget == turn * MaxCalls
<1>0. /\ turn \in Nat /\ total \in Nat /\ todo \in Nat /\ budget \in Int
      /\ MaxTurns \in Int /\ MaxCalls \in Nat \ {0}
  BY DEF IInv, TypeOK
<1>a. /\ total <= budget /\ (turn <= MaxTurns \/ turn = 0)
      /\ pc \in {"llm", "tools"} => turn >= 1
      /\ pc = "llm" => total + MaxCalls <= budget
      /\ pc = "tools" => total + todo <= budget
  BY DEF IInv, BudgetLeft, ToolBudget
<1>1. CASE StartTurn
  <2>1. turn' = turn + 1 /\ pc' = "llm" /\ total' = total /\ turn < MaxTurns
    BY <1>1 DEF StartTurn
  <2>2. turn' * MaxCalls = budget + MaxCalls
    BY <1>0, <2>1, OneTurnMore
  <2>3. ASSUME NEW b \in Int PROVE total <= b => total + MaxCalls <= b + MaxCalls /\ total <= b + MaxCalls
    BY <1>0
  <2> HIDE DEF budget
  <2>4. total + MaxCalls <= budget + MaxCalls /\ total <= budget + MaxCalls
    BY <1>0, <1>a, <2>3
  <2>5. turn' <= MaxTurns /\ turn' >= 1
    BY <1>0, <2>1
  <2>6. QED
    BY <2>1, <2>2, <2>4, <2>5 DEF BudgetLeft, ToolBudget
<1> HIDE DEF budget
<1>2. ASSUME UNCHANGED turn, total' <= budget,
             pc' = "llm" => total' + MaxCalls <= budget,
             pc' = "tools" => total' + todo' <= budget,
             pc' \in {"llm", "tools"} => turn >= 1
      PROVE  BudgetLeft' /\ ToolBudget'
  BY <1>0, <1>a, <1>2 DEF BudgetLeft, ToolBudget, budget
<1>3. ASSUME NEW n \in 1..MaxCalls, BeginCalls(n), pc = "llm", UNCHANGED turn
      PROVE  BudgetLeft' /\ ToolBudget'
  <2>1. total' = total /\ todo' = n /\ pc' = "tools"
    BY <1>3 DEF BeginCalls
  <2>2. total + n <= budget
    BY <1>0, <1>a, <1>3, BudgetTaken
  <2>3. QED
    BY <1>2, <1>3, <1>a, <2>1, <2>2
<1>4. CASE ReplyWithCalls
  <2>1. PICK n \in Requested : \E m \in Corrected(Capped(n)) : BeginCalls(m)
    BY <1>4 DEF ReplyWithCalls
  <2>2. Capped(n) \in 1..MaxCalls /\ 1 \in 1..MaxCalls
    BY DEF Requested, Capped
  <2>3. Corrected(Capped(n)) \subseteq 1..MaxCalls
    BY <2>2 DEF Corrected
  <2>4. QED
    BY <1>3, <1>4, <2>1, <2>3 DEF ReplyWithCalls, BeginCalls
<1>5. CASE ForceCall
  BY <1>0, <1>3, <1>5 DEF ForceCall, SyntheticCalls, BeginCalls
<1>6. CASE Answer
  <2>1. pc' = "over" /\ UNCHANGED turn /\ pc = "llm"
    BY <1>6 DEF Answer, ForceListing, Stop
  <2>2. total' = total \/ total' = total + 1
    BY <1>6 DEF Answer, ForceListing
  <2>3. total + 1 <= budget
    BY <1>0, <1>a, <2>1, BudgetTaken
  <2>4. QED
    BY <1>2, <1>a, <2>1, <2>2, <2>3
<1>7. CASE ExecuteCall
  <2>1. PICK one \in 0..1 : total' = total + one
    BY <1>7 DEF ExecuteCall
  <2>2. pc = "tools" /\ UNCHANGED <<pc, turn>> /\ todo > 0 /\ todo' = todo - 1
    BY <1>7 DEF ExecuteCall
  <2>3. todo \in Nat \ {0}
    BY <1>0, <2>2
  <2>4. (total + one) + (todo - 1) <= budget /\ total + one <= budget
    BY <1>0, <1>a, <2>2, <2>3, CallTaken
  <2>5. QED
    BY <1>2, <1>a, <2>1, <2>2, <2>4
<1>8. CASE Propose
  <2>1. PICK one \in 0..1 : total' = total + one
    BY <1>0, <1>8 DEF Propose
  <2>2. pc = "tools" /\ pc' = "over" /\ UNCHANGED turn /\ todo > 0
    BY <1>8 DEF Propose
  <2>3. todo \in Nat \ {0}
    BY <1>0, <2>2
  <2>4. total + one <= budget
    BY <1>0, <1>a, <2>2, <2>3, CallTaken
  <2>5. QED
    BY <1>2, <2>1, <2>2, <2>4
<1>9. CASE RunOut \/ CompletionFails \/ Reissue \/ EndTurn \/ Cancel
  <2>1. UNCHANGED <<turn, total>> /\ pc' \in {"top", "over"}
    BY <1>9 DEF RunOut, CompletionFails, Reissue, EndTurn, Cancel, Stop
  <2>2. QED
    BY <1>2, <1>a, <2>1
<1>10. CASE UNCHANGED vars
  BY <1>2, <1>a, <1>10 DEF vars
<1>11. QED
  BY <1>1, <1>4, <1>5, <1>6, <1>7, <1>8, <1>9, <1>10 DEF Next, Proceed, Returned

LEMMA NextTypeOK == ASSUME IInv, [Next]_vars PROVE TypeOK'
<1> USE DEF IInv, TypeOK
<1>1. messages' \in Seq(Kinds)
  BY NextMessagesFit DEF MessagesFit, Context
<1>2. records' \in Seq([turn : Nat, outcome : Outcomes])
  BY StepKinds DEF Recorded
<1>3. pc' \in {"top", "llm", "tools", "over"} /\ turn' \in Nat /\ malformed' \in 0..2
  BY DEF Next, Proceed, Returned, vars, StartTurn, RunOut, CompletionFails, Reissue, MayReissue,
         ReplyWithCalls, ForceCall, BeginCalls, Answer, ForceListing, ExecuteCall, Propose,
         EndTurn, Cancel, Stop
<1>4. forced' \in BOOLEAN /\ offered' \in BOOLEAN
  <2>1. forced' \in {forced, TRUE}
    BY DEF Next, Proceed, Returned, vars, StartTurn, RunOut, CompletionFails, Reissue,
           ReplyWithCalls, ForceCall, BeginCalls, Answer, ForceListing, ExecuteCall, Propose,
           EndTurn, Cancel, Stop
  <2>2. offered' = offered \/ offered' \in BOOLEAN
    BY DEF Next, Proceed, Returned, vars, StartTurn, RunOut, CompletionFails, Reissue,
           ReplyWithCalls, ForceCall, BeginCalls, Answer, ForceListing, ExecuteCall, Propose,
           EndTurn, Cancel, Stop
  <2>3. QED
    BY <2>1, <2>2
<1>5. response' \in Responses /\ status' \in {"running", "completed", "error", "cancelled"}
  BY StepKinds DEF GoesOn, TurnEnds, Leaves, Completes, CutOff, Responses
<1>6. total' \in Nat
  BY DEF Next, Proceed, Returned, vars, StartTurn, RunOut, CompletionFails, Reissue,
         ReplyWithCalls, ForceCall, BeginCalls, Answer, ForceListing, ExecuteCall, Propose,
         EndTurn, Cancel, Stop
<1>7. asked' \in 0..MaxCalls /\ todo' \in 0..asked' /\ executed' \in 0..MaxCalls
  <2>1. CASE UNCHANGED <<asked, todo, executed>>
    BY <2>1
  <2>2. CASE StartTurn
    BY <2>2 DEF StartTurn
  <2>3. CASE ReplyWithCalls \/ ForceCall
    <3>1. PICK n \in Nat : BeginCalls(n) /\ n \in 1..MaxCalls
      BY <2>3 DEF ReplyWithCalls, ForceCall, Requested, Corrected, Capped, SyntheticCalls
    <3>2. QED
      BY <3>1 DEF BeginCalls
  <2>4. CASE ExecuteCall \/ Propose
    <3>1. todo + executed <= asked /\ todo > 0 /\ UNCHANGED asked
      BY <2>4 DEF ExecuteCall, Propose, MessagesFit
    <3>2. /\ todo' \in {todo, todo - 1} /\ executed' \in {executed, executed + 1}
      BY <2>4 DEF ExecuteCall, Propose
    <3>3. executed + 1 <= MaxCalls /\ todo \in Nat \ {0}
      BY <3>1
    <3>4. QED
      BY <3>1, <3>2, <3>3
  <2>5. QED
    BY <2>1, <2>2, <2>3, <2>4
       DEF Next, Proceed, Returned, vars, RunOut, CompletionFails, Reissue, Answer, EndTurn, Cancel
<1>8. QED
  BY <1>1, <1>2, <1>3, <1>4, <1>5, <1>6, <1>7

-----------------------------------------------------------------------------
(* The results.                                                             *)

\* Every reachable state of a run satisfies the inductive invariant.
THEOREM Invariance == Spec => []IInv
<1>1. IInv /\ [Next]_vars => IInv'
  BY NextTypeOK, NextMessagesFit, NextMessagesBounded, NextRecordPerTurn, NextBudget, NextStillRunning,
     NextEmptyOnlyAfterTools, NextEndingsAgree DEF IInv
<1>2. QED
  BY <1>1, InitIInv, PTL DEF Spec

\* Every variable of a run keeps its type; no turn executes more calls than the
\* cap allows.
THEOREM TypeCorrect == Spec => []TypeOK
  BY Invariance, PTL DEF IInv

\* Whatever results, nudges and summaries a run adds to its messages, what the
\* model is sent has one system prompt, at its start, fits the trim window and
\* ends with something of the user's side; and between two trims the messages
\* outgrow the window by the results of the calls and three messages at most.
THEOREM ContextStaysWellFormed == Spec => []ContextWellFormed
<1>1. IInv => ContextWellFormed
  <2> SUFFICES ASSUME IInv PROVE ContextWellFormed
    OBVIOUS
  <2>1. pc \in {"top", "llm", "tools", "over"} /\ Len(messages) \in Nat /\ asked \in 0..MaxCalls
        /\ todo \in 0..asked
    BY LenProperties DEF IInv, TypeOK
  <2>2. turn > 0 => Len(messages) <= TrimThreshold + TrimSlack + MaxCalls + 3
    BY <2>1 DEF IInv, MessagesFit, MessagesBounded
  <2>3. QED
    BY <2>2 DEF IInv, MessagesFit, ContextWellFormed, Context, Last
<1>2. QED
  BY <1>1, Invariance, PTL

\* Each turn that is over has one record, in order, and the number of tools
\* that ran never exceeds the budget of the turns so far.
THEOREM TurnsAreAccounted == Spec => []TurnsAccounted
  BY Invariance, PTL DEF IInv, TurnsAccounted

\* A run that is over tells in its response, its status and its last records
\* why it ended, and has no response only when it was cut off after tool calls.
THEOREM RunsEndForAReason == Spec => []EndsForAReason
  BY Invariance, PTL DEF IInv, EndsForAReason

-----------------------------------------------------------------------------
(***************************************************************************)
(* The tool result cache that belongs to the loop, for any calls,          *)
(* directories, sizes and bounds.                                          *)
(*                                                                         *)
(* Two facts about the data structures carry the proofs: the access order  *)
(* holds no key twice, so that list.remove and pop(0) take a key off it    *)
(* for good, and a file result is cached together with the mtime of the    *)
(* content that was read, so that an equal mtime means equal content.      *)
(***************************************************************************)
NoRepeats(seq) == \A i, j \in DOMAIN seq : seq[i] = seq[j] => i = j

\* Calls whose file is the same for the tool and for the cache's stat.
Absolute(c) == c.tool \in FileTools /\ c.path \in Files

\* What the tool read for a file call is the content of an existing file, and
\* while nothing else writes, of the file as it is now.
ReadIsCurrent ==
    (call # NoCall /\ fetched # -1 /\ call.tool \in FileTools) =>
        /\ fetched # 0
        /\ ~ConcurrentWriters /\ call.path \in Files => fetched = version[call.path]

\* The result and the mtime of an entry belong to the same content.
EntriesMatchMtimes ==
    ~ConcurrentWriters => \A c \in DOMAIN cache :
        Absolute(c) => c \in DOMAIN mtimes /\ mtimes[c] = cache[c].result

NothingRead == call = NoCall => fetched = -1

CacheIInv ==
    /\ CacheTypeOK /\ EntriesEvictable
    /\ NothingRead /\ ReadIsCurrent /\ EntriesMatchMtimes

-----------------------------------------------------------------------------
(* Lists without repetition.                                               *)

\* list.remove takes k away and leaves every other entry, none twice.
LEMMA WithoutKeeps ==
    ASSUME NEW S, NEW seq \in Seq(S), NEW k, NoRepeats(seq)
    PROVE  /\ Without(seq, k) \in Seq(S)
           /\ NoRepeats(Without(seq, k))
           /\ ToSet(Without(seq, k)) = ToSet(seq) \ {k}
<1>1. CASE k \notin ToSet(seq)
  BY <1>1 DEF Without
<1>2. CASE k \in ToSet(seq)
  <2> DEFINE First(i) == seq[i] = k /\ \A j \in 1 .. i - 1 : seq[j] # k
  <2>1. PICK i \in DOMAIN seq : seq[i] = k
    BY <1>2 DEF ToSet
  <2>2. i \in 1 .. Len(seq) /\ Len(seq) \in Nat
    OBVIOUS
  <2>3. First(i)
    BY <2>1, <2>2 DEF NoRepeats
  <2>4. \A m \in DOMAIN seq : First(m) => m = i
    BY <2>1 DEF NoRepeats
  <2>5. (CHOOSE m \in DOMAIN seq : First(m)) = i
    BY <2>1, <2>3, <2>4
  <2>6. Without(seq, k) = SubSeq(seq, 1, i - 1) \o SubSeq(seq, i + 1, Len(seq))
    BY <1>2, <2>5 DEF Without, RemoveAt
  <2> DEFINE before == SubSeq(seq, 1, i - 1)
             after == SubSeq(seq, i + 1, Len(seq))
             rest == before \o after
  <2>7. /\ before \in Seq(S) /\ Len(before) = i - 1
        /\ \A m \in 1 .. i - 1 : before[m] = seq[m]
    BY <2>2
  <2>8. /\ after \in Seq(S) /\ Len(after) = Len(seq) - i
        /\ \A m \in 1 .. Len(seq) - i : after[m] = seq[m + i]
    BY <2>2
  <2> HIDE DEF before, after
  <2>9. /\ rest \in Seq(S) /\ Len(rest) = Len(seq) - 1 /\ DOMAIN rest = 1 .. Len(seq) - 1
        /\ \A m \in 1 .. Len(seq) - 1 : rest[m] = IF m < i THEN seq[m] ELSE seq[m + 1]
    <3>1. /\ rest \in Seq(S) /\ Len(rest) = Len(before) + Len(after)
          /\ \A m \in 1 .. Len(before) + Len(after) :
                rest[m] = IF m <= Len(before) THEN before[m] ELSE after[m - Len(before)]
      <4>1. before \in Seq(S) /\ after \in Seq(S)
        BY <2>7, <2>8
      <4>2. QED
        BY <4>1, ConcatProperties, Zenon
    <3>2. ASSUME NEW m \in 1 .. Len(seq) - 1
          PROVE  rest[m] = IF m < i THEN seq[m] ELSE seq[m + 1]
      <4>1. CASE m < i
        <5>1. m \in 1 .. i - 1 /\ m <= Len(before) /\ m \in 1 .. Len(before) + Len(after)
          BY <4>1, <2>2, <2>7, <2>8
        <5>2. rest[m] = before[m]
          BY <5>1, <3>1
        <5>3. QED
          BY <5>1, <5>2, <4>1, <2>7
      <4>2. CASE m >= i
        <5>1. /\ m \in 1 .. Len(before) + Len(after) /\ ~(m <= Len(before))
              /\ m - Len(before) = m - i + 1
          BY <4>2, <2>2, <2>7, <2>8
        <5>2. rest[m] = after[m - i + 1]
          BY <5>1, <3>1
        <5>3. PICK d \in 1 .. Len(seq) - i : d = m - i + 1 /\ d + i = m + 1
          BY <4>2, <2>2
        <5>4. rest[m] = seq[m + 1]
          BY <5>2, <5>3, <2>8
        <5>5. ~(m < i)
          BY <4>2, <2>2
        <5>6. QED
          BY ONLY <5>4, <5>5
      <4>3. m < i \/ m >= i
        BY <2>2
      <4>4. QED
        BY <4>1, <4>2, <4>3
    <3>3. Len(before) + Len(after) = Len(seq) - 1
      BY <2>2, <2>7, <2>8
    <3>4. QED
      BY <3>1, <3>2, <3>3
  <2> HIDE DEF rest
  <2>10. NoRepeats(rest)
    <3>1. SUFFICES ASSUME NEW m \in 1 .. Len(seq) - 1, NEW n \in 1 .. Len(seq) - 1, rest[m] = rest[n]
                   PROVE  m = n
      BY <2>9 DEF NoRepeats
    <3> DEFINE At(x) == IF x < i THEN x ELSE x + 1
    <3>2. At(m) \in DOMAIN seq /\ At(n) \in DOMAIN seq /\ seq[At(m)] = seq[At(n)]
      BY <3>1, <2>2, <2>9
    <3>3. At(m) = At(n)
      BY <3>2 DEF NoRepeats
    <3>4. QED
      BY <3>3, <2>2
  <2>11. ToSet(rest) \subseteq ToSet(seq) \ {k}
    <3>1. SUFFICES ASSUME NEW m \in 1 .. Len(seq) - 1 PROVE rest[m] \in ToSet(seq) \ {k}
      BY <2>9 DEF ToSet
    <3>2. PICK n \in DOMAIN seq : n # i /\ rest[m] = seq[n]
      <4>1. CASE m < i
        BY <4>1, <2>2, <2>9
      <4>2. CASE ~(m < i)
        <5>1. m + 1 \in DOMAIN seq /\ m + 1 # i
          BY <4>2, <2>2
        <5>2. rest[m] = seq[m + 1]
          BY <4>2, <2>9
        <5>3. QED
          BY <5>1, <5>2
      <4>3. QED
        BY <4>1, <4>2
    <3>3. QED
      BY <3>2, <2>1 DEF NoRepeats, ToSet
  <2>12. ASSUME NEW x \in ToSet(seq), x # k PROVE x \in ToSet(rest)
    <3>1. PICK m \in 1 .. Len(seq) : seq[m] = x
      BY DEF ToSet
    <3>2. CASE m < i
      BY <3>1, <3>2, <2>2, <2>9 DEF ToSet
    <3>3. CASE m > i
      <4>1. m - 1 \in 1 .. Len(seq) - 1 /\ rest[m - 1] = x
        BY <3>1, <3>3, <2>2, <2>9
      <4>2. QED
        BY <4>1, <2>9 DEF ToSet
    <3>4. QED
      BY <3>1, <3>2, <3>3, <2>1, <2>2, <2>12
  <2>13. QED
    BY <2>6, <2>9, <2>10, <2>11, <2>12 DEF rest, before, after
<1>3. QED
  BY <1>1, <1>2

\* ToEnd adds k, at the end, and keeps every other entry, none twice.
LEMMA ToEndKeeps ==
    ASSUME NEW S, NEW seq \in Seq(S), NEW k \in S, NoRepeats(seq)
    PROVE  /\ ToEnd(seq, k) \in Seq(S)
           /\ NoRepeats(ToEnd(seq, k))
           /\ ToSet(ToEnd(seq, k)) = ToSet(seq) \cup {k}
<1> DEFINE rest == Without(seq, k)
<1>1. rest \in Seq(S) /\ NoRepeats(rest) /\ ToSet(rest) = ToSet(seq) \ {k}
  BY WithoutKeeps
<1>2. ToEnd(seq, k) = Append(rest, k)
  BY DEF ToEnd
<1> HIDE DEF rest
<1>3. \A i \in DOMAIN rest : rest[i] # k
  BY <1>1 DEF ToSet
<1>4. /\ DOMAIN Append(rest, k) = 1 .. Len(rest) + 1 /\ Len(rest) \in Nat
      /\ \A i \in 1 .. Len(rest) : Append(rest, k)[i] = rest[i]
      /\ Append(rest, k)[Len(rest) + 1] = k
  BY <1>1
<1>5. NoRepeats(Append(rest, k))
  BY <1>1, <1>3, <1>4 DEF NoRepeats
<1>6. ToSet(Append(rest, k)) = ToSet(rest) \cup {k}
  BY <1>1, <1>4 DEF ToSet
<1>7. QED
  BY <1>1, <1>2, <1>5, <1>6

\* pop(0) takes the head away and leaves every other entry.
LEMMA TailKeeps ==
    ASSUME NEW S, NEW seq \in Seq(S), seq # <<>>, NoRepeats(seq)
    PROVE  /\ Tail(seq) \in Seq(S)
           /\ NoRepeats(Tail(seq))
           /\ ToSet(Tail(seq)) = ToSet(seq) \ {Head(seq)}
<1>1. /\ Len(seq) \in Nat \ {0} /\ DOMAIN seq = 1 .. Len(seq)
      /\ Tail(seq) \in Seq(S) /\ DOMAIN Tail(seq) = 1 .. Len(seq) - 1
      /\ \A i \in 1 .. Len(seq) - 1 : Tail(seq)[i] = seq[i + 1]
      /\ Head(seq) = seq[1]
  OBVIOUS
<1>2. NoRepeats(Tail(seq))
  BY <1>1 DEF NoRepeats
<1>3. ToSet(Tail(seq)) \subseteq ToSet(seq) \ {Head(seq)}
  BY <1>1 DEF NoRepeats, ToSet
<1>4. ASSUME NEW x \in ToSet(seq), x # Head(seq) PROVE x \in ToSet(Tail(seq))
  <2>1. PICK m \in 1 .. Len(seq) : seq[m] = x
    BY <1>1 DEF ToSet
  <2>2. m - 1 \in 1 .. Len(seq) - 1 /\ Tail(seq)[m - 1] = x
    BY <2>1, <1>1, <1>4
  <2>3. QED
    BY <2>2, <1>1 DEF ToSet
<1>5. QED
  BY <1>1, <1>2, <1>3, <1>4

-----------------------------------------------------------------------------
(* The inductive invariant.                                                *)

LEMMA CacheInitial == CacheInit => CacheIInv
<1> SUFFICES ASSUME CacheInit PROVE CacheIInv
  OBVIOUS
<1>1. CacheTypeOK
  BY DEF CacheInit, CacheTypeOK
<1>2. EntriesEvictable
  BY DEF CacheInit, EntriesEvictable, ToSet
<1>3. NothingRead /\ ReadIsCurrent /\ EntriesMatchMtimes
  BY DEF CacheInit, NothingRead, ReadIsCurrent, EntriesMatchMtimes
<1>4. QED
  BY <1>1, <1>2, <1>3 DEF CacheIInv

\* The order holds no key twice and, of the keys, at least those in use.
OrderHolds(seq, keys) == seq \in Seq(Calls) /\ NoRepeats(seq) /\ keys \subseteq ToSet(seq)

LEMMA InvOrder ==
    ASSUME CacheIInv
    PROVE  OrderHolds(order, DOMAIN cache \cup DOMAIN mtimes)
BY DEF CacheIInv, CacheTypeOK, EntriesEvictable, OrderHolds, NoRepeats

LEMMA NextOrder ==
    ASSUME CacheIInv, [CacheNext]_allVars
    PROVE  OrderHolds(order', DOMAIN cache' \cup DOMAIN mtimes')
<1> USE InvOrder DEF OrderHolds
<1>1. CASE UNCHANGED cacheVars
  BY <1>1 DEF cacheVars
<1>2. ASSUME NEW c \in Calls, Hit(c)
      PROVE  OrderHolds(order', DOMAIN cache' \cup DOMAIN mtimes')
  <2>1. order' = ToEnd(order, c) /\ UNCHANGED <<cache, mtimes>>
    BY <1>2 DEF Hit
  <2>2. QED
    BY <2>1, ToEndKeeps
<1>3. ASSUME NEW c \in Calls, Miss(c)
      PROVE  OrderHolds(order', DOMAIN cache' \cup DOMAIN mtimes')
  <2>1. UNCHANGED <<order, mtimes>> /\ DOMAIN cache' \subseteq DOMAIN cache
    BY <1>3 DEF Miss, Drop, Restrict
  <2>2. QED
    BY <2>1
<1>4. CASE Store
  <2> DEFINE out == Displaced(call)
             rest == IF out = {} THEN order ELSE Tail(order)
  <2>1. call \in Calls
    BY <1>4 DEF Store, CacheIInv, CacheTypeOK
  <2>2. order' = ToEnd(rest, call)
    BY <1>4 DEF Store, NewOrder
  <2>3. DOMAIN cache' \cup DOMAIN mtimes'
          \subseteq (DOMAIN cache \cup DOMAIN mtimes \cup {call}) \ (out \ {call})
    BY <1>4 DEF Store, Put, Restrict
  <2>4. rest \in Seq(Calls) /\ NoRepeats(rest) /\ ToSet(rest) = ToSet(order) \ out
    <3>1. CASE out = {}
      BY <3>1
    <3>2. CASE out # {}
      <4>1. order # <<>> /\ out = {Head(order)}
        BY <3>2 DEF Displaced
      <4>2. QED
        BY <3>2, <4>1, TailKeeps
    <3>3. QED
      BY <3>1, <3>2
  <2> HIDE DEF out, rest
  <2>5. order' \in Seq(Calls) /\ NoRepeats(order') /\ ToSet(order') = ToSet(rest) \cup {call}
    BY <2>1, <2>2, <2>4, ToEndKeeps
  <2>6. QED
    BY <2>3, <2>4, <2>5
<1>5. QED
  BY <1>1, <1>2, <1>3, <1>4 DEF CacheNext, ChangeFile, SelectDir, Tick,
         ToolReads, ToolFails, allVars, cacheVars

\* What a hit, a miss and a store leave of an entry: cached results and mtimes
\* change only for the call that is stored.
LEMMA EntriesStep ==
    ASSUME CacheIInv, [CacheNext]_allVars
    PROVE  /\ \A c \in DOMAIN cache' :
                \/ c \in DOMAIN cache /\ cache'[c] = cache[c]
                \/ Store /\ c = call /\ cache'[c] = [result |-> fetched, at |-> now]
           /\ \A c \in DOMAIN mtimes' :
                \/ c \in DOMAIN mtimes /\ mtimes'[c] = mtimes[c]
                \/ Store /\ c = call /\ mtimes'[c] = Stat(c.path) /\ Stat(c.path) # 0
<1>1. CASE UNCHANGED <<cache, mtimes>>
  BY <1>1
<1>2. ASSUME NEW c \in Calls, Miss(c) PROVE UNCHANGED mtimes /\ cache' = Drop(cache, c)
  BY <1>2 DEF Miss
<1>3. ASSUME NEW c \in Calls, Miss(c)
      PROVE  \A k \in DOMAIN cache' : k \in DOMAIN cache /\ cache'[k] = cache[k]
  BY <1>3, <1>2 DEF Drop, Restrict
<1>4. CASE Store
  <2> DEFINE out == Displaced(call)
             kept == Restrict(mtimes, DOMAIN mtimes \ out)
             stats == call.tool \notin WebTools /\ Stat(call.path) # 0
  <2>1. /\ cache' = Put(Restrict(cache, DOMAIN cache \ out), call, [result |-> fetched, at |-> now])
        /\ mtimes' = IF stats THEN Put(kept, call, Stat(call.path)) ELSE kept
    BY <1>4 DEF Store
  <2> HIDE DEF out
  <2>2. \A c \in DOMAIN cache' :
           \/ c \in DOMAIN cache /\ cache'[c] = cache[c]
           \/ c = call /\ cache'[c] = [result |-> fetched, at |-> now]
    BY <2>1 DEF Put, Restrict
  <2>3. \A c \in DOMAIN mtimes' :
           \/ c \in DOMAIN mtimes /\ mtimes'[c] = mtimes[c]
           \/ c = call /\ mtimes'[c] = Stat(c.path) /\ Stat(c.path) # 0
    BY <2>1 DEF Put, Restrict
  <2>4. QED
    BY <2>2, <2>3, <1>4
<1>5. QED
  BY <1>1, <1>2, <1>3, <1>4
  DEF CacheNext, ChangeFile, SelectDir, Tick, Hit, ToolReads,
         ToolFails, allVars, cacheVars

LEMMA CacheNextTypeOK ==
    ASSUME CacheIInv, [CacheNext]_allVars
    PROVE  CacheTypeOK'
<1> USE DEF CacheIInv
<1>1. order' \in Seq(Calls) /\ DOMAIN cache' \subseteq Calls /\ DOMAIN mtimes' \subseteq Calls
  <2>1. OrderHolds(order', DOMAIN cache' \cup DOMAIN mtimes')
    BY NextOrder
  <2>2. ToSet(order') \subseteq Calls
    BY <2>1 DEF OrderHolds, ToSet
  <2>3. QED
    BY <2>1, <2>2 DEF OrderHolds
<1>2. version' \in [Files -> Nat] /\ dir' \in Dirs /\ now' \in Nat /\ changes' \in Nat
  <2> DEFINE Typed == version' \in [Files -> Nat] /\ dir' \in Dirs /\ now' \in Nat /\ changes' \in Nat
  <2>1. \/ UNCHANGED worldVars
        \/ \E f \in Files : ChangeFile(f)
        \/ \E d \in Dirs : SelectDir(d)
        \/ Tick
    BY DEF CacheNext, Hit, Miss, ToolReads, ToolFails, Store, allVars, worldVars
  <2>2. CASE UNCHANGED worldVars
    BY <2>2 DEF CacheTypeOK, worldVars
  <2>3. ASSUME NEW f \in Files, ChangeFile(f) PROVE Typed
    BY <2>3 DEF CacheTypeOK, ChangeFile
  <2>4. ASSUME NEW d \in Dirs, SelectDir(d) PROVE Typed
    BY <2>4 DEF CacheTypeOK, SelectDir
  <2>5. CASE Tick
    BY <2>5 DEF CacheTypeOK, Tick
  <2>6. QED
    BY <2>1, <2>2, <2>3, <2>4, <2>5
<1>3. call' \in Calls \cup {NoCall}
  BY DEF CacheTypeOK, CacheNext, ChangeFile, SelectDir, Tick, Hit,
         Miss, ToolReads, ToolFails, Store, allVars
<1>4. fetched' \in Nat \cup {-1}
  <2>1. CASE ToolReads
    <3>1. FileIn(dir, call.path) \in Files
      BY <2>1, CallsAssumption DEF ToolReads, FileIn, Files, CacheTypeOK
    <3>2. QED
      BY <2>1, <3>1 DEF ToolReads, CacheTypeOK
  <2>2. QED
    BY <2>1 DEF CacheTypeOK, CacheNext, ChangeFile, SelectDir, Tick, Hit,
           Miss, ToolFails, Store, allVars
<1>5. \A c \in DOMAIN cache' : /\ cache'[c] \in [result : Nat, at : Nat]
                               /\ c.tool \in FileTools => cache'[c].result # 0
  <2>1. ASSUME Store
        PROVE  /\ fetched \in Nat /\ now \in Nat
               /\ call.tool \in FileTools => fetched # 0
    BY <2>1 DEF Store, CacheTypeOK, ReadIsCurrent
  <2>2. TAKE c \in DOMAIN cache'
  <2>3. CASE c \in DOMAIN cache /\ cache'[c] = cache[c]
    BY <2>3 DEF CacheTypeOK
  <2>4. CASE Store /\ c = call /\ cache'[c] = [result |-> fetched, at |-> now]
    BY <2>1, <2>4
  <2>5. QED
    BY <2>2, <2>3, <2>4, EntriesStep
<1>6. \A c \in DOMAIN mtimes' : mtimes'[c] \in Nat \ {0}
  <2>1. TAKE c \in DOMAIN mtimes'
  <2>2. CASE c \in DOMAIN mtimes /\ mtimes'[c] = mtimes[c]
    BY <2>2 DEF CacheTypeOK
  <2>3. CASE Store /\ c = call /\ mtimes'[c] = Stat(c.path) /\ Stat(c.path) # 0
    <3>1. FileIn(Cwd, c.path) \in Files
      BY <2>3, CallsAssumption DEF Store, FileIn, Files, CacheTypeOK
    <3>2. QED
      BY <2>3, <3>1 DEF Stat, CacheTypeOK
  <2>4. QED
    BY <2>1, <2>2, <2>3, EntriesStep
<1>7. QED
  BY <1>1, <1>2, <1>3, <1>4, <1>5, <1>6 DEF CacheTypeOK

\* An absolute path names the same file in every directory.
LEMMA AbsoluteFile ==
    ASSUME NEW path \in Files, NEW d
    PROVE  FileIn(d, path) = path
BY PathsAssumption DEF FileIn

LEMMA NextReadIsCurrent ==
    ASSUME CacheIInv, [CacheNext]_allVars
    PROVE  NothingRead' /\ ReadIsCurrent'
<1> USE DEF CacheIInv, NothingRead, ReadIsCurrent
<1>1. CASE UNCHANGED <<call, fetched, version>>
  BY <1>1
<1>2. ASSUME NEW f \in Files, ChangeFile(f) PROVE NothingRead' /\ ReadIsCurrent'
  <2>1. UNCHANGED <<call, fetched>> /\ (call = NoCall \/ ConcurrentWriters)
    BY <1>2 DEF ChangeFile
  <2>2. QED
    BY <2>1
<1>3. ASSUME NEW c \in Calls, Miss(c) PROVE NothingRead' /\ ReadIsCurrent'
  <2>1. call' = c /\ c # NoCall /\ fetched' = -1
    BY <1>3, CallsAssumption DEF Miss
  <2>2. QED
    BY <2>1
<1>4. CASE ToolReads
  <2>1. /\ UNCHANGED <<call, version>> /\ call # NoCall
        /\ fetched' = version[FileIn(dir, call.path)]
        /\ call.tool \in FileTools => fetched' # 0
    BY <1>4 DEF ToolReads, ReadSucceeds, worldVars
  <2>2. call.path \in Files => fetched' = version[call.path]
    BY <2>1, AbsoluteFile
  <2>3. QED
    BY <2>1, <2>2
<1>5. CASE ToolFails \/ Store
  <2>1. call' = NoCall /\ fetched' = -1
    BY <1>5 DEF ToolFails, Store
  <2>2. QED
    BY <2>1
<1>6. QED
  BY <1>1, <1>2, <1>3, <1>4, <1>5 DEF CacheNext, SelectDir, Tick, Hit,
         allVars, worldVars

LEMMA NextEntriesMatchMtimes ==
    ASSUME CacheIInv, [CacheNext]_allVars
    PROVE  EntriesMatchMtimes'
<1> SUFFICES ASSUME ~ConcurrentWriters, NEW c \in DOMAIN cache', Absolute(c)
             PROVE  c \in DOMAIN mtimes' /\ mtimes'[c] = cache'[c].result
  BY DEF EntriesMatchMtimes, Absolute
<1>1. CASE UNCHANGED <<cache, mtimes>>
  BY <1>1 DEF CacheIInv, EntriesMatchMtimes
<1>2. ASSUME NEW k \in Calls, Miss(k)
      PROVE  c \in DOMAIN mtimes' /\ mtimes'[c] = cache'[c].result
  BY <1>2 DEF Miss, Drop, Restrict, CacheIInv, EntriesMatchMtimes
<1>3. CASE Store
  <2> DEFINE out == Displaced(call)
             kept == Restrict(mtimes, DOMAIN mtimes \ out)
             stats == call.tool \notin WebTools /\ Stat(call.path) # 0
  <2>1. /\ cache' = Put(Restrict(cache, DOMAIN cache \ out), call, [result |-> fetched, at |-> now])
        /\ mtimes' = IF stats THEN Put(kept, call, Stat(call.path)) ELSE kept
        /\ call # NoCall /\ fetched # -1
    BY <1>3 DEF Store
  <2> HIDE DEF out
  <2>2. CASE c = call
    <3>1. fetched # 0 /\ fetched = version[c.path]
      BY <2>1, <2>2 DEF CacheIInv, ReadIsCurrent, Absolute
    <3>2. Stat(c.path) = fetched
      BY <3>1, AbsoluteFile DEF CacheIInv, Stat, Absolute
    <3>3. c.tool \notin WebTools
      BY DEF Absolute, FileTools, WebTools
    <3>4. mtimes' = Put(kept, c, fetched)
      BY <2>1, <2>2, <3>1, <3>2, <3>3
    <3>5. QED
      BY <2>1, <2>2, <3>4 DEF Put
  <2>3. CASE c # call
    <3>1. c \in DOMAIN cache \ out /\ cache'[c] = cache[c]
      BY <2>1, <2>3 DEF Put, Restrict
    <3>2. c \in DOMAIN mtimes /\ mtimes[c] = cache[c].result
      BY <3>1 DEF CacheIInv, EntriesMatchMtimes
    <3>3. c \in DOMAIN kept /\ kept[c] = mtimes[c]
      BY <3>1, <3>2 DEF Restrict
    <3>4. QED
      BY <2>1, <2>3, <3>1, <3>2, <3>3 DEF Put
  <2>4. QED
    BY <2>2, <2>3
<1>4. QED
  BY <1>1, <1>2, <1>3 DEF CacheNext, ChangeFile, SelectDir, Tick, Hit,
         ToolReads, ToolFails, allVars, cacheVars

-----------------------------------------------------------------------------
(* The results.                                                            *)

\* Every reachable state of the cache satisfies the inductive invariant.
THEOREM CacheInvariance == CacheSpec => []CacheIInv
<1>1. CacheIInv /\ [CacheNext]_allVars => CacheIInv'
  <2> SUFFICES ASSUME CacheIInv, [CacheNext]_allVars PROVE CacheIInv'
    OBVIOUS
  <2>1. EntriesEvictable'
    BY NextOrder DEF OrderHolds, NoRepeats, EntriesEvictable
  <2>2. QED
    BY <2>1, CacheNextTypeOK, NextReadIsCurrent, NextEntriesMatchMtimes DEF CacheIInv
<1>2. QED
  BY <1>1, CacheInitial, PTL DEF CacheSpec

\* The cache holds only calls and results of the right kind; in particular the
\* result of a file tool is content that was really read.
THEOREM CacheTypeCorrect == CacheSpec => []CacheTypeOK
BY CacheInvariance, PTL DEF CacheIInv

\* Nothing is leaked: every cached result and every recorded mtime is on the
\* access order exactly once, whatever goes stale, is displaced or fails.
THEOREM NothingLeaks == CacheSpec => []EntriesEvictable
BY CacheInvariance, PTL DEF CacheIInv

\* When files change only between calls, a file result that would be served for
\* an absolute path is the content of the file at that moment.
THEOREM FreshHits == ASSUME ~ConcurrentWriters PROVE CacheSpec => []HitsAreFresh
<1>1. CacheIInv => HitsAreFresh
  <2> SUFFICES ASSUME CacheIInv, NEW c \in Calls, c.tool \in FileTools, c.path \in Files,
                      WouldHit(c)
               PROVE  cache[c].result = version[c.path]
    BY DEF HitsAreFresh
  <2>1. mtimes[c] = cache[c].result
    BY DEF CacheIInv, EntriesMatchMtimes, Absolute, WouldHit
  <2>2. Stat(c.path) = mtimes[c]
    BY DEF WouldHit, Stale
  <2>3. QED
    BY <2>1, <2>2, AbsoluteFile DEF Stat
<1>2. QED
  BY <1>1, CacheInvariance, PTL
=============================================================================
